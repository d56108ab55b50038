----------------------------- MODULE GatewayMC -----------------------------
(* A chat of each platform, two messages, at most two at a time, up to two   *)
(* rounds, and one subagent.                                                *)
EXTENDS Gateway

CONSTANTS tg, dc, s1
=============================================================================
