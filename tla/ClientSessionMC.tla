--------------------------- MODULE ClientSessionMC --------------------------
(* A call, a command and a tick, whose event the client wants in MCAll only. *)
EXTENDS ClientSession

CONSTANTS c1, cmd, tick

MCCalls    == {c1}
MCCommands == {cmd}
MCTicks    == {tick}
MCKeyOf    == [c \in MCCalls |-> NoKey]
MCWanted   == {c1, cmd}
MCAll      == {c1, cmd, tick}
=============================================================================
