---------------------------- MODULE EventStoreMC ----------------------------
(* Three calls, two of them with the same idempotency key, against a tick  *)
(* that appends two events and a CLI command that carries a key.           *)
EXTENDS EventStore

CONSTANTS c1, c2, c3, tick, cli, k1, k2

MCCalls   == {c1, c2, c3}
MCTxs     == {tick, cli}
MCKeys    == {k1, k2}
MCKeyOf   == [c \in MCCalls |-> IF c = c3 THEN NoKey ELSE k1]
MCTxKeyOf == [t \in MCTxs |-> IF t = tick THEN NoKey ELSE k2]
=============================================================================
