-------------------------- MODULE EventDispatcherMC -------------------------
(* Two calls that carry the same key, and a command.  (The event of a tick *)
(* comes to the dispatcher by replays only, as that of a command does.)    *)
EXTENDS EventDispatcher

CONSTANTS c1, c2, cmd, k

MCCalls    == {c1, c2}
MCCommands == {cmd}
MCTicks    == {}
MCKeyOf    == [c \in MCCalls |-> k]
=============================================================================
