------------------------------ MODULE EventLog ------------------------------
(***************************************************************************)
(* What the event store promises its callers (domain/ports.rs, trait       *)
(* EventStore): one append-only log per instance, numbered 1, 2, 3, ...    *)
(* without gaps, that holds an idempotency key at most once, and an `emit` *)
(* that answers with the number of an event the log already holds.         *)
(* EventStore.tla, the translation of the Postgres adapter, is shown to    *)
(* implement this specification.                                           *)
(***************************************************************************)
EXTENDS Naturals

CONSTANTS Calls,   \* calls of emit(); a call is also the event_id it makes
          KeyOf,   \* the idempotency key each call carries, or NoKey
          NoKey    \* idempotency_key = NULL

VARIABLES events,  \* the log: events[n] is the event with sequence number n
          answer   \* answer[c]: the number call c returned, 0 before that

logVars == <<events, answer>>

\* A set of sequence numbers that starts at 1 and misses none.
NoGap(S) == S \subseteq Nat \ {0} /\ \A n \in S : n > 1 => n - 1 \in S

\* Event e is what call c asked to record: its own event, or an earlier one
\* with the same idempotency key.
Records(e, c) == \/ e.id = c
                 \/ KeyOf[c] # NoKey /\ e.key = KeyOf[c]

Init == /\ events = [n \in {} |-> n]
        /\ answer = [c \in Calls |-> 0]

\* A commit adds events after the last one and disturbs nothing before.
Append == /\ DOMAIN events \subseteq DOMAIN events'
          /\ DOMAIN events # DOMAIN events'
          /\ NoGap(DOMAIN events')
          /\ \A n \in DOMAIN events : events'[n] = events[n]
          /\ \A m, n \in DOMAIN events' :
                events'[m].key # NoKey /\ events'[m].key = events'[n].key => m = n
          /\ UNCHANGED answer

\* A call returns the number of an event that records what it asked for.
Answer(c) == /\ answer[c] = 0
             /\ \E n \in DOMAIN events :
                   /\ Records(events[n], c)
                   /\ answer' = [answer EXCEPT ![c] = n]
             /\ UNCHANGED events

Next == Append \/ \E c \in Calls : Answer(c)

Spec == Init /\ [][Next]_logVars
=============================================================================
