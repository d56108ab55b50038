------------------------------ MODULE EventFeed -----------------------------
(***************************************************************************)
(* How committed events leave the event store of one instance: the NOTIFY  *)
(* and the in-process broadcast at the end of emit() (event_store.rs), and *)
(* the listener that replays on a notification (event_stream.rs).          *)
(* Scheduler ticks and CLI commands append as well; a CLI command, a       *)
(* process of its own, only notifies, and a tick tells nobody.             *)
(*                                                                         *)
(* An append is one step and takes the next number, as EventLog promises   *)
(* and EventStore implements.  The broadcasts (EmitBroadcast,              *)
(* ListenerSend) are completed by the modules of the receivers, which say  *)
(* what their end of the channel does with the event: EventDispatcher and  *)
(* ClientSession.                                                          *)
(***************************************************************************)
EXTENDS Naturals, Sequences

CONSTANTS Calls,        \* calls of emit() in this process
          Commands,     \* CLI commands that append an event
          Ticks,        \* scheduler ticks that append an event
          KeyOf,        \* the idempotency key of each call, or NoKey
          NoKey,
          Capacity,     \* slots of the broadcast channel (1024)
          MaxRestarts   \* bound: restarts of the process

Ids == Calls \cup Commands \cup Ticks

ASSUME FeedAssumption ==
    /\ Calls \cap Commands = {} /\ Calls \cap Ticks = {} /\ Commands \cap Ticks = {}
    /\ DOMAIN KeyOf = Calls /\ Capacity \in Nat \ {0} /\ MaxRestarts \in Nat

VARIABLES
    log,       \* log[n] is the id of the committed event number n
    pc,        \* where each appender is
    seq,       \* the number each appender obtained
    notes,     \* notifications on their way to the listener
    relay,     \* what the listener still has to broadcast of its last replay
    restarts

feedVars == <<log, pc, seq, notes, relay, restarts>>

FeedTypeOK ==
    /\ log \in Seq(Ids)
    /\ pc \in [Ids -> {"start", "notify", "broadcast", "done", "unheard", "dead"}]
    /\ seq \in [Ids -> 0..Len(log)]
    /\ notes \in Seq(1..Len(log))
    /\ relay \in Seq(1..Len(log))
    /\ restarts \in 0..MaxRestarts

FeedInit ==
    /\ log = << >> /\ pc = [i \in Ids |-> "start"] /\ seq = [i \in Ids |-> 0]
    /\ notes = << >> /\ relay = << >> /\ restarts = 0

Elements(s) == {s[i] : i \in DOMAIN s}

\* replay(since_seq): the numbers of the committed events after since.
Replay(since) == [i \in 1..(Len(log) - since) |-> since + i]

-----------------------------------------------------------------------------
Go(i, place) == pc' = [pc EXCEPT ![i] = place]

AppendEvent(i) ==
    /\ log' = Append(log, i)
    /\ seq' = [seq EXCEPT ![i] = Len(log) + 1]

\* The numbers under which the log holds the key of a call.
Recorded(c) == {n \in 1..Len(log) : /\ log[n] \in Calls
                                    /\ KeyOf[c] # NoKey
                                    /\ KeyOf[log[n]] = KeyOf[c]}

\* A call whose key is recorded appends nothing and obtains the number of the
\* recorded event; the envelope it will broadcast has its own id all the same.
EmitCommit(c) ==
    /\ pc[c] = "start"
    /\ \/ Recorded(c) = {} /\ AppendEvent(c)
       \/ /\ \E n \in Recorded(c) : seq' = [seq EXCEPT ![c] = n]
          /\ UNCHANGED log
    /\ Go(c, "notify")
    /\ UNCHANGED <<notes, relay, restarts>>

\* SELECT pg_notify(...).ok(): emit goes on whether or not it succeeds, and a
\* notification is lost when the LISTEN connection is down.
EmitNotify(c) ==
    /\ pc[c] = "notify"
    /\ notes' \in {notes, Append(notes, seq[c])}
    /\ Go(c, "broadcast")
    /\ UNCHANGED <<log, seq, relay, restarts>>

\* The broadcast of the call's envelope, and its return.
EmitBroadcast(c) ==
    /\ pc[c] = "broadcast"
    /\ Go(c, "done")
    /\ UNCHANGED <<log, seq, notes, relay, restarts>>

\* The request that runs the call is cut off after its commit.
EmitDies(c) ==
    /\ pc[c] \in {"notify", "broadcast"}
    /\ Go(c, "dead")
    /\ UNCHANGED <<log, seq, notes, relay, restarts>>

CommandCommit(m) ==
    /\ pc[m] = "start"
    /\ AppendEvent(m)
    /\ Go(m, "notify")
    /\ UNCHANGED <<notes, relay, restarts>>

\* notify_event: best effort again.
CommandNotify(m) ==
    /\ pc[m] = "notify"
    /\ \/ notes' = Append(notes, seq[m]) /\ Go(m, "done")
       \/ UNCHANGED notes /\ Go(m, "unheard")
    /\ UNCHANGED <<log, seq, relay, restarts>>

\* A scheduler tick commits its event; nothing is notified or broadcast.
TickCommit(t) ==
    /\ pc[t] = "start"
    /\ AppendEvent(t)
    /\ Go(t, "done")
    /\ UNCHANGED <<notes, relay, restarts>>

\* Variant of ListenerReplay: replay(seq) where replay(seq - 1) is meant.
ListenerReplayAfter ==
    /\ relay = << >> /\ notes # << >>
    /\ notes' = Tail(notes)
    /\ relay' = Replay(Head(notes))
    /\ UNCHANGED <<log, pc, seq, restarts>>

\* A notification "instance:n" replays every event from n on, those whose own
\* notification is still to come included.
ListenerReplay ==
    /\ relay = << >> /\ notes # << >>
    /\ notes' = Tail(notes)
    /\ relay' = Replay(Head(notes) - 1)
    /\ UNCHANGED <<log, pc, seq, restarts>>

ListenerSend ==
    /\ relay # << >>
    /\ relay' = Tail(relay)
    /\ UNCHANGED <<log, pc, seq, notes, restarts>>

\* The process restarts: calls in progress, notifications and the listener's
\* replay are gone, and nothing reads the log again.
FeedRestart ==
    /\ restarts < MaxRestarts
    /\ restarts' = restarts + 1
    /\ pc' = [i \in Ids |-> IF i \in Calls /\ pc[i] \in {"notify", "broadcast"}
                            THEN "dead" ELSE pc[i]]
    /\ notes' = << >> /\ relay' = << >>
    /\ UNCHANGED <<log, seq>>

\* The steps that broadcast nothing.
FeedQuietly ==
    \/ \E c \in Calls : EmitCommit(c) \/ EmitNotify(c) \/ EmitDies(c)
    \/ \E m \in Commands : CommandCommit(m) \/ CommandNotify(m)
    \/ \E t \in Ticks : TickCommit(t)
    \/ ListenerReplay
=============================================================================
