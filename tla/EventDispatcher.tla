--------------------------- MODULE EventDispatcher --------------------------
(***************************************************************************)
(* The event dispatcher of openclaw-ui (dispatch.rs) at its end of the     *)
(* broadcast channel.  Every event comes to it by the broadcast of its     *)
(* emit() and again by one or more replays of the listener; it remembers   *)
(* the last Window ids it has handled and skips those.                     *)
(***************************************************************************)
EXTENDS FiniteSets, EventFeed

CONSTANT Window         \* ids the dispatcher remembers (DEDUP_WINDOW, 256)

ASSUME DispatcherAssumption == Window \in Nat \ {0}

VARIABLES
    queue,     \* ids in the channel that the dispatcher has not received
    lagged,    \* events were overwritten, and the dispatcher was not told yet
    seen,      \* the ids the dispatcher remembers, oldest first
    handled,   \* the ids handle_event ran for in this process, in order (history)
    missed     \* the ids that were overwritten (history)

dispatcherVars == <<queue, lagged, seen, handled, missed>>
vars == <<feedVars, dispatcherVars>>

TypeOK ==
    /\ FeedTypeOK
    /\ queue \in Seq(Ids) /\ Len(queue) <= Capacity
    /\ lagged \in BOOLEAN
    /\ seen \in Seq(Ids) /\ Len(seen) <= Window
    /\ handled \in Seq(Ids)
    /\ missed \subseteq Ids

Init ==
    /\ FeedInit
    /\ queue = << >> /\ lagged = FALSE /\ seen = << >>
    /\ handled = << >> /\ missed = {}

\* Variant of Receive: a channel without a bound on its length.
ReceiveAlways(id) ==
    /\ queue' = Append(queue, id)
    /\ UNCHANGED <<lagged, missed>>

\* broadcast::Sender::send: a receiver that is Capacity events behind loses
\* the oldest one and is told so at its next recv.
Receive(id) ==
    \/ /\ Len(queue) < Capacity
       /\ queue' = Append(queue, id)
       /\ UNCHANGED <<lagged, missed>>
    \/ /\ Len(queue) = Capacity
       /\ queue' = Append(Tail(queue), id)
       /\ lagged' = TRUE
       /\ missed' = missed \cup {Head(queue)}

EmitReaches(c) ==
    EmitBroadcast(c) /\ Receive(c) /\ UNCHANGED <<seen, handled>>

ListenerReaches ==
    ListenerSend /\ Receive(log[Head(relay)]) /\ UNCHANGED <<seen, handled>>

\* Variant of Remember: the newest of the remembered ids makes room.
RememberOldest(id) ==
    IF Len(seen) = Window THEN Append(SubSeq(seen, 1, Window - 1), id) ELSE Append(seen, id)

\* seen_order.push, and remove(0) when the window is exceeded.
Remember(id) ==
    IF Len(seen) = Window THEN Append(Tail(seen), id) ELSE Append(seen, id)

\* Ok(event) on a known id.
SkipDuplicate ==
    /\ ~lagged /\ queue # << >> /\ Head(queue) \in Elements(seen)
    /\ queue' = Tail(queue)
    /\ UNCHANGED <<feedVars, lagged, seen, handled, missed>>

\* Variant of Handle: every received event is handled.
HandleAll ==
    /\ ~lagged /\ queue # << >>
    /\ queue' = Tail(queue)
    /\ seen' = Remember(Head(queue))
    /\ handled' = Append(handled, Head(queue))
    /\ UNCHANGED <<feedVars, lagged, missed>>

\* Ok(event) on a new id: handle_event.
Handle ==
    /\ ~lagged /\ queue # << >> /\ Head(queue) \notin Elements(seen)
    /\ queue' = Tail(queue)
    /\ seen' = Remember(Head(queue))
    /\ handled' = Append(handled, Head(queue))
    /\ UNCHANGED <<feedVars, lagged, missed>>

\* Err(Lagged): a warning, and on with what is left.
Lagged ==
    /\ lagged /\ lagged' = FALSE
    /\ UNCHANGED <<feedVars, queue, seen, handled, missed>>

\* The window is in memory: a restarted dispatcher knows no id.
Restart ==
    /\ FeedRestart
    /\ queue' = << >> /\ lagged' = FALSE /\ seen' = << >>
    /\ handled' = << >> /\ missed' = {}

Next ==
    \/ FeedQuietly /\ UNCHANGED dispatcherVars
    \/ \E c \in Calls : EmitReaches(c)
    \/ ListenerReaches
    \/ SkipDuplicate \/ Handle \/ Lagged
    \/ Restart

\* The two tasks keep running; appenders and restarts owe nothing.
Fairness ==
    /\ WF_vars(ListenerReplay /\ UNCHANGED dispatcherVars)
    /\ WF_vars(ListenerReaches)
    /\ WF_vars(SkipDuplicate) /\ WF_vars(Handle) /\ WF_vars(Lagged)

Spec == Init /\ [][Next]_vars /\ Fairness

-----------------------------------------------------------------------------
\* "Events older than this window are forgotten - acceptable because duplicates
\* arrive within milliseconds of each other" (dispatch.rs:26-27): but a replay brings old
\* events back at any time.  What the window is good for is this: an event is handled again
\* only when Window other events were handled in between, although every new event takes the
\* place of an older one in the window.
RepeatsAreApart ==
    \A a, b \in DOMAIN handled :
        a < b /\ handled[a] = handled[b] =>
            Cardinality({handled[x] : x \in (a + 1)..(b - 1)}) >= Window

\* An event that was broadcast or notified is handled, unless it was
\* overwritten in a full channel or the process ended first.
HandledUnlessMissed ==
    \A i \in Calls \cup Commands :
        pc[i] = "done" ~> i \in Elements(handled) \/ i \in missed \/ restarts > 0
=============================================================================
