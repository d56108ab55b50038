---------------------------- MODULE ClientSession ---------------------------
(***************************************************************************)
(* A WebSocket client of the event stream and its session in openclaw-ui   *)
(* (routes/ws.rs): subscribe with the last known number, backfill from the *)
(* log, then follow.  A broadcast is only a wake-up; what is sent is read  *)
(* from the log after last_sent_seq.  A session whose end of the channel   *)
(* is overrun tells the client to reconnect; connections break and the     *)
(* process restarts; the client comes back with the last number it has.    *)
(***************************************************************************)
EXTENDS EventFeed

CONSTANTS Wanted,       \* the events that pass the client's filter
          MaxHangups    \* bound: broken connections

ASSUME SessionAssumption == Wanted \subseteq Ids /\ MaxHangups \in Nat

VARIABLES
    mode,      \* the session
    wakeups,   \* events in the channel that the session has not received
    overrun,    \* events were overwritten, and the session was not told yet
    out,       \* numbers the session still has to send of its last replay
    cursor,    \* last_sent_seq
    got,       \* the numbers the client has received, over all its sessions
    hangups

sessionVars == <<mode, wakeups, overrun, out, cursor, got, hangups>>
clientVars == <<feedVars, sessionVars>>

SessionTypeOK ==
    /\ FeedTypeOK
    /\ mode \in {"off", "subscribed", "backfill", "live"}
    /\ wakeups \in 0..Capacity /\ overrun \in BOOLEAN
    /\ out \in Seq(1..Len(log)) /\ cursor \in 0..Len(log)
    /\ got \in Seq(1..Len(log)) /\ hangups \in 0..MaxHangups

SessionInit ==
    /\ FeedInit
    /\ mode = "off" /\ wakeups = 0 /\ overrun = FALSE
    /\ out = << >> /\ cursor = 0 /\ got = << >> /\ hangups = 0

\* Variant of ReceiveWakeup: the channel grows without bound.
ReceiveUnbounded ==
    /\ wakeups' = IF mode = "off" THEN wakeups ELSE wakeups + 1
    /\ UNCHANGED overrun

\* Variant of ReceiveWakeup: the session subscribes to the channel after its backfill.
ReceiveWhenLive ==
    \/ mode # "live" /\ UNCHANGED <<wakeups, overrun>>
    \/ mode = "live" /\ wakeups < Capacity /\ wakeups' = wakeups + 1 /\ UNCHANGED overrun
    \/ mode = "live" /\ wakeups = Capacity /\ overrun' = TRUE /\ UNCHANGED wakeups

\* broadcast::Sender::send, at the session's end of the channel.
ReceiveWakeup ==
    \/ mode = "off" /\ UNCHANGED <<wakeups, overrun>>
    \/ mode # "off" /\ wakeups < Capacity /\ wakeups' = wakeups + 1 /\ UNCHANGED overrun
    \/ mode # "off" /\ wakeups = Capacity /\ overrun' = TRUE /\ UNCHANGED wakeups

Broadcasts ==
    /\ (\E c \in Calls : EmitBroadcast(c)) \/ ListenerSend
    /\ ReceiveWakeup
    /\ UNCHANGED <<mode, out, cursor, got, hangups>>

-----------------------------------------------------------------------------
LastGot == IF got = << >> THEN 0 ELSE got[Len(got)]

\* The client connects and subscribes from the last number it has; the
\* session subscribes to the channel before it reads the log.
Subscribe ==
    /\ mode = "off"
    /\ mode' = "subscribed" /\ cursor' = LastGot /\ wakeups' = 0
    /\ UNCHANGED <<feedVars, overrun, out, got, hangups>>

BackfillReplay ==
    /\ mode = "subscribed"
    /\ mode' = "backfill" /\ out' = Replay(cursor)
    /\ UNCHANGED <<feedVars, wakeups, overrun, cursor, got, hangups>>

\* Variant of SendNext: the cursor moves only over events that are sent.
SendNextKeepsCursor ==
    /\ out # << >>
    /\ out' = Tail(out)
    /\ \/ log[Head(out)] \in Wanted /\ got' = Append(got, Head(out)) /\ UNCHANGED cursor
       \/ log[Head(out)] \notin Wanted /\ UNCHANGED got /\ cursor' = Head(out)
    /\ UNCHANGED <<feedVars, mode, wakeups, overrun, hangups>>

\* do_backfill and fetch_and_send, one event: a filtered one moves the cursor
\* and is not sent.
SendNext ==
    /\ out # << >>
    /\ out' = Tail(out) /\ cursor' = Head(out)
    /\ got' = IF log[Head(out)] \in Wanted THEN Append(got, Head(out)) ELSE got
    /\ UNCHANGED <<feedVars, mode, wakeups, overrun, hangups>>

BackfillComplete ==
    /\ mode = "backfill" /\ out = << >>
    /\ mode' = "live"
    /\ UNCHANGED <<feedVars, wakeups, overrun, out, cursor, got, hangups>>

\* live_loop, Ok(envelope): read the log after the cursor.
Wake ==
    /\ mode = "live" /\ out = << >> /\ ~overrun /\ wakeups > 0
    /\ wakeups' = wakeups - 1 /\ out' = Replay(cursor)
    /\ UNCHANGED <<feedVars, mode, overrun, cursor, got, hangups>>

\* live_loop, Err(Lagged): send Reconnect and close.
SessionLagged ==
    /\ mode = "live" /\ out = << >> /\ overrun
    /\ mode' = "off" /\ wakeups' = 0 /\ overrun' = FALSE
    /\ UNCHANGED <<feedVars, out, cursor, got, hangups>>

Closed ==
    /\ mode' = "off" /\ out' = << >> /\ wakeups' = 0 /\ overrun' = FALSE
    /\ UNCHANGED <<cursor, got>>

\* The connection breaks, in whatever state the session is.
Hangup ==
    /\ mode # "off" /\ hangups < MaxHangups
    /\ hangups' = hangups + 1
    /\ Closed /\ UNCHANGED feedVars

SessionRestart == FeedRestart /\ Closed /\ UNCHANGED hangups

SessionNext ==
    \/ FeedQuietly /\ UNCHANGED sessionVars
    \/ Broadcasts
    \/ Subscribe \/ BackfillReplay \/ SendNext \/ BackfillComplete
    \/ Wake \/ SessionLagged \/ Hangup
    \/ SessionRestart

\* The listener and the session keep running, and a client that is off comes
\* back; appenders and faults owe nothing.
SessionFairness ==
    /\ WF_clientVars(ListenerReplay /\ UNCHANGED sessionVars)
    /\ WF_clientVars(ListenerSend /\ Broadcasts)
    /\ WF_clientVars(Subscribe \/ BackfillReplay \/ SendNext \/ BackfillComplete
                         \/ Wake \/ SessionLagged)

SessionSpec == SessionInit /\ [][SessionNext]_clientVars /\ SessionFairness

-----------------------------------------------------------------------------
\* A client has received every wanted event up to its cursor once, in the
\* order of the log, over any number of sessions, overruns, broken connections
\* and restarts: backfill and live stream neither overlap nor leave a hole.
ClientStreamExact ==
    LET upTo == IF mode = "off" THEN LastGot ELSE cursor IN
    /\ \A i, j \in DOMAIN got : i < j => got[i] < got[j]
    /\ Elements(got) = {n \in 1..upTo : log[n] \in Wanted}

\* A wanted event whose emit() returned, or whose command notified, reaches a
\* client that keeps reconnecting, also when its end of the channel overruns.
PublishedReachesClient ==
    \A i \in Calls \cup Commands :
        pc[i] = "done" /\ log[seq[i]] \in Wanted ~>
            seq[i] \in Elements(got)

\* An event that a scheduler tick commits reaches a client that wants it.
TickReachesClient ==
    \A t \in Ticks \cap Wanted :
        t \in Elements(log) ~> \E n \in Elements(got) : log[n] = t
=============================================================================
