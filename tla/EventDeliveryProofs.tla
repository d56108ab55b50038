------------------------- MODULE EventDeliveryProofs -------------------------
(***************************************************************************)
(* Proofs about the delivery of events, for any appenders, keys,           *)
(* capacities, filters and restarts: the feed behaves as the abstract log, *)
(* the dispatcher loses no event but to an overrun and handles none again  *)
(* within its window, and a client of the stream gets what it wants        *)
(* exactly once, in order, and is never left waiting for an event it could *)
(* have.                                                                   *)
(*                                                                         *)
(* The dispatcher and the client's session hang at the same feed.          *)
(***************************************************************************)
EXTENDS EventDispatcher, ClientSession, FiniteSetTheorems, SequenceTheorems, TLAPS

-----------------------------------------------------------------------------
(***************************************************************************)
(* The feed.                                                               *)
(***************************************************************************)
\* The steps of the feed, whatever the receivers do with a broadcast.
FeedStep ==
    \/ FeedQuietly
    \/ \E c \in Calls : EmitBroadcast(c)
    \/ ListenerSend
    \/ FeedRestart
    \/ UNCHANGED feedVars

\* A call that has committed has the number of its event, or of one with its
\* key; a command has the number of its own event.
NumberedInv ==
    /\ \A c \in Calls : pc[c] \in {"notify", "broadcast", "done"} =>
          /\ seq[c] \in 1..Len(log)
          /\ log[seq[c]] = c \/ seq[c] \in Recorded(c)
    /\ \A m \in Commands : pc[m] \in {"notify", "done"} =>
          seq[m] \in 1..Len(log) /\ log[seq[m]] = m

\* The key under which the log holds an event; commands and ticks have none.
Key(i) == IF i \in Calls THEN KeyOf[i] ELSE NoKey

\* The log holds a key once.
KeyedInv == \A m, n \in 1..Len(log) :
                Key(log[m]) # NoKey /\ Key(log[m]) = Key(log[n]) => m = n

FeedInv == FeedTypeOK /\ NumberedInv /\ KeyedInv

\* The log only grows at its end.
LogGrows ==
    /\ log' \in Seq(Ids) /\ Len(log) <= Len(log')
    /\ \A n \in 1..Len(log) : log'[n] = log[n]

\* The invariant holds of the empty feed.
LEMMA InitFeedInv == FeedInit => FeedInv
<1> SUFFICES ASSUME FeedInit PROVE FeedInv
  OBVIOUS
<1>1. Len(log) = 0 /\ log \in Seq(Ids) /\ 0 \in 0..Len(log) /\ 0 \in 0..MaxRestarts
  BY FeedAssumption DEF FeedInit
<1>2. FeedTypeOK
  BY <1>1 DEF FeedInit, FeedTypeOK
<1>3. NumberedInv
  BY DEF FeedInit, NumberedInv, Ids
<1>4. KeyedInv
  BY <1>1 DEF KeyedInv
<1> QED
  BY <1>2, <1>3, <1>4 DEF FeedInv

\* replay gives the numbers of the log that follow a number, in order.
LEMMA ReplayType ==
    ASSUME log \in Seq(Ids), NEW since \in 0..Len(log)
    PROVE  /\ Replay(since) \in Seq(1..Len(log))
           /\ Len(Replay(since)) = Len(log) - since
           /\ \A i \in 1..Len(Replay(since)) : Replay(since)[i] = since + i
<1>1. Len(log) - since \in Nat /\ Len(log) \in Nat
  OBVIOUS
<1>2. \A i \in 1..(Len(log) - since) : since + i \in 1..Len(log)
  BY <1>1
<1>3. Replay(since) \in [1..(Len(log) - since) -> 1..Len(log)]
  BY <1>2 DEF Replay
<1>4. Replay(since) \in Seq(1..Len(log)) /\ Len(Replay(since)) = Len(log) - since
  BY <1>1, <1>3
<1> QED
  BY <1>4 DEF Replay

\* Numbers that were given out, and keys that were recorded, stay when the log
\* grows at its end.
LEMMA GrowthKeepsNumbers ==
    ASSUME FeedInv, LogGrows
    PROVE  /\ 1..Len(log) \subseteq 1..Len(log') /\ 0..Len(log) \subseteq 0..Len(log')
           /\ notes \in Seq(1..Len(log')) /\ relay \in Seq(1..Len(log'))
           /\ seq \in [Ids -> 0..Len(log')]
           /\ \A c \in Calls : Recorded(c) \subseteq Recorded(c)'
<1>1. Len(log) \in Nat /\ Len(log') \in Nat
  BY DEF FeedInv, FeedTypeOK, LogGrows
<1>2. 1..Len(log) \subseteq 1..Len(log') /\ 0..Len(log) \subseteq 0..Len(log')
  BY <1>1 DEF LogGrows
<1>3. notes \in Seq(1..Len(log')) /\ relay \in Seq(1..Len(log'))
  BY <1>2, SeqMonotonic DEF FeedInv, FeedTypeOK
<1>4. seq \in [Ids -> 0..Len(log')]
  BY <1>2 DEF FeedInv, FeedTypeOK
<1>5. \A c \in Calls : Recorded(c) \subseteq Recorded(c)'
  BY <1>2 DEF Recorded, LogGrows
<1> QED
  BY <1>2, <1>3, <1>4, <1>5

\* An append gives the appender the next number.
LEMMA AppendKeeps ==
    ASSUME FeedInv, NEW i \in Ids, pc[i] = "start", AppendEvent(i),
           \A n \in 1..Len(log) : Key(i) # NoKey => Key(log[n]) # Key(i),
           Go(i, "notify") \/ Go(i, "done"), UNCHANGED <<notes, relay, restarts>>
    PROVE  FeedInv' /\ LogGrows
<1> USE DEF FeedInv, FeedTypeOK
<1> DEFINE n == Len(log)
<1>1. /\ n \in Nat /\ Len(log') = n + 1 /\ log' \in Seq(Ids)
      /\ \A m \in 1..n : log'[m] = log[m]
      /\ log'[n + 1] = i
  BY AppendProperties DEF AppendEvent
<1>2. LogGrows
  BY <1>1 DEF LogGrows
<1>3. seq' = [seq EXCEPT ![i] = n + 1] /\ n + 1 \in 1..Len(log')
  BY <1>1 DEF AppendEvent
<1>4. FeedTypeOK'
  <2>1. seq' \in [Ids -> 0..Len(log')]
    BY <1>1, <1>2, <1>3, GrowthKeepsNumbers
  <2>2. pc' \in [Ids -> {"start", "notify", "broadcast", "done", "unheard", "dead"}]
    BY DEF Go
  <2> QED
    BY <1>1, <1>2, <2>1, <2>2, GrowthKeepsNumbers
<1>5. NumberedInv'
  <2>1. pc' = [pc EXCEPT ![i] = "notify"] \/ pc' = [pc EXCEPT ![i] = "done"]
    BY DEF Go
  <2>2. seq'[i] \in 1..Len(log') /\ log'[seq'[i]] = i
    BY <1>1, <1>3
  <2>3. ASSUME NEW j \in Ids, j # i PROVE seq'[j] = seq[j] /\ pc'[j] = pc[j]
    BY <1>3, <2>1, <2>3
  <2>4. ASSUME NEW c \in Calls, pc'[c] \in {"notify", "broadcast", "done"}
        PROVE  seq'[c] \in 1..Len(log') /\ (log'[seq'[c]] = c \/ seq'[c] \in Recorded(c)')
    <3>1. CASE c = i
      BY <2>2, <3>1
    <3>2. CASE c # i
      <4>1. seq'[c] = seq[c] /\ pc'[c] = pc[c]
        BY <2>3, <3>2 DEF Ids
      <4>2. seq[c] \in 1..n /\ (log[seq[c]] = c \/ seq[c] \in Recorded(c))
        BY <2>4, <4>1 DEF NumberedInv
      <4>3. Recorded(c) \subseteq Recorded(c)'
        BY <1>2, GrowthKeepsNumbers
      <4> QED
        BY <1>1, <4>1, <4>2, <4>3
    <3> QED
      BY <3>1, <3>2
  <2>5. ASSUME NEW m \in Commands, pc'[m] \in {"notify", "done"}
        PROVE  seq'[m] \in 1..Len(log') /\ log'[seq'[m]] = m
    <3>1. CASE m = i
      BY <2>2, <3>1
    <3>2. CASE m # i
      <4>1. seq'[m] = seq[m] /\ pc'[m] = pc[m]
        BY <2>3, <3>2 DEF Ids
      <4>2. seq[m] \in 1..n /\ log[seq[m]] = m
        BY <2>5, <4>1 DEF NumberedInv
      <4> QED
        BY <1>1, <4>1, <4>2
    <3> QED
      BY <3>1, <3>2
  <2> QED
    BY <2>4, <2>5 DEF NumberedInv
<1>6. KeyedInv'
  <2> SUFFICES ASSUME NEW j \in 1..(n + 1), NEW k \in 1..(n + 1),
                      Key(log'[j]) # NoKey, Key(log'[j]) = Key(log'[k])
               PROVE  j = k
    BY <1>1 DEF KeyedInv, Key
  <2>1. CASE j \in 1..n /\ k \in 1..n
    <3>1. log'[j] = log[j] /\ log'[k] = log[k]
      BY <1>1, <2>1
    <3> QED
      BY <2>1, <3>1 DEF KeyedInv
  <2>2. CASE j = n + 1 /\ k \in 1..n
    BY <1>1, <2>2
  <2>3. CASE j \in 1..n /\ k = n + 1
    BY <1>1, <2>3
  <2>4. (j \in 1..n \/ j = n + 1) /\ (k \in 1..n \/ k = n + 1)
    BY <1>1
  <2> QED
    BY <2>1, <2>2, <2>3, <2>4
<1> QED
  BY <1>2, <1>4, <1>5, <1>6

\* The steps that broadcast nothing keep the feed.
LEMMA QuietKeeps ==
    ASSUME FeedInv, FeedQuietly PROVE FeedInv' /\ LogGrows
<1> USE DEF FeedInv, FeedTypeOK
<1>0. UNCHANGED log => LogGrows
  BY DEF LogGrows
<1>1. ASSUME NEW c \in Calls, EmitCommit(c) PROVE FeedInv' /\ LogGrows
  <2>0. c \in Ids /\ Key(c) = KeyOf[c]
    BY DEF Ids, Key
  <2>1. CASE Recorded(c) = {} /\ AppendEvent(c)
    <3>1. \A n \in 1..Len(log) : Key(c) # NoKey => Key(log[n]) # Key(c)
      BY <2>0, <2>1 DEF Recorded, Key
    <3> QED
      BY <1>1, <2>0, <2>1, <3>1, AppendKeeps DEF EmitCommit
  <2>2. CASE (\E n \in Recorded(c) : seq' = [seq EXCEPT ![c] = n]) /\ UNCHANGED log
    <3>1. PICK n \in Recorded(c) : seq' = [seq EXCEPT ![c] = n]
      BY <2>2
    <3>2. n \in 1..Len(log) /\ n \in 0..Len(log)
      BY DEF Recorded
    <3>3. pc' = [pc EXCEPT ![c] = "notify"] /\ UNCHANGED <<notes, relay, restarts>>
      BY <1>1 DEF EmitCommit, Go
    <3>4. FeedTypeOK'
      BY <2>0, <2>2, <3>1, <3>2, <3>3
    <3>5. NumberedInv'
      <4>1. \A d \in Calls : Recorded(d)' = Recorded(d)
        BY <2>2 DEF Recorded
      <4>2. seq'[c] = n /\ \A j \in Ids : j # c => seq'[j] = seq[j] /\ pc'[j] = pc[j]
        BY <2>0, <3>1, <3>2, <3>3
      <4>3. \A m \in Commands : m # c
        BY FeedAssumption
      <4> QED
        BY <2>2, <3>2, <4>1, <4>2, <4>3 DEF NumberedInv, Ids
    <3>6. KeyedInv'
      BY <2>2 DEF KeyedInv
    <3> QED
      BY <1>0, <2>2, <3>4, <3>5, <3>6
  <2> QED
    BY <1>1, <2>1, <2>2 DEF EmitCommit
<1>2. ASSUME UNCHANGED <<log, seq>>, FeedTypeOK', NEW i \in Ids, NEW place,
             pc' = [pc EXCEPT ![i] = place],
             \/ pc[i] \in {"notify", "broadcast"} /\ i \in Calls
             \/ pc[i] = "notify"
      PROVE  FeedInv' /\ LogGrows
  <2>1. NumberedInv'
    <3>1. \A c \in Calls : Recorded(c)' = Recorded(c)
      BY <1>2 DEF Recorded
    <3>2. \A j \in Ids : j # i => pc'[j] = pc[j]
      BY <1>2
    <3> QED
      BY <1>2, <3>1, <3>2, FeedAssumption DEF NumberedInv, Ids
  <2> QED
    BY <1>0, <1>2, <2>1 DEF KeyedInv
<1>3. ASSUME NEW c \in Calls, EmitNotify(c) PROVE FeedInv' /\ LogGrows
  <2>1. /\ c \in Ids /\ pc[c] = "notify" /\ pc' = [pc EXCEPT ![c] = "broadcast"]
        /\ UNCHANGED <<log, seq, relay, restarts>>
    BY <1>3 DEF EmitNotify, Go, Ids
  <2>2. seq[c] \in 1..Len(log) /\ notes \in Seq(1..Len(log))
    BY <2>1 DEF NumberedInv
  <2>3. Append(notes, seq[c]) \in Seq(1..Len(log))
    BY <2>2, AppendProperties
  <2>4. FeedTypeOK'
    BY <1>3, <2>1, <2>2, <2>3 DEF EmitNotify
  <2> QED
    BY <1>2, <2>1, <2>4
<1>4. ASSUME NEW c \in Calls, EmitDies(c) PROVE FeedInv' /\ LogGrows
  <2>1. /\ c \in Ids /\ pc[c] \in {"notify", "broadcast"} /\ pc' = [pc EXCEPT ![c] = "dead"]
        /\ UNCHANGED <<log, seq, notes, relay, restarts>>
    BY <1>4 DEF EmitDies, Go, Ids
  <2>2. FeedTypeOK'
    BY <2>1
  <2> QED
    BY <1>2, <2>1, <2>2
<1>5. ASSUME NEW m \in Commands, CommandCommit(m) PROVE FeedInv' /\ LogGrows
  <2>1. m \in Ids /\ Key(m) = NoKey
    BY FeedAssumption DEF Ids, Key
  <2> QED
    BY <1>5, <2>1, AppendKeeps DEF CommandCommit
<1>6. ASSUME NEW m \in Commands, CommandNotify(m) PROVE FeedInv' /\ LogGrows
  <2>1. /\ m \in Ids /\ pc[m] = "notify" /\ UNCHANGED <<log, seq, relay, restarts>>
        /\ pc' = [pc EXCEPT ![m] = "done"] \/ pc' = [pc EXCEPT ![m] = "unheard"]
    BY <1>6 DEF CommandNotify, Go, Ids
  <2>2. seq[m] \in 1..Len(log) /\ notes \in Seq(1..Len(log))
    BY <2>1 DEF NumberedInv
  <2>3. Append(notes, seq[m]) \in Seq(1..Len(log))
    BY <2>2, AppendProperties
  <2>4. FeedTypeOK'
    BY <1>6, <2>1, <2>2, <2>3 DEF CommandNotify
  <2> QED
    BY <1>2, <2>1, <2>4
<1>7. ASSUME NEW t \in Ticks, TickCommit(t) PROVE FeedInv' /\ LogGrows
  <2>1. t \in Ids /\ Key(t) = NoKey
    BY FeedAssumption DEF Ids, Key
  <2> QED
    BY <1>7, <2>1, AppendKeeps DEF TickCommit
<1>8. CASE ListenerReplay
  <2>1. /\ Head(notes) \in 1..Len(log) /\ Tail(notes) \in Seq(1..Len(log))
        /\ notes' = Tail(notes) /\ relay' = Replay(Head(notes) - 1)
        /\ UNCHANGED <<log, pc, seq, restarts>>
    BY <1>8, HeadTailProperties DEF ListenerReplay
  <2>2. Head(notes) - 1 \in 0..Len(log)
    BY <2>1
  <2>3. relay' \in Seq(1..Len(log))
    BY <2>1, <2>2, ReplayType
  <2> QED
    BY <1>0, <2>1, <2>3 DEF NumberedInv, KeyedInv, Recorded
<1> QED
  BY <1>1, <1>3, <1>4, <1>5, <1>6, <1>7, <1>8 DEF FeedQuietly

\* Every step of the feed keeps its invariant and lets the log only grow.
LEMMA FeedStepKeeps == FeedInv /\ FeedStep => FeedInv' /\ LogGrows
<1> SUFFICES ASSUME FeedInv, FeedStep PROVE FeedInv' /\ LogGrows
  OBVIOUS
<1> USE DEF FeedInv, FeedTypeOK
<1>0. UNCHANGED log => LogGrows
  BY DEF LogGrows
<1>1. ASSUME NEW c \in Calls, EmitBroadcast(c) PROVE FeedInv' /\ LogGrows
  <2>1. /\ c \in Ids /\ pc[c] = "broadcast" /\ pc' = [pc EXCEPT ![c] = "done"]
        /\ UNCHANGED <<log, seq, notes, relay, restarts>>
    BY <1>1 DEF EmitBroadcast, Go, Ids
  <2>2. FeedTypeOK' /\ KeyedInv'
    BY <2>1 DEF KeyedInv
  <2>3. NumberedInv'
    <3>1. \A d \in Calls : Recorded(d)' = Recorded(d)
      BY <2>1 DEF Recorded
    <3>2. \A j \in Ids : j # c => pc'[j] = pc[j]
      BY <2>1
    <3> QED
      BY <2>1, <3>1, <3>2, FeedAssumption DEF NumberedInv, Ids
  <2> QED
    BY <1>0, <2>1, <2>2, <2>3
<1>2. CASE ListenerSend
  <2>1. relay # << >> /\ relay' = Tail(relay) /\ UNCHANGED <<log, pc, seq, notes, restarts>>
    BY <1>2 DEF ListenerSend
  <2>2. relay' \in Seq(1..Len(log))
    BY <2>1, HeadTailProperties
  <2> QED
    BY <1>0, <2>1, <2>2 DEF NumberedInv, KeyedInv, Recorded
<1>3. CASE FeedRestart
  <2>1. FeedTypeOK' /\ UNCHANGED <<log, seq>>
    BY <1>3, FeedAssumption DEF FeedRestart
  <2>2. \A i \in Ids : pc'[i] = pc[i] \/ pc'[i] = "dead"
    BY <1>3 DEF FeedRestart
  <2> QED
    BY <1>0, <2>1, <2>2 DEF NumberedInv, KeyedInv, Recorded, Ids
<1>4. CASE UNCHANGED feedVars
  BY <1>0, <1>4 DEF feedVars, NumberedInv, KeyedInv, Recorded
<1> QED
  BY <1>1, <1>2, <1>3, <1>4, QuietKeeps DEF FeedStep

-----------------------------------------------------------------------------
(***************************************************************************)
(* The feed is the log of EventLog: an event has its appender and its key, *)
(* and a call has its answer when it has returned.                         *)
(***************************************************************************)
FeedEvents == [n \in 1..Len(log) |-> [id |-> log[n], key |-> Key(log[n])]]

FeedAnswer == [c \in Calls |-> IF pc[c] = "done" THEN seq[c] ELSE 0]

Log == INSTANCE EventLog WITH events <- FeedEvents, answer <- FeedAnswer

\* The log starts empty, and no call has an answer.
LEMMA InitIsEmptyLog == FeedInit => Log!Init
<1> SUFFICES ASSUME FeedInit PROVE Log!Init
  OBVIOUS
<1>1. FeedEvents = [n \in {} |-> n]
  BY DEF FeedInit, FeedEvents
<1>2. FeedAnswer = [c \in Calls |-> 0]
  BY DEF FeedInit, FeedAnswer, Ids
<1> QED
  BY <1>1, <1>2 DEF Log!Init

\* A commit is an Append.
LEMMA AppendIsAppend ==
    ASSUME FeedInv, KeyedInv', NEW i \in Ids, AppendEvent(i), UNCHANGED FeedAnswer
    PROVE  Log!Append
<1> DEFINE n == Len(log)
<1>1. /\ n \in Nat /\ Len(log') = n + 1
      /\ \A m \in 1..n : log'[m] = log[m]
  BY AppendProperties DEF AppendEvent, FeedInv, FeedTypeOK
<1>2. DOMAIN FeedEvents = 1..n /\ DOMAIN FeedEvents' = 1..(n + 1)
  BY <1>1 DEF FeedEvents
<1>3. \A m \in 1..n : FeedEvents'[m] = FeedEvents[m]
  BY <1>1 DEF FeedEvents, Key
<1>4. \A j, k \in 1..(n + 1) :
         FeedEvents'[j].key # NoKey /\ FeedEvents'[j].key = FeedEvents'[k].key => j = k
  BY <1>1 DEF FeedEvents, KeyedInv, Key
<1>5. Log!NoGap(1..(n + 1))
  BY <1>1 DEF Log!NoGap
<1>6. n + 1 \in 1..(n + 1) /\ n + 1 \notin 1..n /\ 1..n \subseteq 1..(n + 1)
  BY <1>1
<1> QED
  BY <1>2, <1>3, <1>4, <1>5, <1>6 DEF Log!Append

\* The return of a call is an Answer.
LEMMA BroadcastIsAnswer ==
    ASSUME FeedInv, NEW c \in Calls, EmitBroadcast(c)
    PROVE  Log!Answer(c)
<1>1. /\ c \in Ids /\ pc[c] = "broadcast" /\ pc' = [pc EXCEPT ![c] = "done"]
      /\ UNCHANGED <<log, seq>>
  BY DEF EmitBroadcast, Go, Ids
<1>2. seq[c] \in 1..Len(log) /\ (log[seq[c]] = c \/ seq[c] \in Recorded(c))
  BY <1>1 DEF FeedInv, NumberedInv
<1>3. UNCHANGED FeedEvents
  BY <1>1 DEF FeedEvents, Key
<1>4. seq[c] \in DOMAIN FeedEvents /\ Log!Records(FeedEvents[seq[c]], c)
  BY <1>2 DEF FeedEvents, Log!Records, Recorded, Key
<1>5. FeedAnswer[c] = 0 /\ FeedAnswer' = [FeedAnswer EXCEPT ![c] = seq[c]]
  <2>1. FeedAnswer[c] = 0
    BY <1>1 DEF FeedAnswer
  <2>2. \A d \in Calls : FeedAnswer'[d] = IF d = c THEN seq[c] ELSE FeedAnswer[d]
    BY <1>1 DEF FeedAnswer, FeedInv, FeedTypeOK, Ids
  <2> QED
    BY <2>1, <2>2 DEF FeedAnswer
<1> QED
  BY <1>3, <1>4, <1>5 DEF Log!Answer

\* Every step of the feed is a step of the log or a stutter.
LEMMA FeedStepIsLogStep == FeedInv /\ FeedStep => [Log!Next]_(Log!logVars)
<1> SUFFICES ASSUME FeedInv, FeedStep PROVE Log!Next \/ UNCHANGED <<FeedEvents, FeedAnswer>>
  BY DEF Log!logVars
<1> USE DEF FeedInv, FeedTypeOK
<1>0. FeedInv'
  BY FeedStepKeeps
<1>1. ASSUME NEW c \in Calls, EmitBroadcast(c) PROVE Log!Next
  BY <1>1, BroadcastIsAnswer DEF Log!Next
<1>2. ASSUME NEW i \in Ids, AppendEvent(i), pc[i] = "start",
             Go(i, "notify") \/ (i \notin Calls /\ Go(i, "done"))
      PROVE  Log!Next
  <2>1. UNCHANGED FeedAnswer
    <3>1. \A c \in Calls : FeedAnswer'[c] = FeedAnswer[c]
      BY <1>2 DEF AppendEvent, Go, FeedAnswer, Ids
    <3> QED
      BY <3>1 DEF FeedAnswer
  <2> QED
    BY <1>0, <1>2, <2>1, AppendIsAppend DEF Log!Next
<1>3. ASSUME UNCHANGED log,
             \A c \in Calls : /\ pc'[c] = "done" <=> pc[c] = "done"
                              /\ pc[c] = "done" => seq'[c] = seq[c]
      PROVE  UNCHANGED <<FeedEvents, FeedAnswer>>
  BY <1>3 DEF FeedEvents, FeedAnswer, Key
<1>4. ASSUME NEW c \in Calls, EmitCommit(c) PROVE Log!Next \/ UNCHANGED <<FeedEvents, FeedAnswer>>
  <2>1. CASE AppendEvent(c)
    BY <1>2, <1>4, <2>1 DEF EmitCommit, Ids
  <2>2. CASE (\E n \in Recorded(c) : seq' = [seq EXCEPT ![c] = n]) /\ UNCHANGED log
    BY <1>3, <1>4, <2>2 DEF EmitCommit, Go, Ids
  <2> QED
    BY <1>4, <2>1, <2>2 DEF EmitCommit
<1>5. ASSUME NEW c \in Calls, EmitNotify(c) \/ EmitDies(c)
      PROVE  UNCHANGED <<FeedEvents, FeedAnswer>>
  BY <1>3, <1>5 DEF EmitNotify, EmitDies, Go, Ids
<1>6. ASSUME NEW m \in Commands, CommandCommit(m) PROVE Log!Next
  BY <1>2, <1>6 DEF CommandCommit, Ids
<1>7. ASSUME NEW m \in Commands, CommandNotify(m) PROVE UNCHANGED <<FeedEvents, FeedAnswer>>
  BY <1>3, <1>7, FeedAssumption DEF CommandNotify, Go, Ids
<1>8. ASSUME NEW t \in Ticks, TickCommit(t) PROVE Log!Next
  BY <1>2, <1>8, FeedAssumption DEF TickCommit, Ids
<1>9. CASE ListenerReplay \/ ListenerSend \/ UNCHANGED feedVars
  BY <1>3, <1>9 DEF ListenerReplay, ListenerSend, feedVars
<1>10. CASE FeedRestart
  BY <1>3, <1>10 DEF FeedRestart, Ids
<1> QED
  BY <1>1, <1>4, <1>5, <1>6, <1>7, <1>8, <1>9, <1>10 DEF FeedStep, FeedQuietly

-----------------------------------------------------------------------------
(***************************************************************************)
(* The dispatcher: types, and the feed that it is driven by.               *)
(***************************************************************************)
QueueOK ==
    /\ queue \in Seq(Ids) /\ Len(queue) <= Capacity
    /\ lagged \in BOOLEAN
    /\ missed \subseteq Ids

WindowOK ==
    /\ seen \in Seq(Ids) /\ Len(seen) <= Window
    /\ handled \in Seq(Ids)

IInv == FeedInv /\ QueueOK /\ WindowOK

\* Whatever the dispatcher does, the feed makes a step of its own or none.
LEMMA DispatcherFeeds == [Next]_vars => FeedStep
<1> SUFFICES ASSUME [Next]_vars PROVE FeedStep
  OBVIOUS
<1>1. CASE FeedQuietly \/ (\E c \in Calls : EmitReaches(c)) \/ ListenerReaches \/ Restart
  BY <1>1 DEF FeedStep, EmitReaches, ListenerReaches, Restart
<1>2. CASE SkipDuplicate \/ Handle \/ Lagged \/ UNCHANGED vars
  <2>1. UNCHANGED feedVars
    BY <1>2 DEF SkipDuplicate, Handle, Lagged, vars
  <2> QED
    BY <2>1 DEF FeedStep
<1> QED
  BY <1>1, <1>2 DEF Next

\* The invariant holds of an empty log and channel.
LEMMA InitIInv == Init => IInv
<1> SUFFICES ASSUME Init PROVE IInv
  OBVIOUS
<1>1. FeedInv
  BY InitFeedInv DEF Init
<1>2. Capacity \in Nat /\ Window \in Nat /\ << >> \in Seq(Ids) /\ Len(<< >>) = 0
  BY FeedAssumption, DispatcherAssumption
<1>3. QueueOK
  <2>1. lagged \in BOOLEAN /\ missed \subseteq Ids /\ queue = << >>
    BY Zenon DEF Init
  <2> QED
    BY <1>2, <2>1 DEF QueueOK
<1>4. WindowOK
  BY <1>2 DEF Init, WindowOK
<1> QED
  BY <1>1, <1>3, <1>4 DEF IInv

\* An event that is broadcast is put into the channel, which keeps its bound.
LEMMA ReceiveKeeps ==
    ASSUME QueueOK, NEW id \in Ids, Receive(id) PROVE QueueOK'
<1> USE FeedAssumption, DispatcherAssumption DEF QueueOK
<1>1. CASE Len(queue) < Capacity /\ queue' = Append(queue, id) /\ UNCHANGED <<lagged, missed>>
  BY <1>1, AppendProperties
<1>2. CASE /\ Len(queue) = Capacity
           /\ queue' = Append(Tail(queue), id)
           /\ lagged' = TRUE
           /\ missed' = missed \cup {Head(queue)}
  <2>1. queue # << >>
    BY <1>2
  <2>2. Head(queue) \in Ids /\ Tail(queue) \in Seq(Ids) /\ Len(Tail(queue)) = Len(queue) - 1
    BY <2>1, HeadTailProperties
  <2> QED
    BY <1>2, <2>2, AppendProperties
<1> QED
  BY <1>1, <1>2 DEF Receive

\* Remembering one more id keeps the window's bound.
LEMMA RememberType ==
    ASSUME seen \in Seq(Ids), Len(seen) <= Window, NEW id \in Ids
    PROVE  Remember(id) \in Seq(Ids) /\ Len(Remember(id)) <= Window
<1> USE FeedAssumption, DispatcherAssumption
<1>1. CASE Len(seen) = Window
  <2>1. Tail(seen) \in Seq(Ids) /\ Len(Tail(seen)) = Len(seen) - 1
    BY <1>1, HeadTailProperties
  <2> QED
    BY <1>1, <2>1, AppendProperties DEF Remember
<1>2. CASE Len(seen) # Window
  BY <1>2, AppendProperties DEF Remember
<1> QED
  BY <1>1, <1>2

\* Every step keeps the types.
LEMMA NextIInv == IInv /\ [Next]_vars => IInv'
<1> SUFFICES ASSUME IInv, [Next]_vars PROVE QueueOK' /\ WindowOK'
  BY DispatcherFeeds, FeedStepKeeps DEF IInv
<1> USE DEF IInv
<1>1. CASE FeedQuietly /\ UNCHANGED dispatcherVars
  BY <1>1 DEF dispatcherVars, QueueOK, WindowOK
<1>2. ASSUME NEW c \in Calls, EmitReaches(c) PROVE QueueOK' /\ WindowOK'
  BY <1>2, ReceiveKeeps DEF EmitReaches, WindowOK, Ids
<1>3. CASE ListenerReaches
  <2>1. relay # << >> /\ relay \in Seq(1..Len(log)) /\ log \in Seq(Ids)
    BY <1>3 DEF ListenerReaches, ListenerSend, FeedInv, FeedTypeOK
  <2>2. Head(relay) \in 1..Len(log)
    BY <2>1, HeadTailProperties
  <2>3. log[Head(relay)] \in Ids
    BY <2>1, <2>2
  <2> QED
    BY <1>3, <2>3, ReceiveKeeps DEF ListenerReaches, WindowOK
<1>4. CASE SkipDuplicate \/ Handle
  <2>1. queue # << >> /\ queue' = Tail(queue) /\ UNCHANGED <<lagged, missed>>
    BY <1>4 DEF SkipDuplicate, Handle
  <2>2. Head(queue) \in Ids /\ Tail(queue) \in Seq(Ids) /\ Len(Tail(queue)) = Len(queue) - 1
    BY <2>1, HeadTailProperties DEF QueueOK
  <2>3. QueueOK'
    BY <2>1, <2>2, FeedAssumption, DispatcherAssumption DEF QueueOK
  <2>4. WindowOK'
    <3>1. CASE UNCHANGED <<seen, handled>>
      BY <3>1 DEF WindowOK
    <3>2. CASE Handle
      <4>1. Remember(Head(queue)) \in Seq(Ids) /\ Len(Remember(Head(queue))) <= Window
        BY <2>2, RememberType DEF WindowOK
      <4> QED
        BY <2>2, <3>2, <4>1 DEF Handle, WindowOK
    <3> QED
      BY <1>4, <3>1, <3>2 DEF SkipDuplicate
  <2> QED
    BY <2>3, <2>4
<1>5. CASE Lagged \/ UNCHANGED vars
  BY <1>5 DEF Lagged, vars, dispatcherVars, QueueOK, WindowOK
<1>6. CASE Restart
  <2>1. Capacity \in Nat /\ Window \in Nat /\ << >> \in Seq(Ids) /\ Len(<< >>) = 0
    BY FeedAssumption, DispatcherAssumption
  <2>2. QueueOK'
    <3>1. lagged' \in BOOLEAN /\ missed' \subseteq Ids /\ queue' = << >>
      BY <1>6, Zenon DEF Restart
    <3> QED
      BY <2>1, <3>1 DEF QueueOK
  <2>3. WindowOK'
    BY <1>6, <2>1 DEF Restart, WindowOK
  <2> QED
    BY <2>2, <2>3
<1> QED
  BY <1>1, <1>2, <1>3, <1>4, <1>5, <1>6 DEF Next

\* IInv holds in every reachable state of the dispatcher.
THEOREM Invariance == Spec => []IInv
BY InitIInv, NextIInv, PTL DEF Spec

\* Every reachable state is type correct; channel and window keep their bounds.
THEOREM TypeCorrect == Spec => []TypeOK
<1>1. IInv => TypeOK
  BY DEF IInv, FeedInv, QueueOK, WindowOK, TypeOK
<1> QED
  BY <1>1, Invariance, PTL

\* What feeds the dispatcher behaves as the append-only log that the trait
\* EventStore promises.
THEOREM DispatcherIsFedByLog == Spec => Log!Spec
<1>1. Init => Log!Init
  BY InitIsEmptyLog DEF Init
<1>2. IInv /\ [Next]_vars => [Log!Next]_(Log!logVars)
  BY DispatcherFeeds, FeedStepIsLogStep DEF IInv
<1> QED
  BY <1>1, <1>2, Invariance, PTL DEF Spec, Log!Spec

-----------------------------------------------------------------------------
(***************************************************************************)
(* The dispatcher handles an event again only past its window.             *)
(***************************************************************************)
\* The window holds the last ids that were handled, all of them until it is full.
WindowInv ==
    /\ Len(seen) <= Len(handled)
    /\ Len(seen) < Window => Len(seen) = Len(handled)
    /\ \A i \in 1..Len(seen) : seen[i] = handled[Len(handled) - Len(seen) + i]

\* Two handlings of one id are more than Window places apart.
FarApart == \A a, b \in DOMAIN handled : a < b /\ handled[a] = handled[b] => b - a > Window

\* Remember drops the oldest id of a full window and adds the new one at its end.
LEMMA RememberShifts ==
    ASSUME WindowOK, WindowInv, NEW id \in Ids,
           seen' = Remember(id), handled' = Append(handled, id)
    PROVE  WindowInv'
<1> USE FeedAssumption, DispatcherAssumption DEF WindowOK
<1>1. /\ Len(handled) \in Nat /\ Len(seen) \in Nat /\ Window \in Nat \ {0}
      /\ Len(handled') = Len(handled) + 1
      /\ \A i \in 1..Len(handled) : handled'[i] = handled[i]
      /\ handled'[Len(handled) + 1] = id
  BY AppendProperties
<1>2. CASE Len(seen) = Window
  <2> DEFINE t == Tail(seen)
  <2>1. /\ t \in Seq(Ids) /\ Len(t) = Len(seen) - 1
        /\ \A i \in 1..Len(t) : t[i] = seen[i + 1]
    BY <1>1, <1>2, HeadTailProperties
  <2>2. seen' = Append(t, id)
    BY <1>2 DEF Remember
  <2> HIDE DEF t
  <2>3. /\ Len(seen') = Len(seen)
        /\ \A i \in 1..(Len(seen) - 1) : seen'[i] = t[i]
        /\ seen'[Len(seen)] = id
    BY <1>1, <1>2, <2>1, <2>2, AppendProperties
  <2>4. ASSUME NEW i \in 1..Len(seen')
        PROVE  seen'[i] = handled'[Len(handled') - Len(seen') + i]
    <3>1. CASE i = Len(seen)
      BY <1>1, <2>3, <3>1
    <3>2. CASE i # Len(seen)
      <4>1. i \in 1..(Len(seen) - 1) /\ i + 1 \in 1..Len(seen)
        BY <1>1, <2>3, <2>4, <3>2
      <4>2. seen'[i] = seen[i + 1]
        BY <2>1, <2>3, <4>1
      <4>3. seen[i + 1] = handled[Len(handled) - Len(seen) + (i + 1)]
        BY <4>1 DEF WindowInv
      <4>4. Len(handled) - Len(seen) + (i + 1) \in 1..Len(handled)
        BY <1>1, <4>1 DEF WindowInv
      <4>5. Len(handled') - Len(seen') + i = Len(handled) - Len(seen) + (i + 1)
        BY <1>1, <2>3, <4>1
      <4> QED
        BY <1>1, <4>2, <4>3, <4>4, <4>5
    <3> QED
      BY <3>1, <3>2
  <2>5. Len(seen') <= Len(handled') /\ ~(Len(seen') < Window)
    BY <1>1, <1>2, <2>3 DEF WindowInv
  <2> QED
    BY <2>4, <2>5 DEF WindowInv
<1>3. CASE Len(seen) # Window
  <2>1. Len(seen) = Len(handled) /\ seen' = Append(seen, id)
    BY <1>1, <1>3 DEF WindowInv, Remember
  <2>2. /\ Len(seen') = Len(seen) + 1
        /\ \A i \in 1..Len(seen) : seen'[i] = seen[i]
        /\ seen'[Len(seen) + 1] = id
    BY <2>1, AppendProperties
  <2>3. \A i \in 1..Len(seen) : seen[i] = handled[i]
    BY <1>1, <2>1 DEF WindowInv
  <2> QED
    BY <1>1, <2>1, <2>2, <2>3 DEF WindowInv
<1> QED
  BY <1>2, <1>3

\* An id outside the window was not handled in the last Window places.
LEMMA NewIsFar ==
    ASSUME WindowOK, WindowInv, FarApart, NEW id \in Ids, id \notin Elements(seen),
           handled' = Append(handled, id)
    PROVE  FarApart'
<1> USE FeedAssumption, DispatcherAssumption DEF WindowOK
<1> DEFINE n == Len(handled)
<1>1. /\ n \in Nat /\ Len(seen) \in Nat /\ Window \in Nat \ {0}
      /\ DOMAIN handled = 1..n /\ DOMAIN handled' = 1..(n + 1)
      /\ \A i \in 1..n : handled'[i] = handled[i]
      /\ handled'[n + 1] = id
  BY AppendProperties
<1>2. \A i \in 1..Len(seen) : seen[i] # id
  BY DEF Elements
<1> HIDE DEF n
<1>3. ASSUME NEW a \in 1..n, handled[a] = id PROVE (n + 1) - a > Window
  <2> SUFFICES ASSUME a + Window >= n + 1 PROVE FALSE
    BY <1>1
  <2> DEFINE i == a - n + Len(seen)
  <2>1. i \in 1..Len(seen)
    BY <1>1 DEF WindowInv, n
  <2>2. seen[i] = handled[n - Len(seen) + i]
    BY <2>1 DEF WindowInv, n
  <2>3. n - Len(seen) + i = a
    BY <1>1
  <2> QED
    BY <1>2, <1>3, <2>1, <2>2, <2>3
<1> SUFFICES ASSUME NEW a \in 1..(n + 1), NEW b \in 1..(n + 1), a < b, handled'[a] = handled'[b]
             PROVE  b - a > Window
  BY <1>1 DEF FarApart
<1>4. a \in 1..n
  BY <1>1
<1>5. CASE b = n + 1
  BY <1>1, <1>3, <1>4, <1>5
<1>6. CASE b # n + 1
  <2>1. b \in 1..n /\ handled[a] = handled[b]
    BY <1>1, <1>4, <1>6
  <2> QED
    BY <1>1, <1>4, <2>1 DEF FarApart
<1> QED
  BY <1>5, <1>6

\* Every step of the dispatcher keeps WindowInv and FarApart.
LEMMA NextApart ==
    IInv /\ WindowInv /\ FarApart /\ [Next]_vars => WindowInv' /\ FarApart'
<1> SUFFICES ASSUME IInv, WindowInv, FarApart, [Next]_vars PROVE WindowInv' /\ FarApart'
  OBVIOUS
<1>1. CASE UNCHANGED <<seen, handled>>
  BY <1>1 DEF WindowInv, FarApart
<1>2. CASE Handle
  <2> DEFINE id == Head(queue)
  <2>1. id \in Ids /\ id \notin Elements(seen)
    BY <1>2, HeadTailProperties DEF Handle, IInv, QueueOK
  <2>2. seen' = Remember(id) /\ handled' = Append(handled, id)
    BY <1>2 DEF Handle
  <2> HIDE DEF id
  <2>3. WindowInv'
    BY <2>1, <2>2, RememberShifts DEF IInv
  <2>4. FarApart'
    BY <2>1, <2>2, NewIsFar DEF IInv
  <2> QED
    BY <2>3, <2>4
<1>3. CASE Restart
  <2>1. seen' = << >> /\ handled' = << >>
    BY <1>3 DEF Restart
  <2> QED
    BY <2>1 DEF WindowInv, FarApart
<1> QED
  BY <1>1, <1>2, <1>3 DEF Next, vars, dispatcherVars, EmitReaches, ListenerReaches, SkipDuplicate,
                          Lagged

\* Between two handlings of one id lie Window others: the last Window places
\* before the second are all different, and all after the first.
LEMMA FarIsApart == WindowOK /\ FarApart => RepeatsAreApart
<1> SUFFICES ASSUME WindowOK, FarApart, NEW a \in DOMAIN handled, NEW b \in DOMAIN handled,
                    a < b, handled[a] = handled[b]
             PROVE  Cardinality({handled[x] : x \in (a + 1)..(b - 1)}) >= Window
  BY DEF RepeatsAreApart
<1> DEFINE I == (a + 1)..(b - 1)
           S == (b - Window)..(b - 1)
           T == {handled[x] : x \in I}
           g == [x \in I |-> handled[x]]
           f == [x \in S |-> handled[x]]
<1>1. /\ Window \in Nat \ {0} /\ a \in Nat \ {0} /\ b \in Nat \ {0} /\ b - a > Window
      /\ DOMAIN handled = 1..Len(handled) /\ Len(handled) \in Nat /\ b <= Len(handled)
  BY FeedAssumption, DispatcherAssumption DEF WindowOK, FarApart
<1>2. S \subseteq I /\ S \subseteq DOMAIN handled
  BY <1>1
<1>3. IsFiniteSet(T)
  <2>1. g \in Surjection(I, T)
    BY DEF Surjection
  <2>2. IsFiniteSet(I)
    BY <1>1, FS_Interval
  <2> HIDE DEF g, I, T
  <2> QED
    BY <2>1, <2>2, FS_Surjection
<1>4. IsFiniteSet(S) /\ Cardinality(S) = Window
  <2>1. b - Window \in Int /\ b - 1 \in Int /\ ~(b - Window > b - 1)
        /\ (b - 1) - (b - Window) + 1 = Window
    BY <1>1
  <2> QED
    BY <2>1, FS_Interval
<1>5. f \in [S -> T]
  BY <1>2
<1>6. \A j, k \in S : f[j] = f[k] => j = k
  <2> SUFFICES ASSUME NEW j \in S, NEW k \in S, f[j] = f[k], j < k PROVE FALSE
    BY <1>1
  <2>1. handled[j] = handled[k] /\ j \in DOMAIN handled /\ k \in DOMAIN handled
    BY <1>2
  <2>2. k - j > Window
    BY <2>1 DEF FarApart
  <2> QED
    BY <1>1, <2>2
<1>7. Cardinality(T) \in Nat
  BY <1>3, FS_CardinalityType
<1>8. ~(Cardinality(T) < Cardinality(S))
  <2> HIDE DEF f, S, T
  <2> QED
    BY <1>3, <1>4, <1>5, <1>6, FS_PigeonHole
<1>9. Cardinality(T) >= Window
  BY <1>1, <1>4, <1>7, <1>8
<1> QED
  BY <1>9

\* For every size of the window, and although new events push older ones out of it, an event
\* is handled again only when Window other events were handled in between.
THEOREM RepeatsPastWindow == Spec => []RepeatsAreApart
<1>1. Init => WindowInv /\ FarApart
  BY DEF Init, WindowInv, FarApart
<1>2. IInv /\ WindowInv /\ FarApart => RepeatsAreApart
  BY FarIsApart DEF IInv
<1> QED
  BY <1>1, <1>2, NextApart, Invariance, PTL DEF Spec

-----------------------------------------------------------------------------
(***************************************************************************)
(* The dispatcher loses nothing.                                           *)
(***************************************************************************)
\* The event of a command waits for the listener, or for its broadcast.
WithListener(i) == i \in Commands /\ seq[i] \in Elements(notes) \cup Elements(relay)

\* In a process that did not restart, an event whose emit() returned, or whose
\* command notified, was handled, was overwritten in a full channel, or is
\* still on its way: what HandledUnlessMissed says will happen has not become
\* impossible.
NothingVanishes ==
    restarts = 0 => \A i \in Calls \cup Commands : pc[i] = "done" =>
        \/ i \in Elements(handled)
        \/ i \in missed
        \/ i \in Elements(queue)
        \/ WithListener(i)

\* What the window remembers was handled.
SeenHandled == Elements(seen) \subseteq Elements(handled)

\* A sequence has its head and what is in its tail.
LEMMA ElementsHeadTail ==
    ASSUME NEW S, NEW s \in Seq(S), s # << >>
    PROVE  Elements(s) = {Head(s)} \cup Elements(Tail(s))
<1>1. /\ Len(s) \in Nat \ {0} /\ DOMAIN s = 1..Len(s) /\ Head(s) = s[1]
      /\ Tail(s) \in Seq(S) /\ Len(Tail(s)) = Len(s) - 1
      /\ \A i \in 1..Len(Tail(s)) : Tail(s)[i] = s[i + 1]
  BY HeadTailProperties
<1>2. DOMAIN Tail(s) = 1..(Len(s) - 1)
  BY <1>1
<1>3. ASSUME NEW i \in 1..Len(s) PROVE s[i] \in {Head(s)} \cup Elements(Tail(s))
  <2>1. CASE i = 1
    BY <1>1, <2>1
  <2>2. CASE i # 1
    <3>1. i - 1 \in DOMAIN Tail(s) /\ Tail(s)[i - 1] = s[i]
      BY <1>1, <1>2, <2>2
    <3> QED
      BY <3>1 DEF Elements
  <2> QED
    BY <2>1, <2>2
<1>4. ASSUME NEW i \in DOMAIN Tail(s) PROVE Tail(s)[i] \in Elements(s)
  <2>1. i + 1 \in DOMAIN s /\ Tail(s)[i] = s[i + 1]
    BY <1>1, <1>2
  <2> QED
    BY <2>1 DEF Elements
<1>5. Head(s) \in Elements(s)
  BY <1>1 DEF Elements
<1> QED
  BY <1>1, <1>3, <1>4, <1>5 DEF Elements

\* An append adds one element.
LEMMA ElementsAppend ==
    ASSUME NEW S, NEW s \in Seq(S), NEW x \in S
    PROVE  Elements(Append(s, x)) = Elements(s) \cup {x}
<1>1. /\ Len(s) \in Nat /\ DOMAIN s = 1..Len(s) /\ DOMAIN Append(s, x) = 1..(Len(s) + 1)
      /\ \A i \in 1..Len(s) : Append(s, x)[i] = s[i]
      /\ Append(s, x)[Len(s) + 1] = x
  BY AppendProperties
<1> QED
  BY <1>1 DEF Elements

\* A notification that is sent waits with those that were sent before.
LEMMA NotesAppend ==
    ASSUME FeedInv, NEW n \in 1..Len(log)
    PROVE  Elements(Append(notes, n)) = Elements(notes) \cup {n}
<1> DEFINE S == 1..Len(log)
<1>1. notes \in Seq(S) /\ n \in S
  BY DEF FeedInv, FeedTypeOK
<1> HIDE DEF S
<1> QED
  BY ONLY <1>1, ElementsAppend

\* An event that enters the channel is in it; what leaves it is missed.
LEMMA ReceiveLosesNothing ==
    ASSUME QueueOK, NEW id \in Ids, Receive(id)
    PROVE  Elements(queue) \cup missed \cup {id} \subseteq Elements(queue') \cup missed'
<1> USE FeedAssumption, DispatcherAssumption DEF QueueOK
<1>1. CASE Len(queue) < Capacity /\ queue' = Append(queue, id) /\ UNCHANGED <<lagged, missed>>
  BY <1>1, ElementsAppend
<1>2. CASE /\ Len(queue) = Capacity
           /\ queue' = Append(Tail(queue), id)
           /\ lagged' = TRUE
           /\ missed' = missed \cup {Head(queue)}
  <2>1. queue # << >>
    BY <1>2
  <2>2. Tail(queue) \in Seq(Ids) /\ Elements(queue) = {Head(queue)} \cup Elements(Tail(queue))
    BY <2>1, HeadTailProperties, ElementsHeadTail
  <2>3. Elements(queue') = Elements(Tail(queue)) \cup {id}
    <3> DEFINE t == Tail(queue)
    <3> HIDE DEF t
    <3>1. Elements(Append(t, id)) = Elements(t) \cup {id}
      <4>1. t \in Seq(Ids)
        BY <2>2 DEF t
      <4> QED
        BY <4>1, ElementsAppend
    <3> QED
      BY <1>2, <3>1, Zenon DEF t
  <2> QED
    BY <1>2, <2>2, <2>3
<1> QED
  BY <1>1, <1>2 DEF Receive

\* Until its broadcast the listener keeps what it was notified of.
LEMMA QuietListens ==
    ASSUME FeedInv, FeedQuietly, NEW i \in Calls \cup Commands, pc'[i] = "done"
    PROVE  WithListener(i)' \/ (pc[i] = "done" /\ ~WithListener(i))
<1> USE DEF FeedInv, FeedTypeOK
<1>1. ASSUME UNCHANGED <<notes, relay>>, NEW j \in Ids, pc[j] = "start" \/ UNCHANGED seq,
             \A k \in Ids \ {j} : seq'[k] = seq[k],
             NEW place \in {"notify", "broadcast", "dead", "unheard"},
             pc' = [pc EXCEPT ![j] = place]
      PROVE  WithListener(i)' \/ (pc[i] = "done" /\ ~WithListener(i))
  BY <1>1 DEF WithListener, Ids
<1>2. ASSUME NEW j \in Ids, pc' = [pc EXCEPT ![j] = "broadcast"], j \in Calls,
             notes' \in {notes, Append(notes, seq[j])}, UNCHANGED <<seq, relay>>,
             pc[j] = "notify"
      PROVE  WithListener(i)' \/ (pc[i] = "done" /\ ~WithListener(i))
  <2>1. seq[j] \in 1..Len(log)
    BY <1>2 DEF NumberedInv
  <2>2. Elements(notes) \subseteq Elements(notes')
    <3>1. Elements(Append(notes, seq[j])) = Elements(notes) \cup {seq[j]}
      BY <2>1, NotesAppend
    <3> QED
      BY <1>2, <3>1, Zenon
  <2> QED
    BY <1>2, <2>2 DEF WithListener, Ids
<1>3. ASSUME NEW c \in Calls, EmitCommit(c)
      PROVE  WithListener(i)' \/ (pc[i] = "done" /\ ~WithListener(i))
  <2>1. \A k \in Ids \ {c} : seq'[k] = seq[k]
    BY <1>3 DEF EmitCommit, AppendEvent, Ids
  <2> QED
    BY <1>1, <1>3, <2>1 DEF EmitCommit, Go, Ids
<1>4. ASSUME NEW c \in Calls, EmitNotify(c)
      PROVE  WithListener(i)' \/ (pc[i] = "done" /\ ~WithListener(i))
  BY <1>2, <1>4 DEF EmitNotify, Go, Ids
<1>5. ASSUME NEW c \in Calls, EmitDies(c)
      PROVE  WithListener(i)' \/ (pc[i] = "done" /\ ~WithListener(i))
  BY <1>1, <1>5 DEF EmitDies, Go, Ids
<1>6. ASSUME NEW m \in Commands, CommandCommit(m)
      PROVE  WithListener(i)' \/ (pc[i] = "done" /\ ~WithListener(i))
  <2>1. \A k \in Ids \ {m} : seq'[k] = seq[k]
    BY <1>6 DEF CommandCommit, AppendEvent, Ids
  <2> QED
    BY <1>1, <1>6, <2>1 DEF CommandCommit, Go, Ids
<1>7. ASSUME NEW m \in Commands, CommandNotify(m)
      PROVE  WithListener(i)' \/ (pc[i] = "done" /\ ~WithListener(i))
  <2>1. m \in Ids /\ pc[m] = "notify" /\ seq[m] \in 1..Len(log) /\ UNCHANGED <<seq, relay>>
    BY <1>7 DEF CommandNotify, NumberedInv, Ids
  <2>2. CASE notes' = Append(notes, seq[m]) /\ Go(m, "done")
    <3>1. Elements(notes') = Elements(notes) \cup {seq[m]}
      <4>1. Elements(Append(notes, seq[m])) = Elements(notes) \cup {seq[m]}
        BY <2>1, NotesAppend
      <4> QED
        BY <2>2, <4>1
    <3> QED
      BY <2>1, <2>2, <3>1 DEF WithListener, Go, Ids
  <2>3. CASE UNCHANGED notes /\ Go(m, "unheard")
    BY <1>1, <2>1, <2>3 DEF Go
  <2> QED
    BY <1>7, <2>2, <2>3 DEF CommandNotify
<1>8. ASSUME NEW t \in Ticks, TickCommit(t)
      PROVE  WithListener(i)' \/ (pc[i] = "done" /\ ~WithListener(i))
  <2>1. i # t /\ i \in Ids
    BY FeedAssumption DEF Ids
  <2> QED
    BY <1>8, <2>1 DEF TickCommit, AppendEvent, Go, WithListener, Ids
<1>9. CASE ListenerReplay
  <2>1. /\ notes # << >> /\ relay = << >> /\ notes' = Tail(notes)
        /\ relay' = Replay(Head(notes) - 1) /\ UNCHANGED <<log, pc, seq>>
    BY <1>9 DEF ListenerReplay
  <2>2. /\ Head(notes) \in 1..Len(log)
        /\ Elements(notes) = {Head(notes)} \cup Elements(notes')
    BY <2>1, HeadTailProperties, ElementsHeadTail
  <2>3. Head(notes) \in Elements(relay')
    <3>1. Head(notes) - 1 \in 0..Len(log) /\ Len(log) \in Nat
      BY <2>2
    <3>2. /\ relay' \in Seq(1..Len(log))
          /\ Len(relay') = Len(log) - (Head(notes) - 1)
          /\ \A k \in 1..Len(relay') : relay'[k] = Head(notes) - 1 + k
      BY <2>1, <3>1, ReplayType
    <3>3. 1 \in 1..Len(relay') /\ DOMAIN relay' = 1..Len(relay')
      <4> DEFINE h == Head(notes)
      <4>1. h \in 1..Len(log) /\ Len(log) \in Nat /\ Len(relay') = Len(log) - (h - 1)
        BY <2>2, <3>1, <3>2
      <4> HIDE DEF h
      <4>2. 1 \in 1..Len(relay')
        BY <4>1
      <4>3. DOMAIN relay' = 1..Len(relay')
        BY <3>2
      <4> QED
        BY <4>2, <4>3
    <3>4. relay'[1] = Head(notes)
      BY <2>2, <3>2, <3>3
    <3> QED
      BY <3>3, <3>4 DEF Elements
  <2>4. Elements(relay) = {}
    BY <2>1 DEF Elements
  <2> QED
    BY <2>1, <2>2, <2>3, <2>4 DEF WithListener
<1> QED
  BY <1>3, <1>4, <1>5, <1>6, <1>7, <1>8, <1>9 DEF FeedQuietly

\* Every step keeps SeenHandled and NothingVanishes.
LEMMA NextVanish ==
    IInv /\ SeenHandled /\ NothingVanishes /\ [Next]_vars => SeenHandled' /\ NothingVanishes'
<1> SUFFICES ASSUME IInv, SeenHandled, NothingVanishes, [Next]_vars
             PROVE  SeenHandled' /\ NothingVanishes'
  OBVIOUS
<1> USE DEF IInv
<1>1. CASE FeedQuietly /\ UNCHANGED dispatcherVars
  <2>1. UNCHANGED restarts
    BY <1>1 DEF FeedQuietly, EmitCommit, EmitNotify, EmitDies, CommandCommit, CommandNotify,
                TickCommit, ListenerReplay
  <2> QED
    BY <1>1, <2>1, QuietListens DEF dispatcherVars, SeenHandled, NothingVanishes, Elements
<1>2. ASSUME NEW c \in Calls, EmitReaches(c) PROVE SeenHandled' /\ NothingVanishes'
  <2>1. /\ pc' = [pc EXCEPT ![c] = "done"] /\ Receive(c) /\ c \in Ids
        /\ UNCHANGED <<seq, notes, relay, restarts, seen, handled>>
    BY <1>2 DEF EmitReaches, EmitBroadcast, Go, Ids
  <2>2. Elements(queue) \cup missed \cup {c} \subseteq Elements(queue') \cup missed'
    BY <2>1, ReceiveLosesNothing
  <2>3. \A i \in Calls \cup Commands : pc'[i] = "done" => i = c \/ pc[i] = "done"
    BY <2>1 DEF FeedInv, FeedTypeOK, Ids
  <2>4. \A i \in Calls \cup Commands : WithListener(i)' <=> WithListener(i)
    BY <2>1 DEF WithListener, Elements
  <2> QED
    BY <2>1, <2>2, <2>3, <2>4 DEF SeenHandled, NothingVanishes, Elements
<1>3. CASE ListenerReaches
  <2> DEFINE n == Head(relay)
  <2>1. /\ relay # << >> /\ relay' = Tail(relay) /\ Receive(log[n])
        /\ UNCHANGED <<log, pc, seq, notes, restarts, seen, handled>>
    BY <1>3 DEF ListenerReaches, ListenerSend
  <2>2. /\ n \in 1..Len(log) /\ log[n] \in Ids
        /\ Elements(relay) = {n} \cup Elements(relay')
    <3>1. relay \in Seq(1..Len(log)) /\ log \in Seq(Ids)
      BY DEF FeedInv, FeedTypeOK
    <3>2. n \in 1..Len(log) /\ Elements(relay) = {n} \cup Elements(Tail(relay))
      BY <2>1, <3>1, HeadTailProperties, ElementsHeadTail
    <3> QED
      BY <2>1, <3>1, <3>2
  <2> HIDE DEF n
  <2>3. Elements(queue) \cup missed \cup {log[n]} \subseteq Elements(queue') \cup missed'
    BY <2>1, <2>2, ReceiveLosesNothing
  <2>4. ASSUME NEW i \in Calls \cup Commands, pc[i] = "done", WithListener(i), ~WithListener(i)'
        PROVE  i \in Elements(queue') \cup missed'
    <3>1. i \in Commands /\ seq[i] = n
      BY <2>1, <2>2, <2>4 DEF WithListener, Elements
    <3>2. log[n] = i
      BY <2>4, <3>1 DEF FeedInv, NumberedInv
    <3> QED
      BY <2>3, <3>2
  <2> QED
    BY <2>1, <2>3, <2>4 DEF SeenHandled, NothingVanishes, Elements
<1>4. CASE SkipDuplicate \/ Handle
  <2> DEFINE id == Head(queue)
  <2>1. /\ queue # << >> /\ queue' = Tail(queue) /\ queue \in Seq(Ids)
        /\ UNCHANGED <<pc, seq, notes, relay, restarts, missed>>
    BY <1>4 DEF SkipDuplicate, Handle, feedVars, QueueOK
  <2>2. id \in Ids /\ Elements(queue) = {id} \cup Elements(queue')
    BY <2>1, HeadTailProperties, ElementsHeadTail
  <2>3. /\ Elements(handled) \subseteq Elements(handled')
        /\ id \in Elements(handled')
        /\ SeenHandled'
    <3>1. CASE SkipDuplicate
      BY <3>1 DEF SkipDuplicate, SeenHandled, Elements
    <3>2. CASE Handle
      <4>1. seen' = Remember(id) /\ handled' = Append(handled, id)
        BY <3>2 DEF Handle
      <4>2. handled \in Seq(Ids) /\ seen \in Seq(Ids)
        BY DEF WindowOK
      <4>3. Elements(seen') \subseteq Elements(seen) \cup {id} /\ Elements(seen) \subseteq Ids
        <5>1. CASE Len(seen) = Window
          <6> DEFINE t == Tail(seen)
          <6>1. seen # << >>
            BY <5>1, FeedAssumption, DispatcherAssumption
          <6>2. t \in Seq(Ids) /\ Elements(seen) = {Head(seen)} \cup Elements(t)
            BY <4>2, <6>1, HeadTailProperties, ElementsHeadTail
          <6>3. seen' = Append(t, id)
            BY <4>1, <5>1 DEF Remember
          <6> HIDE DEF t, id
          <6>4. Elements(Append(t, id)) = Elements(t) \cup {id}
            BY <2>2, <6>2, ElementsAppend
          <6>5. Elements(seen') \subseteq Elements(seen) \cup {id}
            BY <6>2, <6>3, <6>4, Zenon
          <6>6. Elements(seen) \subseteq Ids
            BY <4>2 DEF Elements
          <6> QED
            BY <6>5, <6>6
        <5>2. CASE Len(seen) # Window
          <6>1. seen' = Append(seen, id)
            BY <4>1, <5>2 DEF Remember
          <6> HIDE DEF id
          <6>2. Elements(Append(seen, id)) = Elements(seen) \cup {id}
            BY <2>2, <4>2, ElementsAppend
          <6> QED
            BY <4>2, <6>1, <6>2 DEF Elements
        <5> QED
          BY <5>1, <5>2
      <4> HIDE DEF id
      <4>4. Elements(handled') = Elements(handled) \cup {id}
        BY <2>2, <4>1, <4>2, ElementsAppend
      <4> QED
        BY <4>3, <4>4 DEF SeenHandled
    <3> QED
      BY <1>4, <3>1, <3>2
  <2> HIDE DEF id
  <2>4. \A i \in Calls \cup Commands : i \in Ids /\ (WithListener(i)' <=> WithListener(i))
    BY <2>1 DEF WithListener, Elements, Ids
  <2> QED
    BY <2>1, <2>2, <2>3, <2>4 DEF NothingVanishes
<1>5. CASE Lagged \/ UNCHANGED vars
  <2>1. UNCHANGED <<pc, seq, notes, relay, restarts, queue, seen, handled, missed>>
    BY <1>5 DEF Lagged, vars, feedVars, dispatcherVars
  <2> QED
    BY <2>1 DEF SeenHandled, NothingVanishes, WithListener, Elements
<1>6. CASE Restart
  <2>1. restarts' # 0 /\ seen' = << >>
    BY <1>6 DEF Restart, FeedRestart, FeedInv, FeedTypeOK
  <2> QED
    BY <2>1 DEF SeenHandled, NothingVanishes, Elements
<1> QED
  BY <1>1, <1>2, <1>3, <1>4, <1>5, <1>6 DEF Next

\* No event that was broadcast or notified disappears between the appender and
\* handle_event, but in an overrun that the dispatcher is told of.
THEOREM NothingIsLost == Spec => []NothingVanishes
<1>1. Init => SeenHandled /\ NothingVanishes
  BY DEF Init, FeedInit, SeenHandled, NothingVanishes, Elements, Ids
<1> QED
  BY <1>1, NextVanish, Invariance, PTL DEF Spec

-----------------------------------------------------------------------------
(***************************************************************************)
(* The client's session: it hangs at the same feed, and gets the wanted    *)
(* events exactly once.                                                    *)
(***************************************************************************)
\* The steps of the session are steps of the feed or leave it alone.
LEMMA SessionFeeds == [SessionNext]_clientVars => FeedStep
<1> SUFFICES ASSUME [SessionNext]_clientVars PROVE FeedStep
  OBVIOUS
<1>1. CASE FeedQuietly \/ Broadcasts \/ SessionRestart
  BY <1>1 DEF FeedStep, Broadcasts, SessionRestart
<1>2. CASE \/ Subscribe \/ BackfillReplay \/ SendNext
           \/ BackfillComplete \/ Wake \/ SessionLagged \/ Hangup
           \/ UNCHANGED clientVars
  <2>1. UNCHANGED feedVars
    BY <1>2 DEF Subscribe, BackfillReplay, SendNext,
                BackfillComplete, Wake, SessionLagged, Hangup,
                clientVars
  <2> QED
    BY <2>1 DEF FeedStep
<1> QED
  BY <1>1, <1>2 DEF SessionNext

SessionOK ==
    /\ mode \in {"off", "subscribed", "backfill", "live"}
    /\ wakeups \in 0..Capacity /\ overrun \in BOOLEAN /\ hangups \in 0..MaxHangups

StreamOK ==
    /\ cursor \in 0..Len(log)
    /\ out \in Seq(1..Len(log)) /\ got \in Seq(1..Len(log))

\* What is still to be sent continues the cursor without a hole; a session
\* that has not replayed yet has nothing to send.
OutInv ==
    /\ \A i \in 1..Len(out) : out[i] = cursor + i
    /\ mode \in {"off", "subscribed"} => out = << >>

Increasing(s) == \A i, j \in DOMAIN s : i < j => s[i] < s[j]

\* ClientStreamExact, in the words of this module.
ExactInv ==
    /\ Increasing(got)
    /\ LET upTo == IF mode = "off" THEN LastGot ELSE cursor
       IN  Elements(got) = {n \in 1..upTo : log[n] \in Wanted}

\* An awake session reaches every event that was announced: it is in what the
\* session sends, or a broadcast of it is yet to come.
Reached ==
    mode \in {"backfill", "live"} /\ wakeups = 0 /\ ~overrun =>
        \A i \in Calls \cup Commands :
            pc[i] = "done" => seq[i] <= cursor + Len(out) \/ WithListener(i)

ClientInv == FeedInv /\ SessionOK /\ StreamOK /\ OutInv /\ ExactInv /\ Reached

\* The numbers that a client has are those of wanted events, the last of them
\* the highest.
LEMMA LastIsHighest ==
    ASSUME got \in Seq(1..Len(log)), Increasing(got), Len(log) \in Nat
    PROVE  /\ LastGot \in 0..Len(log)
           /\ \A n \in Elements(got) : n \in 1..LastGot
           /\ got # << >> => LastGot \in Elements(got)
<1>1. CASE got = << >>
  BY <1>1 DEF LastGot, Elements
<1>2. CASE got # << >>
  <2>1. Len(got) \in DOMAIN got /\ DOMAIN got = 1..Len(got) /\ LastGot = got[Len(got)]
    BY <1>2 DEF LastGot
  <2>2. \A i \in DOMAIN got : got[i] \in 1..Len(log) /\ got[i] <= got[Len(got)]
    BY <2>1 DEF Increasing
  <2> QED
    BY <2>1, <2>2 DEF Elements
<1> QED
  BY <1>1, <1>2

\* A client that goes off has everything up to the last number it got.
LEMMA OffIsExact ==
    ASSUME ClientInv PROVE Elements(got) = {n \in 1..LastGot : log[n] \in Wanted}
<1>1. Increasing(got) /\ Len(log) \in Nat
  BY DEF ClientInv, FeedInv, FeedTypeOK, ExactInv
<1>2. CASE mode = "off"
  BY <1>2 DEF ClientInv, ExactInv
<1>3. CASE mode # "off"
  <2>1. Elements(got) = {n \in 1..cursor : log[n] \in Wanted}
    BY <1>3 DEF ClientInv, ExactInv
  <2>2. /\ \A n \in Elements(got) : n \in 1..LastGot
        /\ LastGot \in 0..Len(log)
        /\ got # << >> => LastGot \in Elements(got)
    BY <1>1, LastIsHighest DEF ClientInv, StreamOK
  <2>3. LastGot <= cursor
    <3>1. CASE got = << >>
      BY <3>1 DEF LastGot, ClientInv, StreamOK
    <3>2. CASE got # << >>
      BY <2>1, <2>2, <3>2
    <3> QED
      BY <3>1, <3>2
  <2> QED
    BY <2>1, <2>2, <2>3 DEF ClientInv, StreamOK
<1> QED
  BY <1>2, <1>3

\* A log that grows disturbs nothing that the session has read of it.
LEMMA GrowthKeepsStream ==
    ASSUME ClientInv, LogGrows, UNCHANGED <<mode, out, cursor, got>>
    PROVE  StreamOK' /\ OutInv' /\ ExactInv'
<1>1. Len(log) \in Nat /\ Len(log') \in Nat /\ 1..Len(log) \subseteq 1..Len(log')
  BY DEF ClientInv, FeedInv, FeedTypeOK, LogGrows
<1>2. StreamOK'
  <2>1. out' \in Seq(1..Len(log')) /\ got' \in Seq(1..Len(log'))
    BY <1>1, SeqMonotonic DEF ClientInv, StreamOK
  <2> QED
    BY <1>1, <2>1 DEF ClientInv, StreamOK, LogGrows
<1>3. OutInv'
  BY DEF ClientInv, OutInv
<1>4. ExactInv'
  <2>1. LastGot' = LastGot /\ LastGot \in 0..Len(log)
    BY <1>1, LastIsHighest DEF LastGot, ClientInv, StreamOK, ExactInv
  <2>2. \A m \in 0..Len(log) :
           {n \in 1..m : log'[n] \in Wanted} = {n \in 1..m : log[n] \in Wanted}
    BY <1>1 DEF LogGrows
  <2> QED
    BY <2>1, <2>2 DEF ClientInv, StreamOK, ExactInv, Elements, Increasing
<1> QED
  BY <1>2, <1>3, <1>4

\* A session that ends sends no more, and the client has what it got.
LEMMA EndKeeps ==
    ASSUME ClientInv, UNCHANGED <<log, cursor, got>>, mode' = "off", out' = << >>
    PROVE  StreamOK' /\ OutInv' /\ ExactInv'
<1>1. ExactInv'
  BY OffIsExact DEF ExactInv, ClientInv, LastGot, Elements, Increasing
<1> QED
  BY <1>1 DEF ClientInv, OutInv, StreamOK

\* One event of a replay: the number after the cursor, kept if it is wanted.
LEMMA SendKeeps ==
    ASSUME ClientInv, SendNext
    PROVE  /\ StreamOK' /\ OutInv' /\ ExactInv'
           /\ cursor' + Len(out') = cursor + Len(out)
<1> DEFINE n == Head(out)
<1>0. log \in Seq(Ids) /\ Len(log) \in Nat
  BY DEF ClientInv, FeedInv, FeedTypeOK
<1>1. /\ out # << >> /\ n = cursor + 1 /\ n \in 1..Len(log) /\ Len(out) \in Nat
      /\ Tail(out) \in Seq(1..Len(log)) /\ Len(Tail(out)) = Len(out) - 1
      /\ \A i \in 1..Len(Tail(out)) : Tail(out)[i] = out[i + 1]
  BY HeadTailProperties DEF SendNext, ClientInv, StreamOK, OutInv
<1>2. /\ UNCHANGED <<log, mode>> /\ out' = Tail(out) /\ cursor' = n
      /\ got' = IF log[n] \in Wanted THEN Append(got, n) ELSE got
  BY DEF SendNext, feedVars
<1>3. mode # "off" /\ mode # "subscribed"
  BY <1>1 DEF ClientInv, OutInv
<1>4. Increasing(got) /\ Elements(got) = {m \in 1..cursor : log[m] \in Wanted}
  BY <1>3 DEF ClientInv, ExactInv
<1> HIDE DEF n
<1>5. StreamOK'
  <2>1. got \in Seq(1..Len(log))
    BY DEF ClientInv, StreamOK
  <2>2. got' \in Seq(1..Len(log))
    BY <1>1, <1>2, <2>1, AppendProperties
  <2>3. cursor' \in 0..Len(log)
    BY <1>0, <1>1, <1>2
  <2> QED
    BY <1>1, <1>2, <2>2, <2>3 DEF StreamOK
<1>6. OutInv'
  <2>1. \A i \in 1..Len(out') : out'[i] = cursor' + i
    BY <1>0, <1>1, <1>2 DEF ClientInv, OutInv, StreamOK
  <2> QED
    BY <1>2, <1>3, <2>1 DEF OutInv
<1>7. {m \in 1..n : log[m] \in Wanted}
        = {m \in 1..cursor : log[m] \in Wanted} \cup {m \in {n} : log[m] \in Wanted}
  BY <1>0, <1>1 DEF ClientInv, StreamOK
<1>8. Increasing(got') /\ Elements(got') = {m \in 1..n : log[m] \in Wanted}
  <2>1. CASE log[n] \in Wanted
    <3>1. /\ DOMAIN got = 1..Len(got) /\ Len(got) \in Nat
          /\ DOMAIN got' = 1..(Len(got) + 1)
          /\ \A i \in 1..Len(got) : got'[i] = got[i]
          /\ got'[Len(got) + 1] = n
      BY <1>1, <1>2, <2>1, AppendProperties DEF ClientInv, StreamOK
    <3>2. \A i \in DOMAIN got : got[i] \in 1..cursor
      BY <1>4 DEF Elements
    <3>3. Increasing(got')
      <4>1. cursor \in Nat
        BY <1>0 DEF ClientInv, StreamOK
      <4> SUFFICES ASSUME NEW i \in DOMAIN got', NEW j \in DOMAIN got', i < j
                   PROVE  got'[i] < got'[j]
        BY DEF Increasing
      <4>2. CASE j = Len(got) + 1
        <5>1. i \in DOMAIN got /\ got'[i] \in 1..cursor
          BY <3>1, <3>2, <4>2
        <5> QED
          BY <1>1, <3>1, <4>1, <4>2, <5>1
      <4>3. CASE j # Len(got) + 1
        BY <1>4, <3>1, <4>3 DEF Increasing
      <4> QED
        BY <4>2, <4>3
    <3>4. Elements(got') = Elements(got) \cup {n}
      BY <3>1 DEF Elements
    <3> QED
      BY <1>4, <1>7, <2>1, <3>3, <3>4
  <2>2. CASE log[n] \notin Wanted
    BY <1>2, <1>4, <1>7, <2>2
  <2> QED
    BY <2>1, <2>2
<1>9. ExactInv'
  BY <1>2, <1>3, <1>8 DEF ExactInv, Increasing
<1>10. cursor' + Len(out') = cursor + Len(out)
  BY <1>0, <1>1, <1>2 DEF ClientInv, StreamOK
<1> QED
  BY <1>5, <1>6, <1>9, <1>10

\* The invariant holds before the client connects.
LEMMA InitClientInv == SessionInit => ClientInv
<1> SUFFICES ASSUME SessionInit PROVE ClientInv
  OBVIOUS
<1>1. FeedInv /\ log = << >> /\ out = << >> /\ got = << >> /\ cursor = 0 /\ mode = "off"
  BY InitFeedInv DEF SessionInit, FeedInit
<1>2. SessionOK
  <2>1. overrun \in BOOLEAN
    BY Zenon DEF SessionInit
  <2> QED
    BY <2>1, FeedAssumption, SessionAssumption DEF SessionOK, SessionInit
<1>3. StreamOK /\ OutInv
  BY <1>1 DEF StreamOK, OutInv
<1>4. ExactInv
  BY <1>1 DEF ExactInv, LastGot, Elements, Increasing
<1>5. Reached
  BY <1>1 DEF Reached
<1> QED
  BY <1>1, <1>2, <1>3, <1>4, <1>5 DEF ClientInv

\* A step that broadcasts nothing leaves the number of who is done.
LEMMA QuietKeepsNumbers ==
    ASSUME FeedInv, FeedQuietly, NEW i \in Ids, pc[i] = "done"
    PROVE  seq'[i] = seq[i]
BY DEF FeedQuietly, EmitCommit, EmitNotify, EmitDies, CommandCommit, CommandNotify, TickCommit,
       ListenerReplay, AppendEvent, FeedInv, FeedTypeOK

\* A session that has just replayed has everything that is in the log.
LEMMA ReplayReaches ==
    ASSUME ClientInv, out' = Replay(cursor), UNCHANGED <<feedVars, cursor, got>>,
           mode' \in {"backfill", "live"}, mode # "off"
    PROVE  StreamOK' /\ OutInv' /\ ExactInv' /\ Reached'
<1>1. UNCHANGED <<log, pc, seq, notes, relay>>
  BY DEF feedVars
<1>2. /\ log \in Seq(Ids) /\ cursor \in 0..Len(log) /\ seq \in [Ids -> 0..Len(log)]
      /\ Len(log) \in Nat
  BY DEF ClientInv, FeedInv, FeedTypeOK, StreamOK
<1>3. /\ out' \in Seq(1..Len(log)) /\ Len(out') = Len(log) - cursor
      /\ \A i \in 1..Len(out') : out'[i] = cursor + i
  BY <1>2, ReplayType
<1>4. StreamOK' /\ OutInv'
  BY <1>1, <1>3 DEF ClientInv, StreamOK, OutInv
<1>5. ExactInv'
  BY <1>1 DEF ClientInv, ExactInv, Elements, Increasing
<1>6. Reached'
  <2>1. \A i \in Calls \cup Commands : seq'[i] <= cursor' + Len(out')
    BY <1>1, <1>2, <1>3 DEF Ids
  <2> QED
    BY <2>1 DEF Reached
<1> QED
  BY <1>4, <1>5, <1>6

\* Every step keeps the invariant.
LEMMA NextClientInv == ClientInv /\ [SessionNext]_clientVars => ClientInv'
<1> SUFFICES ASSUME ClientInv, [SessionNext]_clientVars PROVE ClientInv'
  OBVIOUS
<1>0. FeedStep /\ FeedInv' /\ LogGrows
  BY SessionFeeds, FeedStepKeeps DEF ClientInv
<1> SUFFICES SessionOK' /\ StreamOK' /\ OutInv' /\ ExactInv' /\ Reached'
  BY <1>0 DEF ClientInv
<1>c. Capacity \in Nat \ {0} /\ MaxHangups \in Nat
  BY FeedAssumption, SessionAssumption
<1>1. CASE FeedQuietly /\ UNCHANGED sessionVars
  <2>1. FeedQuietly /\ UNCHANGED <<mode, wakeups, overrun, out, cursor, got, hangups>>
    BY <1>1 DEF sessionVars
  <2>2. StreamOK' /\ OutInv' /\ ExactInv'
    BY <1>0, <2>1, GrowthKeepsStream
  <2>3. Reached'
    <3> SUFFICES ASSUME mode \in {"backfill", "live"}, wakeups = 0, ~overrun,
                        NEW i \in Calls \cup Commands, pc'[i] = "done", ~WithListener(i)'
                 PROVE  seq'[i] <= cursor + Len(out)
      BY <2>1, Zenon DEF Reached
    <3>1. pc[i] = "done" /\ ~WithListener(i)
      BY <2>1, QuietListens DEF ClientInv
    <3>2. seq'[i] = seq[i]
      BY <2>1, <3>1, QuietKeepsNumbers DEF ClientInv, Ids
    <3> QED
      BY <3>1, <3>2 DEF ClientInv, Reached
  <2> QED
    BY <2>1, <2>2, <2>3 DEF ClientInv, SessionOK
<1>2. CASE Broadcasts
  <2>1. ReceiveWakeup /\ UNCHANGED <<mode, out, cursor, got, hangups>>
    BY <1>2 DEF Broadcasts
  <2>2. StreamOK' /\ OutInv' /\ ExactInv'
    BY <1>0, <2>1, GrowthKeepsStream
  <2>3. wakeups' \in 0..Capacity /\ overrun' \in BOOLEAN
    <3>1. CASE UNCHANGED <<wakeups, overrun>>
      BY <3>1 DEF ClientInv, SessionOK
    <3>2. CASE wakeups < Capacity /\ wakeups' = wakeups + 1 /\ UNCHANGED overrun
      BY <1>c, <3>2 DEF ClientInv, SessionOK
    <3>3. CASE overrun' = TRUE /\ UNCHANGED wakeups
      BY <3>3 DEF ClientInv, SessionOK
    <3> QED
      BY <2>1, <3>1, <3>2, <3>3 DEF ReceiveWakeup
  <2>4. mode \in {"backfill", "live"} => wakeups' # 0 \/ overrun'
    <3> SUFFICES ASSUME mode # "off" PROVE wakeups' # 0 \/ overrun'
      OBVIOUS
    <3>1. CASE wakeups < Capacity /\ wakeups' = wakeups + 1
      BY <1>c, <3>1 DEF ClientInv, SessionOK
    <3>2. CASE overrun' = TRUE
      BY <3>2
    <3> QED
      BY <2>1, <3>1, <3>2 DEF ReceiveWakeup
  <2>5. Reached'
    BY <2>1, <2>4 DEF Reached
  <2> QED
    BY <2>1, <2>2, <2>3, <2>5 DEF ClientInv, SessionOK
<1>3. CASE Subscribe
  <2>1. /\ cursor' = LastGot /\ mode = "off" /\ mode' = "subscribed" /\ wakeups' = 0
        /\ UNCHANGED <<log, overrun, out, got, hangups>>
    BY <1>3 DEF Subscribe, feedVars
  <2>2. LastGot \in 0..Len(log)
    BY LastIsHighest DEF ClientInv, StreamOK, ExactInv, FeedInv, FeedTypeOK
  <2>3. out = << >>
    BY <2>1 DEF ClientInv, OutInv
  <2>4. StreamOK' /\ OutInv'
    BY <2>1, <2>2, <2>3 DEF ClientInv, StreamOK, OutInv
  <2>5. ExactInv'
    BY <2>1, OffIsExact DEF ClientInv, ExactInv, Elements, Increasing
  <2>6. Reached'
    BY <2>1 DEF Reached
  <2>7. SessionOK'
    BY <1>c, <2>1 DEF ClientInv, SessionOK
  <2> QED
    BY <2>4, <2>5, <2>6, <2>7
<1>4. CASE BackfillReplay \/ Wake
  <2>1. /\ out' = Replay(cursor) /\ UNCHANGED <<feedVars, cursor, got, overrun, hangups>>
        /\ mode # "off" /\ mode' \in {"backfill", "live"}
    BY <1>4 DEF BackfillReplay, Wake
  <2>2. wakeups' \in 0..Capacity
    BY <1>c, <1>4 DEF BackfillReplay, Wake, ClientInv, SessionOK
  <2>3. SessionOK'
    BY <2>1, <2>2 DEF ClientInv, SessionOK
  <2> QED
    BY <2>1, <2>3, ReplayReaches
<1>5. CASE SendNext
  <2>1. UNCHANGED <<feedVars, mode, wakeups, overrun, hangups>>
    BY <1>5 DEF SendNext
  <2>2. StreamOK' /\ OutInv' /\ ExactInv' /\ cursor' + Len(out') = cursor + Len(out)
    BY <1>5, SendKeeps
  <2>3. UNCHANGED <<pc, seq, notes, relay>>
    BY <2>1 DEF feedVars
  <2>4. Reached'
    BY <2>1, <2>2, <2>3 DEF ClientInv, Reached, WithListener, Elements
  <2> QED
    BY <2>1, <2>2, <2>4 DEF ClientInv, SessionOK
<1>6. CASE BackfillComplete
  <2>1. /\ mode = "backfill" /\ mode' = "live"
        /\ UNCHANGED <<feedVars, wakeups, overrun, out, cursor, got, hangups>>
    BY <1>6 DEF BackfillComplete
  <2>2. UNCHANGED <<log, pc, seq, notes, relay>>
    BY <2>1 DEF feedVars
  <2> QED
    BY <2>1, <2>2 DEF ClientInv, SessionOK, StreamOK, OutInv, ExactInv, Reached, WithListener,
                      Elements, Increasing
<1>7. CASE SessionLagged \/ Hangup \/ SessionRestart
  <2>1. /\ UNCHANGED <<log, cursor, got>> /\ mode' = "off" /\ out' = << >>
        /\ wakeups' = 0 /\ overrun' = FALSE
    <3>1. CASE SessionLagged
      <4>1. mode = "live" /\ out = << >>
        BY <3>1 DEF SessionLagged
      <4> QED
        BY <3>1, <4>1 DEF SessionLagged, feedVars
    <3>2. CASE Hangup
      BY <3>2 DEF Hangup, Closed, feedVars
    <3>3. CASE SessionRestart
      BY <3>3 DEF SessionRestart, Closed, FeedRestart
    <3> QED
      BY <1>7, <3>1, <3>2, <3>3
  <2>2. hangups' \in 0..MaxHangups
    BY <1>c, <1>7 DEF SessionLagged, Hangup, SessionRestart, ClientInv, SessionOK
  <2>3. SessionOK'
    <3>1. overrun' \in BOOLEAN
      BY <2>1, Zenon
    <3> QED
      BY <1>c, <2>1, <2>2, <3>1 DEF SessionOK
  <2>4. Reached'
    BY <2>1 DEF Reached
  <2> QED
    BY <2>1, <2>3, <2>4, EndKeeps
<1>8. CASE UNCHANGED clientVars
  <2>1. UNCHANGED <<feedVars, mode, wakeups, overrun, out, cursor, got, hangups>>
    BY <1>8 DEF clientVars, sessionVars
  <2>2. UNCHANGED <<log, pc, seq, notes, relay>>
    BY <2>1 DEF feedVars
  <2> QED
    BY <2>1, <2>2 DEF ClientInv, SessionOK, StreamOK, OutInv, ExactInv, Reached, WithListener,
                      Elements, Increasing, LastGot
<1> QED
  BY <1>1, <1>2, <1>3, <1>4, <1>5, <1>6, <1>7, <1>8 DEF SessionNext

\* ClientInv holds in every reachable state of the session.
THEOREM SessionInvariance == SessionSpec => []ClientInv
BY InitClientInv, NextClientInv, PTL DEF SessionSpec

\* Every reachable state of the session is type correct; its end of the
\* channel keeps its bound.
THEOREM SessionTypeCorrect == SessionSpec => []SessionTypeOK
<1>1. ClientInv => SessionTypeOK
  BY DEF ClientInv, FeedInv, SessionOK, StreamOK, SessionTypeOK
<1> QED
  BY <1>1, SessionInvariance, PTL

\* A client has the wanted events up to its cursor once and in order, whatever
\* its filter, the channel's capacity, and the sessions it took.
THEOREM StreamIsExact == SessionSpec => []ClientStreamExact
<1>1. ClientInv => ClientStreamExact
  BY DEF ClientInv, ExactInv, Increasing, ClientStreamExact
<1> QED
  BY <1>1, SessionInvariance, PTL

\* What feeds the session behaves as the append-only log that the trait
\* EventStore promises.
THEOREM SessionIsFedByLog == SessionSpec => Log!Spec
<1>1. SessionInit => Log!Init
  BY InitIsEmptyLog DEF SessionInit
<1>2. ClientInv /\ [SessionNext]_clientVars => [Log!Next]_(Log!logVars)
  BY SessionFeeds, FeedStepIsLogStep DEF ClientInv
<1> QED
  BY <1>1, <1>2, SessionInvariance, PTL DEF SessionSpec, Log!Spec

\* A session that waits for a wake-up, with no notification and no replay of
\* the listener under way, has given its client every wanted event whose emit()
\* returned or whose command notified: none is stranded until the next event.
NeverSleeps ==
    mode = "live" /\ out = << >> /\ wakeups = 0 /\ ~overrun /\ notes = << >> /\ relay = << >> =>
        \A i \in Calls \cup Commands :
            pc[i] = "done" /\ log[seq[i]] \in Wanted => seq[i] \in Elements(got)

\* No session goes to sleep on an event that was published.
THEOREM SessionNeverSleeps == SessionSpec => []NeverSleeps
<1>1. ClientInv => NeverSleeps
  <2> SUFFICES ASSUME ClientInv, mode = "live", out = << >>, wakeups = 0, ~overrun,
                      notes = << >>, relay = << >>, NEW i \in Calls \cup Commands,
                      pc[i] = "done", log[seq[i]] \in Wanted
               PROVE  seq[i] \in Elements(got)
    BY Zenon DEF NeverSleeps
  <2>1. ~WithListener(i)
    BY DEF WithListener, Elements
  <2>2. seq[i] \in 1..Len(log) /\ cursor \in 0..Len(log) /\ Len(log) \in Nat /\ Len(out) = 0
    BY DEF ClientInv, FeedInv, FeedTypeOK, NumberedInv, StreamOK
  <2>3. seq[i] <= cursor + Len(out)
    BY <2>1 DEF ClientInv, Reached
  <2>4. seq[i] \in 1..cursor
    BY <2>2, <2>3
  <2> QED
    BY <2>4 DEF ClientInv, ExactInv
<1> QED
  BY <1>1, SessionInvariance, PTL
=============================================================================
