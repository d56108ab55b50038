----------------------------- MODULE EventStore -----------------------------
(***************************************************************************)
(* PgEventStore (infra/event_store.rs) for one instance: concurrent calls  *)
(* of emit(), each a SELECT MAX(seq) followed by an INSERT in a statement  *)
(* of its own, next to the transactions that append to orch_events on      *)
(* their own: the scheduler tick (app/scheduler.rs) and the CLI commands   *)
(* (openclaw-cli, orch.rs), which read MAX(seq) and insert inside one      *)
(* transaction.  Nothing serialises the calls but the two unique indexes   *)
(* of the table (migrations/002_orchestrator.sql).                         *)
(*                                                                         *)
(* A call or a transaction may stop at any step (Die, TxAbort): an error   *)
(* of the database, or the end of the process that runs it.                *)
(***************************************************************************)
EXTENDS Naturals, FiniteSets

CONSTANTS Calls,     \* calls of emit(); a call is also the event_id it makes
          Txs,       \* transactions that append events
          Keys,      \* idempotency keys
          NoKey,     \* idempotency_key = NULL
          KeyOf,     \* the key each call carries
          TxKeyOf,   \* the key of the events of each transaction
          MaxBatch   \* bound: events one transaction appends

ASSUME ConstantsAssumption ==
    /\ NoKey \notin Keys
    /\ KeyOf \in [Calls -> Keys \cup {NoKey}]
    /\ TxKeyOf \in [Txs -> Keys \cup {NoKey}]
    /\ MaxBatch \in Nat \ {0}

VARIABLES log,      \* the committed rows of orch_events
          pc,       \* where each call of emit() is
          seq,      \* the sequence number each call holds
          answer,   \* what each call returned, 0 before that
          txpc,     \* where each transaction is
          txseq,    \* the number each transaction read for its next event
          pending   \* the rows each open transaction inserted

vars == <<log, pc, seq, answer, txpc, txseq, pending>>

EventId == Calls \cup (Txs \X Nat)
Row     == [seq : Nat \ {0}, id : EventId, key : Keys \cup {NoKey}]

TypeOK ==
    /\ log \subseteq Row
    /\ pc \in [Calls -> {"read", "insert", "lookup", "publish", "done", "failed"}]
    /\ seq \in [Calls -> Nat]
    /\ answer \in [Calls -> Nat]
    /\ txpc \in [Txs -> {"read", "insert", "closed"}]
    /\ txseq \in [Txs -> Nat]
    /\ pending \in [Txs -> SUBSET Row]

Init ==
    /\ log = {}
    /\ pc = [c \in Calls |-> "read"]
    /\ seq = [c \in Calls |-> 0]
    /\ answer = [c \in Calls |-> 0]
    /\ txpc = [t \in Txs |-> "read"]
    /\ txseq = [t \in Txs |-> 0]
    /\ pending = [t \in Txs |-> {}]

\* Variant of NextSeq for the mutation checks: numbering from 0.
NextSeqFromZero(rows) ==
    IF rows = {} THEN 0
    ELSE (CHOOSE m \in {r.seq : r \in rows} : \A r \in rows : r.seq <= m) + 1

\* SELECT MAX(seq) + 1 over the rows the reader sees, 1 on an empty table.
NextSeq(rows) ==
    IF rows = {} THEN 1
    ELSE (CHOOSE m \in {r.seq : r \in rows} : \A r \in rows : r.seq <= m) + 1

HasSeq(rows, n) == \E r \in rows : r.seq = n
HasKey(rows, k) == k # NoKey /\ \E r \in rows : r.key = k

\* An INSERT waits for the open transactions, of those in txs, that hold a row
\* in its way.
Blocked(txs, n, k) ==
    \E t \in txs : HasSeq(pending[t], n) \/ HasKey(pending[t], k)

-----------------------------------------------------------------------------
\* Variant: numbers handed out by a counter, as a Postgres SEQUENCE would,
\* so that a call that fails leaves a hole.
EmitReadReserves(c) ==
    /\ pc[c] = "read"
    /\ seq' = [seq EXCEPT ![c] = 1 + Cardinality({d \in Calls : pc[d] # "read"})
                                   + Cardinality({r \in log : r.id \notin Calls})]
    /\ pc' = [pc EXCEPT ![c] = "insert"]
    /\ UNCHANGED <<log, answer, txpc, txseq, pending>>

\* emit(): next_seq reads the committed maximum, on a connection of its own.
EmitRead(c) ==
    /\ pc[c] = "read"
    /\ seq' = [seq EXCEPT ![c] = NextSeq(log)]
    /\ pc' = [pc EXCEPT ![c] = "insert"]
    /\ UNCHANGED <<log, answer, txpc, txseq, pending>>

\* Variant: no unique index on the idempotency key.
EmitInsertAlways(c) ==
    /\ pc[c] = "insert"
    /\ ~ \E t \in Txs : HasSeq(pending[t], seq[c])
    /\ \/ /\ HasSeq(log, seq[c])
          /\ pc' = [pc EXCEPT ![c] = "failed"]
          /\ UNCHANGED log
       \/ /\ ~HasSeq(log, seq[c])
          /\ log' = log \cup {[seq |-> seq[c], id |-> c, key |-> KeyOf[c]]}
          /\ pc' = [pc EXCEPT ![c] = "publish"]
    /\ UNCHANGED <<seq, answer, txpc, txseq, pending>>

\* Variant: ON CONFLICT DO UPDATE, the later call overwriting the event.
EmitInsertUpserts(c) ==
    /\ pc[c] = "insert"
    /\ HasKey(log, KeyOf[c]) \/ ~Blocked(Txs, seq[c], KeyOf[c])
    /\ \/ /\ HasKey(log, KeyOf[c])
          /\ log' = {IF r.key = KeyOf[c] THEN [r EXCEPT !.id = c] ELSE r : r \in log}
          /\ pc' = [pc EXCEPT ![c] = "lookup"]
       \/ /\ ~HasKey(log, KeyOf[c]) /\ HasSeq(log, seq[c])
          /\ pc' = [pc EXCEPT ![c] = "failed"]
          /\ UNCHANGED log
       \/ /\ ~HasKey(log, KeyOf[c]) /\ ~HasSeq(log, seq[c])
          /\ log' = log \cup {[seq |-> seq[c], id |-> c, key |-> KeyOf[c]]}
          /\ pc' = [pc EXCEPT ![c] = "publish"]
    /\ UNCHANGED <<seq, answer, txpc, txseq, pending>>

\* INSERT ... ON CONFLICT (instance_id, idempotency_key) DO NOTHING: a known
\* key inserts nothing, and waits for nobody; a taken sequence number is an
\* error; else a new row.
EmitInsert(c) ==
    /\ pc[c] = "insert"
    /\ HasKey(log, KeyOf[c]) \/ ~Blocked(Txs, seq[c], KeyOf[c])
    /\ \/ /\ HasKey(log, KeyOf[c])
          /\ pc' = [pc EXCEPT ![c] = "lookup"]
          /\ UNCHANGED log
       \/ /\ ~HasKey(log, KeyOf[c]) /\ HasSeq(log, seq[c])
          /\ pc' = [pc EXCEPT ![c] = "failed"]
          /\ UNCHANGED log
       \/ /\ ~HasKey(log, KeyOf[c]) /\ ~HasSeq(log, seq[c])
          /\ log' = log \cup {[seq |-> seq[c], id |-> c, key |-> KeyOf[c]]}
          /\ pc' = [pc EXCEPT ![c] = "publish"]
    /\ UNCHANGED <<seq, answer, txpc, txseq, pending>>

\* Variant: the number the call computed is returned after a conflict too.
EmitLookupSkipped(c) ==
    /\ pc[c] = "lookup"
    /\ pc' = [pc EXCEPT ![c] = "publish"]
    /\ UNCHANGED <<log, seq, answer, txpc, txseq, pending>>

\* After a conflict: SELECT seq ... WHERE idempotency_key = $2.
EmitLookup(c) ==
    /\ pc[c] = "lookup"
    /\ \E r \in log :
          /\ r.key = KeyOf[c]
          /\ seq' = [seq EXCEPT ![c] = r.seq]
    /\ pc' = [pc EXCEPT ![c] = "publish"]
    /\ UNCHANGED <<log, answer, txpc, txseq, pending>>

\* pg_notify and the broadcast, both best effort (see EventDelivery), and the
\* return of the number.
EmitReturn(c) ==
    /\ pc[c] = "publish"
    /\ answer' = [answer EXCEPT ![c] = seq[c]]
    /\ pc' = [pc EXCEPT ![c] = "done"]
    /\ UNCHANGED <<log, seq, txpc, txseq, pending>>

\* A database error, or the process ends: the call never returns a number.
Die(c) ==
    /\ pc[c] \in {"read", "insert", "lookup", "publish"}
    /\ pc' = [pc EXCEPT ![c] = "failed"]
    /\ UNCHANGED <<log, seq, answer, txpc, txseq, pending>>

-----------------------------------------------------------------------------
\* next_event_seq in a transaction: it sees the rows it inserted itself.
TxRead(t) ==
    /\ txpc[t] = "read"
    /\ Cardinality(pending[t]) < MaxBatch
    /\ txseq' = [txseq EXCEPT ![t] = NextSeq(log \cup pending[t])]
    /\ txpc' = [txpc EXCEPT ![t] = "insert"]
    /\ UNCHANGED <<log, pc, seq, answer, pending>>

\* The INSERT of a transaction.  A row in its way aborts it: the scheduler
\* names no conflict target; the DO UPDATE of the CLI is refused by the
\* append-only trigger.
TxInsert(t) ==
    /\ txpc[t] = "insert"
    /\ ~Blocked(Txs \ {t}, txseq[t], TxKeyOf[t])
    /\ LET seen == log \cup pending[t] IN
       IF HasSeq(seen, txseq[t]) \/ HasKey(seen, TxKeyOf[t])
       THEN /\ txpc' = [txpc EXCEPT ![t] = "closed"]
            /\ pending' = [pending EXCEPT ![t] = {}]
       ELSE /\ pending' = [pending EXCEPT ![t] = @ \cup
                  {[seq |-> txseq[t], key |-> TxKeyOf[t],
                    id |-> <<t, txseq[t]>>]}]
            /\ txpc' = [txpc EXCEPT ![t] = "read"]
    /\ UNCHANGED <<log, pc, seq, answer, txseq>>

\* COMMIT: all the rows of the transaction appear at once.
TxCommit(t) ==
    /\ txpc[t] = "read"
    /\ log' = log \cup pending[t]
    /\ pending' = [pending EXCEPT ![t] = {}]
    /\ txpc' = [txpc EXCEPT ![t] = "closed"]
    /\ UNCHANGED <<pc, seq, answer, txseq>>

\* ROLLBACK: an error in any statement, or the process ends.
TxAbort(t) ==
    /\ txpc[t] # "closed"
    /\ pending' = [pending EXCEPT ![t] = {}]
    /\ txpc' = [txpc EXCEPT ![t] = "closed"]
    /\ UNCHANGED <<log, pc, seq, answer, txseq>>

Next ==
    \/ \E c \in Calls : \/ EmitRead(c) \/ EmitInsert(c) \/ EmitLookup(c)
                        \/ EmitReturn(c) \/ Die(c)
    \/ \E t \in Txs : TxRead(t) \/ TxInsert(t) \/ TxCommit(t) \/ TxAbort(t)

Spec == Init /\ [][Next]_vars

-----------------------------------------------------------------------------
\* The committed sequence numbers are 1..n with no number missing and none
\* used twice, whatever calls lost their race, rolled back or died: what
\* replay(since_seq) and the cursors of its readers rely on.
Gapless ==
    /\ \A r \in log : r.seq > 1 => HasSeq(log, r.seq - 1)
    /\ \A r, s \in log : r.seq = s.seq => r = s

\* An idempotency key is recorded at most once (ux_events_instance_idem),
\* even when calls that carry it overlap.
KeyOnce == \A r, s \in log : r.key # NoKey /\ r.key = s.key => r = s

\* A number that emit() returned names a committed event which is the call's
\* own, or an earlier one with its key: an Ok is never about a lost event.
AnswerIsRecorded ==
    \A c \in Calls : answer[c] # 0 =>
        \E r \in log : /\ r.seq = answer[c]
                       /\ \/ r.id = c
                          \/ KeyOf[c] # NoKey /\ r.key = KeyOf[c]

\* While a transaction holds an uncommitted event, no other call or
\* transaction commits one: it has to have read the same number.  (A long
\* scheduler tick holds up every emit of the instance.)
OpenTxFreezesLog ==
    [][\A t \in Txs : pending[t] # {} /\ pending'[t] # {} => log' = log]_vars

-----------------------------------------------------------------------------
\* The log as EventLog sees it: a function from numbers to events.
RowAt(rows, n) == CHOOSE r \in rows : r.seq = n
EventsOf(rows) == [n \in {r.seq : r \in rows} |->
                     [id |-> RowAt(rows, n).id, key |-> RowAt(rows, n).key]]
events == EventsOf(log)

Log == INSTANCE EventLog WITH events <- events, answer <- answer

\* The event store implements the append-only log of EventLog.
ImplementsEventLog == Log!Spec
=============================================================================
