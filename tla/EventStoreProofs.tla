-------------------------- MODULE EventStoreProofs --------------------------
(***************************************************************************)
(* Proofs about EventStore for every set of calls, transactions and keys,  *)
(* and every batch size.  The inductive invariant IInv says that the       *)
(* committed numbers are exactly 1..n (Dense), that at most one            *)
(* transaction holds uncommitted rows and that these are numbered          *)
(* n+1..n+m, and that whoever is about to insert read a number not beyond  *)
(* the next free one.                                                      *)
(***************************************************************************)
EXTENDS EventStore, TLAPS

USE ConstantsAssumption

-----------------------------------------------------------------------------
\* The rows numbered m+1..n, each number used once.
Dense(rows, m, n) ==
    /\ \A r \in rows : r.seq \in (m + 1)..n
    /\ \A k \in (m + 1)..n : HasSeq(rows, k)
    /\ \A r, s \in rows : r.seq = s.seq => r = s

KeysOnce(rows) == \A r, s \in rows : r.key # NoKey /\ r.key = s.key => r = s

\* The call c holds the number of a committed event that records its request.
Recorded(c, n) ==
    \E r \in log : /\ r.seq = n
                   /\ \/ r.id = c
                      \/ KeyOf[c] # NoKey /\ r.key = KeyOf[c]

\* The numbers a transaction uses when the last committed number is n.
TxNumbered(rows, at, next, n) ==
    \E m \in Nat :
        /\ Dense(rows, n, n + m)
        /\ at = "insert" => \/ next = n + m + 1
                            \/ rows = {} /\ next \in 1..n

\* The numbers in play when the last committed number is n.
Numbered(n) ==
    /\ Dense(log, 0, n)
    /\ \A c \in Calls : pc[c] = "insert" => seq[c] \in 1..(n + 1)
    /\ \A t \in Txs : TxNumbered(pending[t], txpc[t], txseq[t], n)
    /\ \A t, u \in Txs : pending[t] # {} /\ pending[u] # {} => t = u
    /\ \A t \in Txs : txpc[t] = "closed" => pending[t] = {}

Keyed ==
    /\ KeysOnce(log)
    /\ \A t \in Txs : KeysOnce(log \cup pending[t])

Answered ==
    /\ \A c \in Calls : pc[c] = "lookup" => HasKey(log, KeyOf[c])
    /\ \A c \in Calls : pc[c] \in {"publish", "done"} => Recorded(c, seq[c])
    /\ \A c \in Calls : answer[c] # 0 => pc[c] = "done" /\ Recorded(c, answer[c])

IInv == /\ TypeOK
        /\ \E n \in Nat : Numbered(n)
        /\ Keyed
        /\ Answered

-----------------------------------------------------------------------------
\* On rows numbered 1..n, SELECT MAX(seq) + 1 is n + 1.
LEMMA NextSeqIsNext ==
    ASSUME NEW rows, rows \subseteq Row, NEW n \in Nat, Dense(rows, 0, n)
    PROVE  NextSeq(rows) = n + 1
<1>1. CASE n = 0
  <2>1. rows = {}
    BY <1>1 DEF Dense, Row
  <2> QED BY <1>1, <2>1 DEF NextSeq
<1>2. CASE n > 0
  <2>1. PICK r \in rows : r.seq = n
    BY <1>2 DEF Dense, HasSeq
  <2>2. rows # {}
    BY <2>1
  <2>3. \A s \in rows : s.seq \in Nat /\ s.seq <= n
    BY DEF Dense
  <2> DEFINE top == CHOOSE m \in {s.seq : s \in rows} : \A s \in rows : s.seq <= m
  <2>4. n \in {s.seq : s \in rows} /\ \A s \in rows : s.seq <= n
    BY <2>1, <2>3
  <2>5. top \in {s.seq : s \in rows} /\ \A s \in rows : s.seq <= top
    BY <2>4
  <2>6. top = n
    <3> HIDE DEF top
    <3> QED BY <2>1, <2>3, <2>5
  <2> QED BY <2>2, <2>6 DEF NextSeq
<1> QED BY <1>1, <1>2

\* Two blocks of rows numbered 1..n and n+1..n+m make one numbered 1..n+m.
LEMMA DenseUnion ==
    ASSUME NEW A, NEW B, NEW n \in Nat, NEW m \in Nat,
           Dense(A, 0, n), Dense(B, n, n + m)
    PROVE  Dense(A \cup B, 0, n + m)
<1>1. \A r \in A \cup B : r.seq \in 1..(n + m)
  BY DEF Dense
<1>2. \A k \in 1..(n + m) : HasSeq(A \cup B, k)
  BY DEF Dense, HasSeq
<1>3. \A r, s \in A \cup B : r.seq = s.seq => r = s
  <2>1. \A r \in A, s \in B : r.seq # s.seq
    <3>1. \A r \in A : r.seq \in 1..n
      BY DEF Dense
    <3>2. \A s \in B : s.seq \in (n + 1)..(n + m)
      BY DEF Dense
    <3> QED BY <3>1, <3>2
  <2>2. /\ \A r, s \in A : r.seq = s.seq => r = s
        /\ \A r, s \in B : r.seq = s.seq => r = s
    BY DEF Dense
  <2>3. ASSUME NEW r \in A \cup B, NEW s \in A \cup B, r.seq = s.seq PROVE r = s
    <3>1. CASE r \in A /\ s \in A
      BY <2>2, <2>3, <3>1
    <3>2. CASE r \in B /\ s \in B
      BY <2>2, <2>3, <3>2
    <3>3. ~(r \in A /\ s \in B) /\ ~(r \in B /\ s \in A)
      BY <2>1, <2>3
    <3> QED BY <3>1, <3>2, <3>3
  <2> QED BY <2>3
<1> QED BY <1>1, <1>2, <1>3 DEF Dense

\* One row with the next number extends a block by one.
LEMMA DenseAdd ==
    ASSUME NEW A, NEW n \in Nat, NEW m \in Nat, n <= m, Dense(A, n, m),
           NEW row, row.seq = m + 1
    PROVE  Dense(A \cup {row}, n, m + 1)
<1>1. \A r \in A \cup {row} : r.seq \in (n + 1)..(m + 1)
  BY DEF Dense
<1>2. \A k \in (n + 1)..(m + 1) : HasSeq(A \cup {row}, k)
  BY DEF Dense, HasSeq
<1>3. \A r, s \in A \cup {row} : r.seq = s.seq => r = s
  BY DEF Dense
<1> QED BY <1>1, <1>2, <1>3 DEF Dense

\* No rows at all are dense above any number.
LEMMA DenseEmpty == ASSUME NEW n \in Nat PROVE Dense({}, n, n)
  BY DEF Dense, HasSeq

-----------------------------------------------------------------------------
\* The number that a writer reads is at least 1.
LEMMA NextSeqIsPositive ==
    ASSUME NEW rows, rows \subseteq Row, NEW n \in Nat, Dense(rows, 0, n)
    PROVE  NextSeq(rows) \in Nat \ {0}
  BY NextSeqIsNext

\* IInv holds of the empty log.
LEMMA InitIInv == Init => IInv
<1> SUFFICES ASSUME Init PROVE IInv
  OBVIOUS
<1>1. TypeOK
  BY DEF Init, TypeOK
<1>2. Numbered(0)
  <2>1. Dense(log, 0, 0) /\ \A t \in Txs : Dense(pending[t], 0, 0 + 0)
    BY DenseEmpty DEF Init
  <2> QED BY <2>1 DEF Init, Numbered, TxNumbered
<1>3. Keyed /\ Answered
  BY DEF Init, Keyed, Answered, KeysOnce
<1> QED BY <1>1, <1>2, <1>3 DEF IInv

\* The calls: what they read, insert, look up and return.
LEMMA ReadKeepsIInv ==
    ASSUME IInv, NEW c \in Calls, EmitRead(c) PROVE IInv'
<1>1. PICK n \in Nat : Numbered(n)
  BY DEF IInv
<1>2. NextSeq(log) = n + 1
  BY <1>1, NextSeqIsNext DEF IInv, TypeOK, Numbered
<1>3. TypeOK'
  BY <1>2 DEF IInv, TypeOK, EmitRead
<1>4. Numbered(n)'
  BY <1>1, <1>2 DEF IInv, TypeOK, EmitRead, Numbered
<1>5. Keyed' /\ Answered'
  BY DEF IInv, TypeOK, EmitRead, Keyed, Answered, Recorded, KeysOnce, HasKey
<1> QED BY <1>3, <1>4, <1>5 DEF IInv

\* A number no row has and that is not beyond the next one is the next one.
LEMMA FreshIsNext ==
    ASSUME NEW rows, NEW n \in Nat, Dense(rows, 0, n),
           NEW k \in 1..(n + 1), ~HasSeq(rows, k)
    PROVE  k = n + 1
  BY DEF Dense

\* A call that adds its event adds number n + 1, and no transaction holds
\* uncommitted events: one of them would have that number.
LEMMA InsertIsNext ==
    ASSUME IInv, NEW c \in Calls, EmitInsert(c), log' # log,
           NEW n \in Nat, Numbered(n)
    PROVE  seq[c] = n + 1 /\ \A t \in Txs : pending[t] = {}
<1>1. seq[c] = n + 1
  <2>1. /\ pc[c] = "insert" /\ seq[c] \in 1..(n + 1)
        /\ Dense(log, 0, n) /\ ~HasSeq(log, seq[c])
    BY DEF EmitInsert, Numbered
  <2> QED BY <2>1, FreshIsNext
<1>2. ASSUME NEW t \in Txs, pending[t] # {} PROVE FALSE
  <2>1. PICK m \in Nat : Dense(pending[t], n, n + m)
    BY DEF Numbered, TxNumbered
  <2>2. HasSeq(pending[t], n + 1)
    BY <1>2, <2>1 DEF Dense
  <2> QED BY <1>1, <2>2 DEF EmitInsert, Blocked
<1> QED BY <1>1, <1>2

\* The INSERT of emit keeps IInv: it takes the next number or changes nothing.
LEMMA InsertKeepsIInv ==
    ASSUME IInv, NEW c \in Calls, EmitInsert(c) PROVE IInv'
<1>1. PICK n \in Nat : Numbered(n)
  BY DEF IInv
<1>2. CASE /\ log' = log
           /\ \/ pc' = [pc EXCEPT ![c] = "lookup"] /\ HasKey(log, KeyOf[c])
              \/ pc' = [pc EXCEPT ![c] = "failed"]
  <2>1. TypeOK'
    BY <1>2 DEF IInv, TypeOK, EmitInsert
  <2>2. Numbered(n)'
    BY <1>1, <1>2 DEF IInv, TypeOK, EmitInsert, Numbered
  <2>3. Keyed' /\ Answered'
    BY <1>2 DEF IInv, TypeOK, EmitInsert, Keyed, Answered, Recorded, KeysOnce, HasKey
  <2> QED BY <2>1, <2>2, <2>3 DEF IInv
<1>3. CASE /\ ~HasKey(log, KeyOf[c]) /\ ~HasSeq(log, seq[c])
           /\ log' = log \cup {[seq |-> seq[c], id |-> c, key |-> KeyOf[c]]}
           /\ pc' = [pc EXCEPT ![c] = "publish"]
  <2> DEFINE row == [seq |-> seq[c], id |-> c, key |-> KeyOf[c]]
  <2>0. log' # log
    <3>1. row \in log' /\ row.seq = seq[c]
      BY <1>3
    <3>2. row \notin log
      BY <1>3, <3>1 DEF HasSeq
    <3> QED BY <3>1, <3>2
  <2>1. seq[c] = n + 1
    BY <1>1, <2>0, InsertIsNext
  <2>2. \A t \in Txs : pending[t] = {}
    BY <1>1, <2>0, InsertIsNext
  <2>3. TypeOK'
    <3>1. row \in Row
      BY <2>1 DEF Row, EventId, IInv, TypeOK
    <3> QED BY <1>3, <3>1 DEF IInv, TypeOK, EmitInsert
  <2>4. Dense(log', 0, n + 1)
    <3>1. Dense(log, 0, n) /\ row.seq = n + 1 /\ 0 <= n
      BY <1>1, <2>1 DEF Numbered
    <3>2. Dense(log \cup {row}, 0, n + 1)
      <4> HIDE DEF row
      <4> QED BY <3>1, DenseAdd
    <3> QED BY <1>3, <3>2
  <2>5. Numbered(n + 1)'
    <3>1. \A d \in Calls : pc'[d] = "insert" => seq'[d] \in 1..(n + 2)
      BY <1>1, <1>3 DEF IInv, TypeOK, EmitInsert, Numbered
    <3>2. ASSUME NEW t \in Txs
          PROVE  TxNumbered(pending'[t], txpc'[t], txseq'[t], n + 1)
      <4>1. pending'[t] = {} /\ txpc'[t] = txpc[t] /\ txseq'[t] = txseq[t]
        BY <2>2 DEF EmitInsert
      <4>2. PICK m \in Nat :
                  /\ Dense(pending[t], n, n + m)
                  /\ txpc[t] = "insert" => \/ txseq[t] = n + m + 1
                                           \/ pending[t] = {} /\ txseq[t] \in 1..n
        BY <1>1 DEF Numbered, TxNumbered
      <4>3. m = 0
        BY <2>2, <4>2 DEF Dense, HasSeq
      <4>4. Dense(pending'[t], n + 1, n + 1 + 0)
        BY <2>2, <4>1, DenseEmpty
      <4> QED BY <2>2, <4>1, <4>2, <4>3, <4>4 DEF TxNumbered
    <3>3. \A t, u \in Txs : pending'[t] # {} /\ pending'[u] # {} => t = u
      BY <2>2 DEF EmitInsert
    <3>4. \A t \in Txs : txpc'[t] = "closed" => pending'[t] = {}
      BY <2>2 DEF EmitInsert
    <3> QED BY <2>4, <3>1, <3>2, <3>3, <3>4 DEF Numbered
  <2>6. Keyed'
    <3>1. KeysOnce(log')
      BY <1>3 DEF IInv, Keyed, KeysOnce, HasKey
    <3> QED BY <2>2, <3>1 DEF Keyed, EmitInsert
  <2>7. Answered'
    <3>1. row \in log' /\ log \subseteq log'
      BY <1>3
    <3>2. \A d \in Calls, k \in Nat : Recorded(d, k) => Recorded(d, k)'
      BY <3>1 DEF Recorded
    <3>3. Recorded(c, seq[c])'
      BY <3>1 DEF Recorded, EmitInsert
    <3>4. \A k : HasKey(log, k) => HasKey(log', k)
      BY <3>1 DEF HasKey
    <3> QED BY <1>3, <3>2, <3>3, <3>4 DEF IInv, TypeOK, Answered, EmitInsert
  <2> QED BY <2>3, <2>5, <2>6, <2>7 DEF IInv
<1> QED BY <1>2, <1>3 DEF EmitInsert

\* The other statements of emit keep IInv.
LEMMA OtherEmitStepsKeepIInv ==
    ASSUME IInv, NEW c \in Calls, EmitLookup(c) \/ EmitReturn(c) \/ Die(c)
    PROVE  IInv'
<1>1. PICK n \in Nat : Numbered(n)
  BY DEF IInv
<1>2. UNCHANGED <<log, txpc, txseq, pending>> /\ pc'[c] # "insert"
      /\ \A d \in Calls \ {c} : pc'[d] = pc[d] /\ seq'[d] = seq[d] /\ answer'[d] = answer[d]
  BY DEF IInv, TypeOK, EmitLookup, EmitReturn, Die
<1>3. TypeOK'
  BY DEF IInv, TypeOK, EmitLookup, EmitReturn, Die, Row
<1>4. Numbered(n)'
  BY <1>1, <1>2 DEF Numbered
<1>5. Keyed'
  BY <1>2 DEF IInv, Keyed, KeysOnce
<1>6. Answered'
  <2>1. \A d \in Calls : \A k : Recorded(d, k)' = Recorded(d, k)
    BY <1>2 DEF Recorded
  <2>2. CASE EmitLookup(c)
    <3>1. PICK r \in log : r.key = KeyOf[c] /\ seq'[c] = r.seq
      BY <2>2 DEF EmitLookup, IInv, TypeOK
    <3>2. Recorded(c, seq'[c])
      BY <2>2, <3>1 DEF EmitLookup, IInv, Answered, HasKey, Recorded
    <3> QED BY <1>2, <2>1, <2>2, <3>2 DEF EmitLookup, IInv, TypeOK, Answered, HasKey
  <2>3. CASE EmitReturn(c)
    BY <1>2, <2>1, <2>3 DEF EmitReturn, IInv, TypeOK, Answered, HasKey
  <2>4. CASE Die(c)
    BY <1>2, <2>1, <2>4 DEF Die, IInv, TypeOK, Answered, HasKey
  <2> QED BY <2>2, <2>3, <2>4
<1> QED BY <1>3, <1>4, <1>5, <1>6 DEF IInv

-----------------------------------------------------------------------------
\* The transactions.
LEMMA TxReadKeepsIInv ==
    ASSUME IInv, NEW t \in Txs, TxRead(t) PROVE IInv'
<1>1. PICK n \in Nat : Numbered(n)
  BY DEF IInv
<1>2. PICK m \in Nat : Dense(pending[t], n, n + m)
  BY <1>1 DEF Numbered, TxNumbered
<1>3. NextSeq(log \cup pending[t]) = n + m + 1
  <2>1. Dense(log \cup pending[t], 0, n + m)
    BY <1>1, <1>2, DenseUnion DEF Numbered
  <2>2. log \cup pending[t] \subseteq Row /\ n + m \in Nat
    BY DEF IInv, TypeOK
  <2> QED BY <2>1, <2>2, NextSeqIsNext
<1>4. TypeOK'
  BY <1>3 DEF IInv, TypeOK, TxRead
<1>5. Numbered(n)'
  <2>1. TxNumbered(pending'[t], txpc'[t], txseq'[t], n)
    <3>1. pending' = pending /\ txseq'[t] = n + m + 1
      BY <1>3 DEF IInv, TypeOK, TxRead
    <3>2. Dense(pending'[t], n, n + m)
      BY <1>2, <3>1
    <3> SUFFICES \E k \in Nat :
                     /\ Dense(pending'[t], n, n + k)
                     /\ txpc'[t] = "insert" => \/ txseq'[t] = n + k + 1
                                               \/ pending'[t] = {} /\ txseq'[t] \in 1..n
      BY DEF TxNumbered
    <3> WITNESS m \in Nat
    <3> QED BY <3>1, <3>2
  <2>2. \A u \in Txs \ {t} : TxNumbered(pending'[u], txpc'[u], txseq'[u], n)
    BY <1>1 DEF IInv, TypeOK, TxRead, Numbered
  <2> QED BY <1>1, <2>1, <2>2 DEF IInv, TypeOK, TxRead, Numbered
<1>6. Keyed' /\ Answered'
  BY DEF IInv, TypeOK, TxRead, Keyed, Answered, Recorded, KeysOnce, HasKey
<1> QED BY <1>4, <1>5, <1>6 DEF IInv

\* Commit, rollback and a refused INSERT leave no uncommitted rows behind.
LEMMA TxEndKeepsIInv ==
    ASSUME IInv, NEW t \in Txs,
           log' = log,
           pending' = [pending EXCEPT ![t] = {}],
           txpc' = [txpc EXCEPT ![t] = "closed"],
           UNCHANGED <<pc, seq, answer, txseq>>
    PROVE  IInv'
<1>1. PICK n \in Nat : Numbered(n)
  BY DEF IInv
<1>2. TypeOK'
  BY DEF IInv, TypeOK
<1>3. Numbered(n)'
  <2>1. TxNumbered(pending'[t], txpc'[t], txseq'[t], n)
    <3>1. Dense(pending'[t], n, n + 0)
      BY DenseEmpty DEF IInv, TypeOK
    <3>2. txpc'[t] = "closed"
      BY DEF IInv, TypeOK
    <3> QED BY <3>1, <3>2 DEF TxNumbered
  <2>2. \A u \in Txs \ {t} : TxNumbered(pending'[u], txpc'[u], txseq'[u], n)
    BY <1>1 DEF IInv, TypeOK, Numbered
  <2> QED BY <1>1, <2>1, <2>2 DEF IInv, TypeOK, Numbered
<1>4. Keyed' /\ Answered'
  BY DEF IInv, TypeOK, Keyed, Answered, Recorded, KeysOnce, HasKey
<1> QED BY <1>2, <1>3, <1>4 DEF IInv

\* A row of an open transaction keeps IInv.
LEMMA TxInsertKeepsIInv ==
    ASSUME IInv, NEW t \in Txs, TxInsert(t) PROVE IInv'
<1>1. PICK n \in Nat : Numbered(n)
  BY DEF IInv
<1> DEFINE seen == log \cup pending[t]
<1>2. CASE HasSeq(seen, txseq[t]) \/ HasKey(seen, TxKeyOf[t])
  BY <1>2, TxEndKeepsIInv DEF TxInsert
<1>3. CASE ~(HasSeq(seen, txseq[t]) \/ HasKey(seen, TxKeyOf[t]))
  <2> DEFINE row == [seq |-> txseq[t], key |-> TxKeyOf[t],
                     id |-> <<t, txseq[t]>>]
  <2>1. /\ txpc[t] = "insert"
        /\ pending' = [pending EXCEPT ![t] = pending[t] \cup {row}]
        /\ txpc' = [txpc EXCEPT ![t] = "read"]
        /\ UNCHANGED <<log, pc, seq, answer, txseq>>
    BY <1>3 DEF TxInsert
  <2>2. PICK m \in Nat : /\ Dense(pending[t], n, n + m)
                         /\ txseq[t] = n + m + 1
    <3>1. PICK m \in Nat :
              /\ Dense(pending[t], n, n + m)
              /\ \/ txseq[t] = n + m + 1
                 \/ pending[t] = {} /\ txseq[t] \in 1..n
      BY <1>1, <2>1 DEF Numbered, TxNumbered
    <3>2. ~HasSeq(log, txseq[t])
      BY <1>3 DEF HasSeq
    <3>3. txseq[t] \notin 1..n
      BY <1>1, <3>2 DEF Numbered, Dense
    <3> QED BY <3>1, <3>3
  <2>3. \A u \in Txs \ {t} : pending[u] = {}
    \* with rows of its own t is alone; else it waits for those who have n + 1
    <3> SUFFICES ASSUME NEW u \in Txs \ {t}, pending[u] # {} PROVE FALSE
      OBVIOUS
    <3>1. pending[t] = {}
      BY <1>1 DEF Numbered
    <3>2. m = 0
      BY <2>2, <3>1 DEF Dense, HasSeq
    <3>3. PICK k \in Nat : Dense(pending[u], n, n + k)
      BY <1>1 DEF Numbered, TxNumbered
    <3>4. HasSeq(pending[u], n + 1)
      BY <3>3 DEF Dense
    <3> QED BY <2>2, <3>2, <3>4 DEF TxInsert, Blocked
  <2>4. TypeOK'
    <3>1. row \in Row
      BY <2>2 DEF Row, EventId, IInv, TypeOK
    <3> QED BY <2>1, <3>1 DEF IInv, TypeOK
  <2>5. Numbered(n)'
    <3>1. TxNumbered(pending'[t], txpc'[t], txseq'[t], n)
      <4>1. row.seq = (n + m) + 1 /\ n <= n + m /\ n + m \in Nat
        BY <2>2
      <4>2. Dense(pending[t] \cup {row}, n, n + (m + 1))
        <5> HIDE DEF row
        <5> QED BY <2>2, <4>1, DenseAdd
      <4>3. pending'[t] = pending[t] \cup {row} /\ txpc'[t] = "read"
        BY <2>1 DEF IInv, TypeOK
      <4> QED BY <4>2, <4>3 DEF TxNumbered
    <3>2. \A u \in Txs \ {t} : TxNumbered(pending'[u], txpc'[u], txseq'[u], n)
      BY <1>1, <2>1 DEF IInv, TypeOK, Numbered
    <3> QED BY <1>1, <2>1, <2>3, <3>1, <3>2 DEF IInv, TypeOK, Numbered
  <2>6. Keyed'
    <3>1. KeysOnce(seen \cup {row})
      BY <1>3 DEF IInv, Keyed, KeysOnce, HasKey
    <3>2. log' \cup pending'[t] = seen \cup {row}
      BY <2>1 DEF IInv, TypeOK
    <3>3. \A u \in Txs \ {t} : log' \cup pending'[u] = log \cup pending[u]
      BY <2>1 DEF IInv, TypeOK
    <3> QED BY <2>1, <3>1, <3>2, <3>3 DEF IInv, Keyed
  <2>7. Answered'
    BY <2>1 DEF IInv, Answered, Recorded, HasKey
  <2> QED BY <2>4, <2>5, <2>6, <2>7 DEF IInv
<1> QED BY <1>2, <1>3

\* A commit keeps IInv: the uncommitted rows continue the log.
LEMMA TxCommitKeepsIInv ==
    ASSUME IInv, NEW t \in Txs, TxCommit(t) PROVE IInv'
<1>1. PICK n \in Nat : Numbered(n)
  BY DEF IInv
<1>2. PICK m \in Nat : Dense(pending[t], n, n + m)
  BY <1>1 DEF Numbered, TxNumbered
<1>3. CASE pending[t] = {}
  <2>1. log' = log
    BY <1>3 DEF TxCommit
  <2> QED BY <2>1, TxEndKeepsIInv DEF TxCommit
<1>4. CASE pending[t] # {}
  <2>1. /\ log' = log \cup pending[t]
        /\ pending' = [pending EXCEPT ![t] = {}]
        /\ txpc' = [txpc EXCEPT ![t] = "closed"]
        /\ UNCHANGED <<pc, seq, answer, txseq>>
    BY DEF TxCommit
  <2>2. \A u \in Txs : pending'[u] = {}
    BY <1>1, <1>4, <2>1 DEF Numbered, IInv, TypeOK
  <2>3. TypeOK'
    BY <2>1 DEF IInv, TypeOK
  <2>4. Numbered(n + m)'
    <3>1. Dense(log', 0, n + m)
      BY <1>1, <1>2, <2>1, DenseUnion DEF Numbered
    <3>2. \A c \in Calls : pc'[c] = "insert" => seq'[c] \in 1..(n + m + 1)
      BY <1>1, <2>1 DEF Numbered
    <3>3. ASSUME NEW u \in Txs PROVE TxNumbered(pending'[u], txpc'[u], txseq'[u], n + m)
      <4>1. Dense(pending'[u], n + m, n + m + 0)
        BY <2>2, DenseEmpty
      <4>2. txpc'[u] = "insert" => txseq'[u] \in 1..(n + m + 1)
        <5> SUFFICES ASSUME txpc'[u] = "insert" PROVE txseq'[u] \in 1..(n + m + 1)
          OBVIOUS
        <5>1. u # t /\ txpc[u] = "insert" /\ txseq'[u] = txseq[u]
          BY <2>1 DEF IInv, TypeOK
        <5>2. pending[u] = {}
          BY <1>1, <1>4, <5>1 DEF Numbered
        <5>3. PICK k \in Nat : /\ Dense(pending[u], n, n + k)
                               /\ txseq[u] = n + k + 1 \/ txseq[u] \in 1..n
          BY <1>1, <5>1 DEF Numbered, TxNumbered
        <5>4. k = 0
          BY <5>2, <5>3 DEF Dense, HasSeq
        <5> QED BY <5>1, <5>3, <5>4
      <4> SUFFICES \E k \in Nat :
                       /\ Dense(pending'[u], n + m, n + m + k)
                       /\ txpc'[u] = "insert" =>
                             \/ txseq'[u] = n + m + k + 1
                             \/ pending'[u] = {} /\ txseq'[u] \in 1..(n + m)
        BY DEF TxNumbered
      <4> WITNESS 0 \in Nat
      <4> QED BY <2>2, <4>1, <4>2
    <3>4. n + m + 1 = (n + m) + 1 /\ n + m \in Nat
      OBVIOUS
    <3> QED BY <2>2, <3>1, <3>2, <3>3, <3>4 DEF Numbered
  <2>5. Keyed'
    BY <2>1, <2>2 DEF IInv, Keyed, KeysOnce
  <2>6. Answered'
    <3>1. \A c \in Calls : \A k : Recorded(c, k) => Recorded(c, k)'
      BY <2>1 DEF Recorded
    <3>2. \A k : HasKey(log, k) => HasKey(log', k)
      BY <2>1 DEF HasKey
    <3> QED BY <2>1, <3>1, <3>2 DEF IInv, Answered
  <2>7. n + m \in Nat
    OBVIOUS
  <2> QED BY <2>3, <2>4, <2>5, <2>6, <2>7 DEF IInv
<1> QED BY <1>3, <1>4

\* A rollback keeps IInv.
LEMMA TxAbortKeepsIInv ==
    ASSUME IInv, NEW t \in Txs, TxAbort(t) PROVE IInv'
  BY TxEndKeepsIInv DEF TxAbort

-----------------------------------------------------------------------------
\* Every step keeps IInv.
LEMMA NextKeepsIInv == IInv /\ [Next]_vars => IInv'
<1> SUFFICES ASSUME IInv, [Next]_vars PROVE IInv'
  OBVIOUS
<1>1. CASE UNCHANGED vars
  <2>1. PICK n \in Nat : Numbered(n)
    BY DEF IInv
  <2>2. Numbered(n)' /\ TypeOK' /\ Keyed' /\ Answered'
    BY <1>1, <2>1 DEF IInv, vars, Numbered, TypeOK, Keyed, Answered, Recorded
  <2> QED BY <2>2 DEF IInv
<1>2. ASSUME NEW c \in Calls, EmitRead(c) PROVE IInv'
  BY <1>2, ReadKeepsIInv
<1>3. ASSUME NEW c \in Calls, EmitInsert(c) PROVE IInv'
  BY <1>3, InsertKeepsIInv
<1>4. ASSUME NEW c \in Calls, EmitLookup(c) \/ EmitReturn(c) \/ Die(c) PROVE IInv'
  BY <1>4, OtherEmitStepsKeepIInv
<1>5. ASSUME NEW t \in Txs, TxRead(t) PROVE IInv'
  BY <1>5, TxReadKeepsIInv
<1>6. ASSUME NEW t \in Txs, TxInsert(t) PROVE IInv'
  BY <1>6, TxInsertKeepsIInv
<1>7. ASSUME NEW t \in Txs, TxCommit(t) PROVE IInv'
  BY <1>7, TxCommitKeepsIInv
<1>8. ASSUME NEW t \in Txs, TxAbort(t) PROVE IInv'
  BY <1>8, TxAbortKeepsIInv
<1> QED BY <1>1, <1>2, <1>3, <1>4, <1>5, <1>6, <1>7, <1>8 DEF Next

\* IInv holds in every reachable state of the event store.
THEOREM Invariant == Spec => []IInv
<1>1. Init => IInv
  BY InitIInv
<1>2. IInv /\ [Next]_vars => IInv'
  BY NextKeepsIInv
<1> QED BY <1>1, <1>2, PTL DEF Spec

\* The variables of PgEventStore and of the table keep their types.
THEOREM TypeCorrect == Spec => []TypeOK
<1>1. IInv => TypeOK
  BY DEF IInv
<1> QED BY <1>1, Invariant, PTL

\* Committed events are numbered 1, 2, 3, ... without holes or repeats.
THEOREM LogIsGapless == Spec => []Gapless
<1>1. IInv => Gapless
  <2> SUFFICES ASSUME IInv PROVE Gapless
    OBVIOUS
  <2>1. PICK n \in Nat : Dense(log, 0, n)
    BY DEF IInv, Numbered
  <2>2. ASSUME NEW r \in log, r.seq > 1 PROVE HasSeq(log, r.seq - 1)
    BY <2>1, <2>2 DEF Dense
  <2>3. \A r, s \in log : r.seq = s.seq => r = s
    BY <2>1 DEF Dense
  <2> QED BY <2>2, <2>3 DEF Gapless
<1> QED BY <1>1, Invariant, PTL

\* An idempotency key is committed at most once.
THEOREM KeysAreOnce == Spec => []KeyOnce
<1>1. IInv => KeyOnce
  BY DEF IInv, Keyed, KeysOnce, KeyOnce
<1> QED BY <1>1, Invariant, PTL

\* What emit() returned is the number of a committed event for the call.
THEOREM AnswersAreRecorded == Spec => []AnswerIsRecorded
<1>1. IInv => AnswerIsRecorded
  BY DEF IInv, Answered, Recorded, AnswerIsRecorded
<1> QED BY <1>1, Invariant, PTL

-----------------------------------------------------------------------------
\* An open transaction with uncommitted events holds up every other commit.
THEOREM OpenTxFreezes == Spec => OpenTxFreezesLog
<1> DEFINE Frozen == \A t \in Txs : pending[t] # {} /\ pending'[t] # {} => log' = log
<1>1. IInv /\ [Next]_vars => Frozen
  <2> SUFFICES ASSUME IInv, [Next]_vars,
                      NEW t \in Txs, pending[t] # {}, pending'[t] # {}
               PROVE  log' = log
    OBVIOUS
  <2>1. PICK n \in Nat : Numbered(n)
    BY DEF IInv
  <2>2. ASSUME NEW c \in Calls, EmitInsert(c) PROVE log' = log
    BY <2>1, <2>2, InsertIsNext
  <2>3. ASSUME NEW u \in Txs, TxCommit(u) PROVE log' = log
    <3>1. u # t
      BY <2>3 DEF TxCommit, IInv, TypeOK
    <3>2. pending[u] = {}
      BY <2>1, <3>1 DEF Numbered
    <3> QED BY <2>3, <3>2 DEF TxCommit
  <2> QED BY <2>2, <2>3 DEF Next, vars, EmitRead, EmitLookup, EmitReturn, Die,
                            TxRead, TxInsert, TxAbort
<1>2. [][Frozen]_vars => OpenTxFreezesLog
  BY PTL DEF OpenTxFreezesLog
<1>3. IInv /\ [Next]_vars => [Frozen]_vars
  BY <1>1
<1> QED BY <1>2, <1>3, Invariant, PTL DEF Spec

-----------------------------------------------------------------------------
\* Refinement: what the functions EventLog reads are, row by row.
LEMMA EventsOfRows ==
    ASSUME NEW rows, \A r, s \in rows : r.seq = s.seq => r = s
    PROVE  /\ DOMAIN EventsOf(rows) = {r.seq : r \in rows}
           /\ \A r \in rows : EventsOf(rows)[r.seq] = [id |-> r.id, key |-> r.key]
<1>1. DOMAIN EventsOf(rows) = {r.seq : r \in rows}
  BY DEF EventsOf
<1>2. ASSUME NEW r \in rows
      PROVE  EventsOf(rows)[r.seq] = [id |-> r.id, key |-> r.key]
  <2>1. RowAt(rows, r.seq) = r
    BY DEF RowAt
  <2> QED BY <2>1 DEF EventsOf
<1> QED BY <1>1, <1>2

\* The invariant in the form the refinement uses it.
LogFacts ==
    /\ \A r \in log : /\ r.seq \in Nat \ {0}
                      /\ r.seq > 1 => HasSeq(log, r.seq - 1)
    /\ \A r, s \in log : r.seq = s.seq => r = s
    /\ KeysOnce(log)

\* What the refinement needs of IInv.
LEMMA IInvMeans == IInv => LogFacts
<1> SUFFICES ASSUME IInv PROVE LogFacts
  OBVIOUS
<1>1. PICK n \in Nat : Dense(log, 0, n)
  BY DEF IInv, Numbered
<1>2. \A r \in log : r.seq \in Nat \ {0} /\ (r.seq > 1 => HasSeq(log, r.seq - 1))
  BY <1>1 DEF Dense
<1>3. \A r, s \in log : r.seq = s.seq => r = s
  BY <1>1 DEF Dense
<1> QED BY <1>2, <1>3 DEF IInv, Keyed, LogFacts

\* A log that grows above its last number has rows appended to it.
LEMMA GrowthIsAppend ==
    ASSUME LogFacts, LogFacts', log \subseteq log', log' # log, UNCHANGED answer
    PROVE  Log!Append
<1>1. /\ \A r \in log' : r.seq \in Nat \ {0} /\ (r.seq > 1 => HasSeq(log', r.seq - 1))
      /\ \A r, s \in log' : r.seq = s.seq => r = s
      /\ KeysOnce(log')
  BY DEF LogFacts
<1> DEFINE old == EventsOf(log)
           new == EventsOf(log')
<1>2. /\ DOMAIN old = {r.seq : r \in log}
      /\ \A r \in log : old[r.seq] = [id |-> r.id, key |-> r.key]
  BY EventsOfRows DEF LogFacts
<1>3. /\ DOMAIN new = {r.seq : r \in log'}
      /\ \A r \in log' : new[r.seq] = [id |-> r.id, key |-> r.key]
  BY <1>1, EventsOfRows
<1> HIDE DEF old, new
<1>4. DOMAIN old \subseteq DOMAIN new
  BY <1>2, <1>3
<1>5. DOMAIN old # DOMAIN new
  <2>1. PICK r \in log' : r \notin log
    OBVIOUS
  <2>2. r.seq \notin DOMAIN old
    BY <1>1, <1>2, <2>1
  <2> QED BY <1>3, <2>2
<1>6. Log!NoGap(DOMAIN new)
  BY <1>1, <1>3 DEF Log!NoGap, HasSeq
<1>7. ASSUME NEW n \in DOMAIN old PROVE new[n] = old[n]
  <2>1. PICK r \in log : r.seq = n
    BY <1>2
  <2>2. r \in log' /\ old[r.seq] = [id |-> r.id, key |-> r.key]
    BY <1>2
  <2>3. new[r.seq] = [id |-> r.id, key |-> r.key]
    BY <1>3, <2>2
  <2> QED BY <2>1, <2>2, <2>3
<1>8. ASSUME NEW m \in DOMAIN new, NEW n \in DOMAIN new,
             new[m].key # NoKey, new[m].key = new[n].key
      PROVE  m = n
  <2>1. PICK r \in log', s \in log' : r.seq = m /\ s.seq = n
    BY <1>3
  <2>2. new[r.seq].key = r.key /\ new[s.seq].key = s.key
    <3>1. new[r.seq] = [id |-> r.id, key |-> r.key]
      BY <1>3
    <3>2. new[s.seq] = [id |-> s.id, key |-> s.key]
      BY <1>3
    <3> QED BY <3>1, <3>2
  <2>3. r.key # NoKey /\ r.key = s.key
    BY <1>8, <2>1, <2>2
  <2>4. r = s
    BY <1>1, <2>3 DEF KeysOnce
  <2> QED BY <2>1, <2>4
<1> QED BY <1>4, <1>5, <1>6, <1>7, <1>8 DEF Log!Append, events, old, new

\* The return of emit is an answer of the abstract log.
LEMMA ReturnIsAnswer ==
    ASSUME IInv, NEW c \in Calls, EmitReturn(c) PROVE Log!Answer(c)
<1>1. answer[c] = 0 /\ answer' = [answer EXCEPT ![c] = seq[c]] /\ log' = log
  BY DEF IInv, Answered, EmitReturn
<1>2. PICK r \in log : /\ r.seq = seq[c]
                       /\ \/ r.id = c
                          \/ KeyOf[c] # NoKey /\ r.key = KeyOf[c]
  BY DEF IInv, Answered, EmitReturn, Recorded
<1>3. /\ seq[c] \in DOMAIN events
      /\ events[seq[c]] = [id |-> r.id, key |-> r.key]
  <2>1. /\ DOMAIN EventsOf(log) = {s.seq : s \in log}
        /\ \A s \in log : EventsOf(log)[s.seq] = [id |-> s.id, key |-> s.key]
    BY IInvMeans, EventsOfRows DEF LogFacts
  <2>2. r.seq \in DOMAIN EventsOf(log)
    BY <2>1
  <2>3. EventsOf(log)[r.seq] = [id |-> r.id, key |-> r.key]
    BY <2>1
  <2> QED BY <1>2, <2>2, <2>3 DEF events
<1>4. Log!Records(events[seq[c]], c)
  BY <1>2, <1>3 DEF Log!Records
<1> QED BY <1>1, <1>3, <1>4 DEF Log!Answer, events

\* The calls and transactions of the event store, however they interleave and
\* wherever they stop, behave as the append-only log of EventLog.
THEOREM RefinesEventLog == Spec => ImplementsEventLog
<1>1. Init => Log!Init
  BY DEF Init, Log!Init, events, EventsOf
<1>2. IInv /\ LogFacts /\ LogFacts' /\ [Next]_vars => [Log!Next]_(Log!logVars)
  <2> SUFFICES ASSUME IInv, LogFacts, LogFacts', [Next]_vars
               PROVE  Log!Next \/ UNCHANGED <<events, answer>>
    BY DEF Log!logVars
  <2>1. ASSUME log \subseteq log', UNCHANGED answer
        PROVE  Log!Next \/ UNCHANGED <<events, answer>>
    <3>1. CASE log' = log
      BY <2>1, <3>1 DEF events
    <3>2. CASE log' # log
      BY <2>1, <3>2, GrowthIsAppend DEF Log!Next
    <3> QED BY <3>1, <3>2
  <2>2. ASSUME NEW c \in Calls, EmitReturn(c)
        PROVE  Log!Next
    BY <2>2, ReturnIsAnswer DEF Log!Next
  <2>3. CASE UNCHANGED vars
    BY <2>1, <2>3 DEF vars
  <2>4. ASSUME NEW c \in Calls, EmitRead(c) \/ EmitInsert(c) \/ EmitLookup(c) \/ Die(c)
        PROVE  log \subseteq log' /\ UNCHANGED answer
    BY <2>4 DEF EmitRead, EmitInsert, EmitLookup, Die
  <2>5. ASSUME NEW t \in Txs, TxRead(t) \/ TxInsert(t) \/ TxCommit(t) \/ TxAbort(t)
        PROVE  log \subseteq log' /\ UNCHANGED answer
    BY <2>5 DEF TxRead, TxInsert, TxCommit, TxAbort
  <2> QED BY <2>1, <2>2, <2>3, <2>4, <2>5 DEF Next
<1> QED BY <1>1, <1>2, IInvMeans, Invariant, PTL DEF Spec, ImplementsEventLog, Log!Spec
=============================================================================
