-------------------------- MODULE SharedStoreProofs ---------------------------
(***************************************************************************)
(* Theorems about AuditChain and SharedStore, for any number of processes, *)
(* any events and any length.                                              *)
(*   - The ledger nobody changed verifies.  Its invariant, ChainInv, needs *)
(*     to know who holds the write lock and that the hash its transaction  *)
(*     has read is still the last one.                                     *)
(*   - The shared file keeps its ledger and its schema sound.  The one     *)
(*     write lock of the file is what both rest on, so SharedInv takes     *)
(*     ChainInv over, and joins it with what a process that migrates has   *)
(*     done so far and with the fact that a process never appends while it *)
(*     opens the store.                                                    *)
(*   - A change from outside is located, since hashes get longer with every*)
(*     record and tell their contents apart.                               *)
(*   - A command tells its caller what happened.  SessionInv adds to       *)
(*     SharedInv how far a command is (TaskOK), that who holds the lock is *)
(*     at work (WriterWorks), and that an opening process that has met     *)
(*     nobody is alone (Undisturbed).                                      *)
(***************************************************************************)
EXTENDS SharedStore, SequenceTheorems, TLAPS

-----------------------------------------------------------------------------
(* The ledger. *)

InTransaction(p) == append[p].pc \in {"read", "insert"}

\* A transaction is open only in sqlite, in the connection that holds the lock, and the hash it
\* has read stays the last one until it commits.
LockHeld ==
    \A p \in Appenders :
        /\ InTransaction(p) => writer = p /\ backend = "sqlite"
        /\ append[p].pc = "insert" => append[p].base = LastHash

ChainInv == TypeOK /\ LockHeld /\ UntouchedLogVerifies

\* The last hash of a well-typed ledger is a hash.
LEMMA LastHashType ==
    ASSUME TypeOK
    PROVE  LastHash \in Hashes
<1>1. CASE log = <<>>
  BY <1>1, EmptySeq DEF LastHash, GenesisHash, Hashes
<1>2. CASE log # <<>>
  <2>1. Len(log) \in 1..Len(log)
    BY <1>2, EmptySeq DEF TypeOK
  <2>2. log[Len(log)] \in Records
    BY <2>1, ElementOfSeq DEF TypeOK
  <2> QED
    BY <1>2, <2>2 DEF LastHash, Records
<1> QED
  BY <1>1, <1>2

\* A new row is a row.
LEMMA NewRecordType ==
    ASSUME TypeOK, NEW base \in Hashes, NEW body \in Bodies
    PROVE  NewRecord(base, body) \in Records
<1>1. RecordHash(base, body) \in Hashes
  BY AppendProperties DEF RecordHash, Hashes
<1> QED
  BY <1>1 DEF NewRecord, Records, TypeOK

\* A row that links to the last hash leaves every other row where it is, and breaks the
\* chain nowhere.
LEMMA InsertLinks ==
    ASSUME TypeOK, NEW body \in Bodies, Insert(NewRecord(LastHash, body))
    PROVE  /\ \A i \in DOMAIN log : i \in DOMAIN log' /\ log'[i] = log[i]
           /\ \A i \in DOMAIN log : BreaksAt(i)' <=> BreaksAt(i)
           /\ \A i \in DOMAIN log' \ DOMAIN log : ~BreaksAt(i)'
<1> DEFINE record == NewRecord(LastHash, body)
<1>1. record \in Records
  BY LastHashType, NewRecordType
<1>2. /\ log' \in Seq(Records)
      /\ Len(log') = Len(log) + 1
      /\ \A i \in 1..Len(log) : log'[i] = log[i]
      /\ log'[Len(log) + 1] = record
  BY <1>1, AppendProperties DEF Insert, TypeOK
<1>3. DOMAIN log = 1..Len(log) /\ DOMAIN log' = 1..(Len(log) + 1) /\ Len(log) \in Nat
  BY <1>2, LenProperties DEF TypeOK
<1>4. ASSUME NEW i \in DOMAIN log PROVE BreaksAt(i)' <=> BreaksAt(i)
  <2>1. log'[i] = log[i] /\ (i # 1 => log'[i - 1] = log[i - 1])
    BY <1>2, <1>3, <1>4
  <2> QED
    BY <2>1 DEF BreaksAt, ExpectedPrev
<1>5. ASSUME NEW i \in DOMAIN log', i = Len(log) + 1 PROVE ~BreaksAt(i)'
  <2>1. log'[i].prev_hash = LastHash /\ log'[i].record_hash = RecordHash(LastHash, log'[i].body)
    BY <1>2, <1>5 DEF NewRecord
  <2>2. ExpectedPrev(i)' = LastHash
    <3>1. CASE log = <<>>
      BY <1>5, <3>1, EmptySeq DEF ExpectedPrev, LastHash
    <3>2. CASE log # <<>>
      <4>1. i # 1 /\ log'[i - 1] = log[Len(log)]
        BY <1>2, <1>3, <1>5, <3>2, EmptySeq DEF TypeOK
      <4> QED
        BY <3>2, <4>1 DEF ExpectedPrev, LastHash
    <3> QED
      BY <3>1, <3>2
  <2> QED
    BY <2>1, <2>2 DEF BreaksAt
<1> QED
  BY <1>2, <1>3, <1>4, <1>5

\* Appending a row that links to the last hash keeps types and chain.
LEMMA InsertKeeps ==
    ASSUME TypeOK, UntouchedLogVerifies, NEW body \in Bodies,
           Insert(NewRecord(LastHash, body)), UNCHANGED damages
    PROVE  /\ log' \in Seq(Records)
           /\ lastSeq' \in Nat
           /\ UntouchedLogVerifies'
<1>1. NewRecord(LastHash, body) \in Records
  BY LastHashType, NewRecordType
<1>2. log' \in Seq(Records) /\ lastSeq' \in Nat
  BY <1>1, AppendProperties DEF Insert, TypeOK, Records
<1>3. ASSUME damages = 0, NEW i \in DOMAIN log' PROVE ~BreaksAt(i)'
  <2>1. i \in DOMAIN log => ~BreaksAt(i)
    BY <1>3 DEF UntouchedLogVerifies, VerifyOk
  <2> QED
    BY <2>1, InsertLinks
<1> QED
  BY <1>2, <1>3 DEF UntouchedLogVerifies, VerifyOk

\* The empty ledger verifies and nobody holds the lock.
LEMMA ChainInit == Init => ChainInv
<1> SUFFICES ASSUME Init PROVE ChainInv
  OBVIOUS
<1>1. <<>> \in Seq(Records) /\ <<>> \in Seq(Bodies) /\ DOMAIN <<>> = {}
  BY EmptySeq
<1>2. NoAppend \in Appends /\ NoAppend.pc = "idle"
  BY <1>1, AuditChainAssumption DEF NoAppend, Appends, GenesisHash, Hashes
<1> QED
  BY <1>1, <1>2 DEF Init, ChainInv, TypeOK, LockHeld, InTransaction, UntouchedLogVerifies, VerifyOk

\* The steps of processes keep the invariant: only the holder of the lock inserts.
LEMMA AppendingKeeps ==
    ASSUME ChainInv, NEW p \in Appenders, Appending(p)
    PROVE  ChainInv'
<1> USE DEF ChainInv
<1>0. NoAppend \in Appends /\ NoAppend.pc = "idle" /\ GenesisHash \in Hashes
  BY EmptySeq, AuditChainAssumption DEF NoAppend, Appends, GenesisHash, Hashes
<1>1. CASE Request(p)
  <2>1. UNCHANGED <<log, writer, damages>> /\ TypeOK'
    BY <1>0, <1>1 DEF Request, TypeOK, Appends
  <2> QED
    BY <1>1, <2>1 DEF Request, LockHeld, InTransaction, TypeOK, UntouchedLogVerifies, VerifyOk,
       BreaksAt, ExpectedPrev, LastHash
<1>2. CASE AppendInMemory(p)
  <2>1. append[p].body \in Bodies
    BY DEF TypeOK, Appends
  <2>2. TypeOK' /\ UntouchedLogVerifies'
    BY <1>0, <1>2, <2>1, InsertKeeps DEF AppendInMemory, Ends, TypeOK
  <2>3. LockHeld'
    BY <1>0, <1>2 DEF AppendInMemory, Ends, LockHeld, InTransaction, TypeOK
  <2> QED
    BY <2>2, <2>3
<1>3. CASE Begin(p)
  <2>1. TypeOK' /\ UNCHANGED <<log, damages>>
    BY <1>3 DEF Begin, TypeOK, Appends
  <2>2. \A q \in Appenders : ~InTransaction(q)
    BY <1>3, AuditChainAssumption DEF Begin, LockHeld
  <2> QED
    BY <1>3, <2>1, <2>2 DEF Begin, LockHeld, InTransaction, TypeOK, UntouchedLogVerifies, VerifyOk,
       BreaksAt, ExpectedPrev, LastHash
<1>4. CASE Busy(p)
  <2>1. TypeOK' /\ UNCHANGED <<log, writer, damages>>
    BY <1>0, <1>4 DEF Busy, Ends, TypeOK
  <2> QED
    BY <1>0, <1>4, <2>1 DEF Busy, Ends, LockHeld, InTransaction, TypeOK, UntouchedLogVerifies,
       VerifyOk, BreaksAt, ExpectedPrev, LastHash
<1>5. CASE ReadLast(p)
  <2>1. TypeOK' /\ UNCHANGED <<backend, log, writer, damages>>
    BY <1>5, LastHashType DEF ReadLast, TypeOK, Appends
  <2>2. LockHeld'
    <3>1. ASSUME NEW q \in Appenders, q # p PROVE append'[q] = append[q]
      BY <1>5, <3>1 DEF ReadLast, TypeOK
    <3>2. /\ append'[p].pc = "insert" /\ append'[p].base = LastHash
          /\ writer = p /\ backend = "sqlite"
      BY <1>5 DEF ReadLast, LockHeld, InTransaction, TypeOK, Appends
    <3>3. LastHash' = LastHash
      BY <2>1 DEF LastHash
    <3>4. ASSUME NEW q \in Appenders
          PROVE  /\ InTransaction(q)' => writer' = q /\ backend' = "sqlite"
                 /\ append'[q].pc = "insert" => append'[q].base = LastHash'
      <4>1. CASE q = p
        BY <2>1, <3>2, <3>3, <4>1
      <4>2. CASE q # p
        BY <2>1, <3>1, <3>3, <4>2 DEF LockHeld, InTransaction
      <4> QED
        BY <4>1, <4>2
    <3> QED
      BY <3>4 DEF LockHeld
  <2>3. UntouchedLogVerifies'
    BY <2>1 DEF UntouchedLogVerifies, VerifyOk, BreaksAt, ExpectedPrev
  <2> QED
    BY <2>1, <2>2, <2>3
<1>6. CASE Commit(p)
  <2>1. append[p].body \in Bodies /\ append[p].base = LastHash
    BY <1>6 DEF Commit, LockHeld, TypeOK, Appends
  <2>2. TypeOK' /\ UntouchedLogVerifies'
    BY <1>0, <1>6, <2>1, InsertKeeps DEF Commit, Ends, TypeOK
  <2>3. \A q \in Appenders : q # p => ~InTransaction(q)
    BY <1>6 DEF Commit, LockHeld, InTransaction
  <2>4. LockHeld'
    BY <1>0, <1>6, <2>3 DEF Commit, Ends, LockHeld, InTransaction, TypeOK
  <2> QED
    BY <2>2, <2>4
<1>7. CASE Rollback(p)
  <2>1. TypeOK' /\ UNCHANGED <<log, damages>>
    BY <1>0, <1>7 DEF Rollback, Ends, TypeOK
  <2>2. \A q \in Appenders : q # p => ~InTransaction(q)
    BY <1>7 DEF Rollback, LockHeld, InTransaction
  <2> QED
    BY <1>0, <1>7, <2>1, <2>2 DEF Rollback, Ends, LockHeld, InTransaction, TypeOK,
       UntouchedLogVerifies, VerifyOk, BreaksAt, ExpectedPrev, LastHash
<1> QED
  BY <1>1, <1>2, <1>3, <1>4, <1>5, <1>6, <1>7 DEF Appending

\* A change from outside keeps the types; it needs the lock to be free.
LEMMA OutsideKeeps ==
    ASSUME ChainInv, NEW i \in DOMAIN log, Outside(i)
    PROVE  ChainInv'
<1> USE DEF ChainInv
<1>1. /\ log \in Seq(Records) /\ i \in 1..Len(log) /\ Len(log) \in Nat
      /\ \A j \in 1..Len(log) : log[j] \in Records
  BY LenProperties, ElementOfSeq DEF TypeOK
<1>2. \E seq \in Nat : Damage(seq)
  <2>1. CASE EditRow(i)
    BY <1>1, <2>1 DEF EditRow, Records
  <2>2. CASE DeleteRow(i)
    <3>1. CASE i = Len(log)
      BY <2>2, <3>1 DEF DeleteRow
    <3>2. CASE i # Len(log)
      <4>1. log[i + 1] \in Records
        BY <1>1, <3>2
      <4> QED
        BY <2>2, <3>2, <4>1 DEF DeleteRow, Records
    <3> QED
      BY <3>1, <3>2
  <2>3. CASE SwapRows(i)
    BY <1>1, <2>3 DEF SwapRows, Records
  <2> QED
    BY <2>1, <2>2, <2>3 DEF Outside
<1>3. log' \in Seq(Records)
  <2>1. CASE EditRow(i)
    <3>1. PICK body \in Bodies : log' = [log EXCEPT ![i].body = body]
      BY <2>1 DEF EditRow
    <3>2. [log[i] EXCEPT !.body = body] \in Records
      BY <1>1 DEF Records
    <3>3. log' = [log EXCEPT ![i] = [log[i] EXCEPT !.body = body]]
      BY <3>1
    <3> QED
      BY <1>1, <3>2, <3>3, ExceptSeq
  <2>2. CASE DeleteRow(i)
    <3>1. SubSeq(log, 1, i - 1) \in Seq(Records) /\ SubSeq(log, i + 1, Len(log)) \in Seq(Records)
      BY <1>1, SubSeqProperties
    <3> QED
      BY <2>2, <3>1, ConcatProperties DEF DeleteRow
  <2>3. CASE SwapRows(i)
    <3>1. i + 1 \in 1..Len(log)
      BY <1>1, <2>3 DEF SwapRows
    <3> DEFINE upper == [log[i + 1] EXCEPT !.seq = log[i].seq]
               lower == [log[i] EXCEPT !.seq = log[i + 1].seq]
    <3>2. upper \in Records /\ lower \in Records
      BY <1>1, <3>1 DEF Records
    <3>3. [log EXCEPT ![i] = upper] \in Seq(Records) /\ Len([log EXCEPT ![i] = upper]) = Len(log)
      BY <1>1, <3>2, ExceptSeq
    <3>4. [[log EXCEPT ![i] = upper] EXCEPT ![i + 1] = lower] \in Seq(Records)
      BY <3>1, <3>2, <3>3, ExceptSeq
    <3>5. log' = [[log EXCEPT ![i] = upper] EXCEPT ![i + 1] = lower]
      BY <2>3 DEF SwapRows
    <3> QED
      BY <3>4, <3>5
  <2> QED
    BY <2>1, <2>2, <2>3 DEF Outside
<1>4. TypeOK'
  BY <1>2, <1>3 DEF Damage, TypeOK
<1>5. LockHeld'
  BY <1>2, AuditChainAssumption DEF Damage, LockHeld, InTransaction
<1>6. UntouchedLogVerifies'
  BY <1>2 DEF Damage, UntouchedLogVerifies, TypeOK
<1> QED
  BY <1>4, <1>5, <1>6

\* The invariant is inductive.
LEMMA ChainStep == ChainInv /\ [Next]_vars => ChainInv'
<1> SUFFICES ASSUME ChainInv, [Next]_vars PROVE ChainInv'
  OBVIOUS
<1>1. CASE UNCHANGED vars
  BY <1>1 DEF vars, ChainInv, TypeOK, LockHeld, InTransaction, UntouchedLogVerifies, VerifyOk,
     BreaksAt, ExpectedPrev, LastHash
<1> QED
  BY <1>1, AppendingKeeps, OutsideKeeps DEF Next

\* Every state of the ledger is well typed: hashes stay hashes of what was
\* appended, whatever was edited, deleted or exchanged meanwhile.
THEOREM ChainTypeCorrect == Spec => []TypeOK
<1>1. ChainInv => TypeOK
  BY DEF ChainInv
<1> QED
  BY ChainInit, ChainStep, <1>1, PTL DEF Spec

\* A ledger nobody changed verifies, whatever processes append to it at the same
\* time, give up or die: BEGIN IMMEDIATE keeps the chain from forking.
THEOREM UntouchedVerifies == Spec => []UntouchedLogVerifies
<1>1. ChainInv => UntouchedLogVerifies
  BY DEF ChainInv
<1> QED
  BY ChainInit, ChainStep, <1>1, PTL DEF Spec

-----------------------------------------------------------------------------
(* Changes from outside. *)

\* A hash is longer than the one it continues.
LEMMA HashGrows ==
    ASSUME NEW prev \in Hashes, NEW body \in Bodies
    PROVE  RecordHash(prev, body) # prev
<1>1. Len(RecordHash(prev, body)) = Len(prev) + 1 /\ Len(prev) \in Nat
  BY AppendProperties DEF RecordHash, Hashes
<1> QED
  BY <1>1

\* Hashes of one predecessor tell their contents apart.
LEMMA HashTells ==
    ASSUME NEW prev \in Hashes, NEW body \in Bodies, NEW other \in Bodies,
           RecordHash(prev, body) = RecordHash(prev, other)
    PROVE  body = other
<1>1. /\ RecordHash(prev, body)[Len(prev) + 1] = body
      /\ RecordHash(prev, other)[Len(prev) + 1] = other
  BY AppendProperties DEF RecordHash, Hashes
<1> QED
  BY <1>1

\* What a chain that verifies says of its rows.
LEMMA Verified ==
    ASSUME TypeOK, VerifyOk, NEW i \in DOMAIN log
    PROVE  /\ log[i] \in Records
           /\ log[i].prev_hash = ExpectedPrev(i)
           /\ log[i].record_hash = RecordHash(ExpectedPrev(i), log[i].body)
           /\ ExpectedPrev(i) \in Hashes
<1>1. log[i] \in Records
  BY LenProperties, ElementOfSeq DEF TypeOK
<1>2. log[i].prev_hash = ExpectedPrev(i) /\ log[i].record_hash = RecordHash(log[i].prev_hash, log[i].body)
  BY DEF VerifyOk, BreaksAt
<1> QED
  BY <1>1, <1>2 DEF Records

\* A change of a row leaves the rows before it as they were: where it breaks the chain is
\* the first break.
LEMMA BreaksFirst ==
    ASSUME TypeOK, VerifyOk, NEW i \in DOMAIN log, i \in DOMAIN log', BreaksAt(i)',
           \A j \in 1..(i - 1) : log'[j] = log[j]
    PROVE  FirstBreak(i)'
<1>1. DOMAIN log = 1..Len(log) /\ Len(log) \in Nat
  BY LenProperties DEF TypeOK
<1>2. ASSUME NEW j \in 1..(i - 1) PROVE ~BreaksAt(j)'
  <2>1. j \in DOMAIN log /\ log'[j] = log[j] /\ (j # 1 => log'[j - 1] = log[j - 1])
    BY <1>1, <1>2
  <2>2. ~BreaksAt(j)
    BY <2>1 DEF VerifyOk
  <2> QED
    BY <2>1, <2>2 DEF BreaksAt, ExpectedPrev
<1> QED
  BY <1>2 DEF FirstBreak

\* The first change of a ledger that verifies is located.
LEMMA EditIsLocated ==
    ASSUME TypeOK, VerifyOk, NEW i \in DOMAIN log, EditRow(i)
    PROVE  /\ damagedSeq' = log[i].seq /\ i \in DOMAIN log' /\ log'[i].seq = log[i].seq
           /\ FirstBreak(i)'
<1>1. PICK body \in Bodies \ {log[i].body} : log' = [log EXCEPT ![i].body = body]
  BY DEF EditRow
<1>2. /\ log[i] \in Records /\ log[i].prev_hash \in Hashes
      /\ log[i].record_hash = RecordHash(log[i].prev_hash, log[i].body)
  BY Verified
<1>3. DOMAIN log = 1..Len(log) /\ Len(log) \in Nat
  BY LenProperties DEF TypeOK
<1>4. /\ DOMAIN log' = DOMAIN log
      /\ log'[i] = [log[i] EXCEPT !.body = body]
      /\ \A j \in 1..(i - 1) : log'[j] = log[j]
  BY <1>1, <1>3
<1>5. /\ log'[i].seq = log[i].seq /\ log'[i].body = body
      /\ log'[i].prev_hash = log[i].prev_hash /\ log'[i].record_hash = log[i].record_hash
  BY <1>2, <1>4 DEF Records
<1>6. log[i].body \in Bodies /\ body # log[i].body
  BY <1>1, <1>2 DEF Records
<1>7. log'[i].record_hash # RecordHash(log'[i].prev_hash, log'[i].body)
  BY <1>2, <1>5, <1>6, HashTells
<1>8. BreaksAt(i)'
  BY <1>7 DEF BreaksAt
<1> QED
  BY <1>4, <1>5, <1>8, BreaksFirst DEF EditRow, Damage

\* The later of the two rows links to the earlier one, which now comes after it.
LEMMA SwapIsLocated ==
    ASSUME TypeOK, VerifyOk, NEW i \in DOMAIN log, SwapRows(i)
    PROVE  /\ damagedSeq' = log[i].seq /\ i \in DOMAIN log' /\ log'[i].seq = log[i].seq
           /\ FirstBreak(i)'
<1>1. DOMAIN log = 1..Len(log) /\ Len(log) \in Nat
  BY LenProperties DEF TypeOK
<1>2. i + 1 \in DOMAIN log /\ i < Len(log)
  BY <1>1 DEF SwapRows
<1>3. /\ log[i] \in Records /\ ExpectedPrev(i) \in Hashes
      /\ log[i].record_hash = RecordHash(ExpectedPrev(i), log[i].body)
  BY Verified
<1>4. log[i + 1] \in Records /\ log[i + 1].prev_hash = ExpectedPrev(i + 1)
  BY <1>2, Verified
<1>5. log[i + 1].prev_hash = log[i].record_hash
  BY <1>1, <1>4 DEF ExpectedPrev
<1>6. /\ DOMAIN log' = DOMAIN log
      /\ log'[i] = [log[i + 1] EXCEPT !.seq = log[i].seq]
      /\ \A j \in 1..(i - 1) : log'[j] = log[j]
  BY <1>1, <1>2 DEF SwapRows
<1>7. log'[i].seq = log[i].seq /\ log'[i].prev_hash = log[i].record_hash
  BY <1>4, <1>5, <1>6 DEF Records
<1>8. ExpectedPrev(i)' = ExpectedPrev(i)
  BY <1>1, <1>6 DEF ExpectedPrev
<1>9. log[i].body \in Bodies
  BY <1>3 DEF Records
<1>10. BreaksAt(i)'
  BY <1>3, <1>7, <1>8, <1>9, HashGrows DEF BreaksAt
<1> QED
  BY <1>6, <1>7, <1>10, BreaksFirst DEF SwapRows, Damage

\* The rows of a ledger without its i-th.
LEMMA RowsWithout ==
    ASSUME TypeOK, NEW i \in DOMAIN log,
           log' = SubSeq(log, 1, i - 1) \o SubSeq(log, i + 1, Len(log))
    PROVE  /\ DOMAIN log' = 1..(Len(log) - 1)
           /\ \A j \in 1..(i - 1) : log'[j] = log[j]
           /\ i < Len(log) => log'[i] = log[i + 1]
<1>1. DOMAIN log = 1..Len(log) /\ Len(log) \in Nat /\ log \in Seq(Records)
  BY LenProperties DEF TypeOK
<1> DEFINE before == SubSeq(log, 1, i - 1)
           after == SubSeq(log, i + 1, Len(log))
<1>2. /\ before \in Seq(Records) /\ Len(before) = i - 1
      /\ \A j \in 1..(i - 1) : before[j] = log[j]
  BY <1>1, SubSeqProperties
<1>3. /\ after \in Seq(Records) /\ Len(after) = Len(log) - i
      /\ i < Len(log) => after[1] = log[i + 1]
  BY <1>1, SubSeqProperties
<1> HIDE DEF before, after
<1>4. /\ Len(before \o after) = Len(before) + Len(after)
      /\ before \o after \in Seq(Records)
      /\ \A j \in 1..Len(before) : (before \o after)[j] = before[j]
      /\ \A j \in 1..Len(after) : (before \o after)[Len(before) + j] = after[j]
  <2> SUFFICES ASSUME NEW s \in Seq(Records), NEW t \in Seq(Records)
               PROVE  /\ Len(s \o t) = Len(s) + Len(t)
                      /\ s \o t \in Seq(Records)
                      /\ \A j \in 1..Len(s) : (s \o t)[j] = s[j]
                      /\ \A j \in 1..Len(t) : (s \o t)[Len(s) + j] = t[j]
    BY <1>2, <1>3
  <2>1. s \o t \in Seq(Records) /\ Len(s \o t) = Len(s) + Len(t)
    BY ConcatProperties
  <2>2. \A j \in 1..Len(s) + Len(t) : (s \o t)[j] = IF j <= Len(s) THEN s[j] ELSE t[j - Len(s)]
    BY ConcatProperties
  <2>3. Len(s) \in Nat /\ Len(t) \in Nat
    BY LenProperties
  <2> QED
    BY <2>1, <2>2, <2>3
<1>5. log' = before \o after
  BY DEF before, after
<1>6. DOMAIN log' = 1..(Len(log) - 1)
  BY <1>1, <1>2, <1>3, <1>4, <1>5, LenProperties
<1>7. i < Len(log) => log'[i] = log[i + 1]
  <2> HAVE i < Len(log)
  <2>1. 1 \in 1..Len(after) /\ Len(before) + 1 = i
    BY <1>1, <1>2, <1>3
  <2> QED
    BY <1>3, <1>4, <1>5, <2>1
<1> QED
  BY <1>2, <1>4, <1>5, <1>6, <1>7

\* The row that followed the deleted one links to a hash its new neighbour does not have;
\* without the last row the chain still verifies.
LEMMA DeletionIsLocated ==
    ASSUME TypeOK, VerifyOk, NEW i \in DOMAIN log, DeleteRow(i)
    PROVE  IF damagedSeq' = 0 THEN VerifyOk'
           ELSE i \in DOMAIN log' /\ log'[i].seq = damagedSeq' /\ FirstBreak(i)'
<1>1. DOMAIN log = 1..Len(log) /\ Len(log) \in Nat
  BY LenProperties DEF TypeOK
<1>2. /\ DOMAIN log' = 1..(Len(log) - 1)
      /\ \A j \in 1..(i - 1) : log'[j] = log[j]
      /\ i < Len(log) => log'[i] = log[i + 1]
  BY RowsWithout DEF DeleteRow
<1>3. CASE i = Len(log)
  <2>1. damagedSeq' = 0
    BY <1>3 DEF DeleteRow, Damage
  <2>2. ASSUME NEW j \in DOMAIN log' PROVE ~BreaksAt(j)'
    <3>1. j \in DOMAIN log /\ log'[j] = log[j] /\ (j # 1 => log'[j - 1] = log[j - 1])
      BY <1>1, <1>2, <1>3, <2>2
    <3> QED
      BY <3>1 DEF VerifyOk, BreaksAt, ExpectedPrev
  <2> QED
    BY <2>1, <2>2 DEF VerifyOk
<1>4. CASE i # Len(log)
  <2>1. i + 1 \in DOMAIN log /\ i < Len(log) /\ i \in DOMAIN log' /\ log'[i] = log[i + 1]
    BY <1>1, <1>2, <1>4
  <2>2. /\ log[i] \in Records /\ ExpectedPrev(i) \in Hashes
        /\ log[i].record_hash = RecordHash(ExpectedPrev(i), log[i].body)
    BY Verified
  <2>3. log[i + 1] \in Records /\ log[i + 1].prev_hash = ExpectedPrev(i + 1)
    BY <2>1, Verified
  <2>4. log[i + 1].prev_hash = log[i].record_hash
    BY <1>1, <2>3 DEF ExpectedPrev
  <2>5. damagedSeq' = log[i + 1].seq /\ damagedSeq' # 0
    BY <1>4, <2>3 DEF DeleteRow, Damage, Records
  <2>6. ExpectedPrev(i)' = ExpectedPrev(i)
    BY <1>1, <1>2 DEF ExpectedPrev
  <2>7. log[i].body \in Bodies
    BY <2>2 DEF Records
  <2>8. BreaksAt(i)'
    BY <2>1, <2>2, <2>4, <2>6, <2>7, HashGrows DEF BreaksAt
  <2> QED
    BY <1>2, <2>1, <2>5, <2>8, BreaksFirst
<1> QED
  BY <1>3, <1>4

\* What was located stays located: appending links to the last row, changed or not.  The
\* ways the rows change are those of the ledger alone and of the file sessions share.
LEMMA LocationStays ==
    ASSUME ChainInv, DamageIsLocated,
           \/ UNCHANGED <<log, damages, damagedSeq>>
           \/ \E p \in Appenders : AppendInMemory(p) \/ Commit(p)
           \/ \E i \in DOMAIN log : Outside(i)
    PROVE  DamageIsLocated'
<1>0. TypeOK /\ log \in Seq(Records) /\ DOMAIN log = 1..Len(log)
  BY LenProperties DEF ChainInv, TypeOK
<1>1. CASE UNCHANGED <<log, damages, damagedSeq>>
  BY <1>1 DEF DamageIsLocated, VerifyOk, FirstBreak, BreaksAt, ExpectedPrev
<1>2. ASSUME NEW p \in Appenders, AppendInMemory(p) \/ Commit(p) PROVE DamageIsLocated'
  <2>1. PICK body \in Bodies : Insert(NewRecord(LastHash, body))
    <3>1. append[p].body \in Bodies
      BY <1>0 DEF TypeOK, Appends
    <3>2. Commit(p) => append[p].base = LastHash
      BY DEF Commit, ChainInv, LockHeld
    <3> QED
      BY <1>2, <3>1, <3>2 DEF AppendInMemory, Commit
  <2>2. UNCHANGED <<damages, damagedSeq>>
    BY <1>2 DEF AppendInMemory, Commit
  <2>3. /\ \A i \in DOMAIN log : i \in DOMAIN log' /\ log'[i] = log[i]
        /\ \A i \in DOMAIN log : BreaksAt(i)' <=> BreaksAt(i)
        /\ \A i \in DOMAIN log' \ DOMAIN log : ~BreaksAt(i)'
    BY <1>0, <2>1, InsertLinks
  <2>4. VerifyOk => VerifyOk'
    BY <2>3 DEF VerifyOk
  <2>5. ASSUME NEW i \in DOMAIN log, FirstBreak(i) PROVE FirstBreak(i)'
    <3>1. \A j \in 1..(i - 1) : j \in DOMAIN log
      BY <1>0, <2>5
    <3> QED
      BY <2>3, <2>5, <3>1 DEF FirstBreak
  <2> QED
    BY <2>2, <2>3, <2>4, <2>5 DEF DamageIsLocated
<1>3. ASSUME NEW i \in DOMAIN log, Outside(i) PROVE DamageIsLocated'
  <2>1. damages' = damages + 1 /\ damages \in Nat
    BY <1>0, <1>3 DEF Outside, EditRow, DeleteRow, SwapRows, Damage, TypeOK
  <2>2. CASE damages # 0
    BY <2>1, <2>2 DEF DamageIsLocated
  <2>3. CASE damages = 0
    <3>1. VerifyOk
      BY <2>3 DEF ChainInv, UntouchedLogVerifies
    <3>2. log[i].seq # 0
      <4>1. log[i] \in Records
        BY <1>0, ElementOfSeq
      <4> QED
        BY <4>1 DEF Records
    <3>3. CASE EditRow(i) \/ SwapRows(i)
      <4>1. /\ damagedSeq' # 0 /\ i \in DOMAIN log' /\ log'[i].seq = damagedSeq'
            /\ FirstBreak(i)'
        BY <1>0, <3>1, <3>2, <3>3, EditIsLocated, SwapIsLocated
      <4> QED
        BY <4>1 DEF DamageIsLocated
    <3>4. CASE DeleteRow(i)
      BY <1>0, <3>1, <3>4, DeletionIsLocated DEF DamageIsLocated
    <3> QED
      BY <1>3, <3>3, <3>4 DEF Outside
  <2> QED
    BY <2>2, <2>3
<1> QED
  BY <1>1, <1>2, <1>3

\* The first change an outsider makes to an intact ledger is located: verification breaks
\* first at the changed row, or at the successor of the deleted one, however many rows are
\* appended later.  Only the deletion of the last row leaves a chain that verifies.
THEOREM DamageLocated == Spec => []DamageIsLocated
<1>1. Init => ChainInv /\ DamageIsLocated
  BY ChainInit DEF Init, DamageIsLocated
<1>2. ChainInv /\ DamageIsLocated /\ [Next]_vars => (ChainInv /\ DamageIsLocated)'
  <2> SUFFICES ASSUME ChainInv, DamageIsLocated, [Next]_vars
               PROVE  (ChainInv /\ DamageIsLocated)'
    OBVIOUS
  <2>1. \/ UNCHANGED <<log, damages, damagedSeq>>
        \/ \E p \in Appenders : AppendInMemory(p) \/ Commit(p)
        \/ \E i \in DOMAIN log : Outside(i)
    BY DEF Next, Appending, Request, Begin, Busy, ReadLast, Rollback, vars
  <2> QED
    BY <2>1, ChainStep, LocationStays
<1> QED
  BY <1>1, <1>2, PTL DEF Spec

-----------------------------------------------------------------------------
(* The shared file. *)

DoneBefore(v, step) == {Statements[v][i] : i \in 1..(step - 1)}

\* An append belongs to the command at its "append" step, and a migration to the process
\* that holds the lock, which has seen the schema as it still is.
Local(p) ==
    /\ append[p].pc # "idle" => AtWork(p, "append")
    /\ session[p].applied \subseteq schema.versions
    /\ session[p].pc \in {"begin", "migrate"} =>
           session[p].version \in Versions /\ (session[p].version = 2 => 1 \in schema.versions)
    /\ session[p].pc = "migrate" =>
           /\ writer = p
           /\ session[p].step \in 1..(Len(Statements[session[p].version]) + 1)
           /\ work = [parts |-> schema.parts \cup DoneBefore(session[p].version, session[p].step),
                      versions |-> schema.versions]

SchemaOK ==
    /\ schema \in [parts : SUBSET (PartsOf(1) \cup PartsOf(2)), versions : SUBSET Versions]
    /\ MigrationsAreAtomic

SharedInv ==
    /\ ChainInv
    /\ session \in [Appenders -> Sessions]
    /\ SchemaOK
    /\ \A p \in Appenders : Local(p)

\* What the two migrations consist of.
LEMMA StatementFacts ==
    /\ Versions = {1, 2}
    /\ Statements[1] = <<"schema_migrations", "tables">>
    /\ Len(Statements[1]) = 2 /\ Len(Statements[2]) = 4
    /\ PartsOf(1) = {"schema_migrations", "tables"}
    /\ PartsOf(2) = {Statements[2][1], Statements[2][2], Statements[2][3], Statements[2][4]}
    /\ \A i \in 1..4 : Statements[2][i] \notin Repeatable
<1>1. Versions = {1, 2}
  BY DEF Versions, Statements
<1>2. /\ Len(Statements[1]) = 2 /\ DOMAIN Statements[1] = {1, 2}
      /\ Statements[1][1] = "schema_migrations" /\ Statements[1][2] = "tables"
      /\ Statements[1] = <<"schema_migrations", "tables">>
  BY DEF Statements
<1>3. /\ Len(Statements[2]) = 4 /\ DOMAIN Statements[2] = {1, 2, 3, 4}
      /\ \A i \in 1..4 : Statements[2][i] \notin Repeatable
  BY DEF Statements, Repeatable
<1> QED
  BY <1>1, <1>2, <1>3 DEF PartsOf

\* The next migration is one that was not recorded; the second comes when the first is there.
LEMMA PendingFacts ==
    ASSUME NEW applied, NEW v \in 0..2
    PROVE  /\ Pending(applied, v) \in 0..2
           /\ Pending(applied, v) = 2 => v = 1 \/ 1 \in applied
<1> DEFINE missing == {w \in Versions : w > v /\ w \notin applied}
<1>1. missing \subseteq {1, 2}
  BY StatementFacts
<1>2. CASE missing = {}
  BY <1>2 DEF Pending
<1>3. CASE missing # {}
  <2>1. \E w \in missing : \A x \in missing : w <= x
    BY <1>1, <1>3
  <2>2. Pending(applied, v) = CHOOSE w \in missing : \A x \in missing : w <= x
    BY <1>3 DEF Pending
  <2>3. Pending(applied, v) \in missing /\ \A x \in missing : Pending(applied, v) <= x
    BY <2>1, <2>2
  <2>4. Pending(applied, v) = 2 => 1 \notin missing
    BY <2>3
  <2> QED
    BY <1>1, <2>3, <2>4, StatementFacts
<1> QED
  BY <1>2, <1>3

TodoSteps == {"save", "append", "decide", "verify", "inspect"}

\* The work of a command is a sequence of its steps.
LEMMA WorkType == \A command : WorkOf(command) \in Seq(TodoSteps)
<1>1. /\ <<>> \in Seq(TodoSteps) /\ <<"verify">> \in Seq(TodoSteps)
      /\ <<"inspect">> \in Seq(TodoSteps)
      /\ <<"save", "append", "decide", "append">> \in Seq(TodoSteps)
  BY DEF TodoSteps
<1> QED
  BY <1>1 DEF WorkOf

\* A field of a session can change on its own.
LEMMA FieldTypes ==
    \A s \in Sessions :
        /\ \A pc \in {"off", "journal", "ensure", "select", "begin", "migrate", "ready"} :
               [s EXCEPT !.pc = pc] \in Sessions
        /\ \A version \in 0..2 : [s EXCEPT !.version = version] \in Sessions
        /\ \A step \in 0..5 : [s EXCEPT !.step = step] \in Sessions
        /\ \A applied \in SUBSET {1, 2} : [s EXCEPT !.applied = applied] \in Sessions
        /\ \A code \in {0, 1, 2} : [s EXCEPT !.exit = code] \in Sessions
        /\ [s EXCEPT !.store = "opened"] \in Sessions
        /\ \A contended \in BOOLEAN : [s EXCEPT !.contended = contended] \in Sessions
        /\ \A todo \in Seq(TodoSteps) : [s EXCEPT !.todo = todo] \in Sessions
<1> SUFFICES ASSUME NEW s \in Sessions
             PROVE  /\ \A pc \in {"off", "journal", "ensure", "select", "begin", "migrate", "ready"} :
                           [s EXCEPT !.pc = pc] \in Sessions
                    /\ \A version \in 0..2 : [s EXCEPT !.version = version] \in Sessions
                    /\ \A step \in 0..5 : [s EXCEPT !.step = step] \in Sessions
                    /\ \A applied \in SUBSET {1, 2} : [s EXCEPT !.applied = applied] \in Sessions
                    /\ \A code \in {0, 1, 2} : [s EXCEPT !.exit = code] \in Sessions
                    /\ [s EXCEPT !.store = "opened"] \in Sessions
                    /\ \A contended \in BOOLEAN : [s EXCEPT !.contended = contended] \in Sessions
                    /\ \A todo \in Seq(TodoSteps) : [s EXCEPT !.todo = todo] \in Sessions
  BY Zenon
<1>1. \A pc \in {"off", "journal", "ensure", "select", "begin", "migrate", "ready"} :
          [s EXCEPT !.pc = pc] \in Sessions
  BY DEF Sessions
<1>2. \A version \in 0..2 : [s EXCEPT !.version = version] \in Sessions
  BY DEF Sessions
<1>3. \A step \in 0..5 : [s EXCEPT !.step = step] \in Sessions
  BY DEF Sessions
<1>4. \A applied \in SUBSET {1, 2} : [s EXCEPT !.applied = applied] \in Sessions
  BY DEF Sessions
<1>5. \A code \in {0, 1, 2} : [s EXCEPT !.exit = code] \in Sessions
  BY DEF Sessions
<1>6. [s EXCEPT !.store = "opened"] \in Sessions
  BY DEF Sessions
<1>7. \A contended \in BOOLEAN : [s EXCEPT !.contended = contended] \in Sessions
  BY DEF Sessions
<1>8. \A todo \in Seq(TodoSteps) : [s EXCEPT !.todo = todo] \in Sessions
  BY DEF Sessions, TodoSteps
<1> QED
  BY <1>1, <1>2, <1>3, <1>4, <1>5, <1>6, <1>7, <1>8, Zenon

\* A process that ended has an idle session with an exit code.
LEMMA EndedType == Idle \in Sessions /\ \A code \in {0, 1, 2} : [Idle EXCEPT !.exit = code] \in Sessions
<1>1. <<>> \in Seq(TodoSteps)
  BY EmptySeq
<1>2. Idle \in Sessions
  BY <1>1 DEF Idle, Sessions, TodoSteps, NoExit
<1> QED
  BY <1>2, FieldTypes, Zenon

\* Going on with the next migration, or with the work, gives a session.
LEMMA ProceedsType ==
    ASSUME NEW s \in Sessions, NEW version \in 0..2
    PROVE  Proceeds(s, version) \in Sessions
<1>1. CASE version # 0
  <2> DEFINE s1 == [s EXCEPT !.pc = "begin"]
             s2 == [s1 EXCEPT !.version = version]
             s3 == [s2 EXCEPT !.step = 0]
  <2>1. 0 \in 0..5
    OBVIOUS
  <2>2. \A r \in Sessions : /\ [r EXCEPT !.pc = "begin"] \in Sessions
                            /\ [r EXCEPT !.version = version] \in Sessions
                            /\ [r EXCEPT !.step = 0] \in Sessions
    BY <2>1, FieldTypes, Zenon
  <2>3. s3 \in Sessions
    BY <2>2, Zenon
  <2>4. Proceeds(s, version) = s3
    BY <1>1, Zenon DEF Proceeds
  <2> QED
    BY <2>3, <2>4, Zenon
<1>2. CASE version = 0
  <2> DEFINE s1 == [s EXCEPT !.pc = "ready"]
             s2 == [s1 EXCEPT !.version = 0]
             s3 == [s2 EXCEPT !.step = 0]
             s4 == [s3 EXCEPT !.applied = {}]
             s5 == [s4 EXCEPT !.store = "opened"]
             s6 == [s5 EXCEPT !.contended = FALSE]
             s7 == [s6 EXCEPT !.todo = WorkOf(s.command)]
  <2>1. 0 \in 0..5 /\ 0 \in 0..2 /\ {} \in SUBSET {1, 2} /\ FALSE \in BOOLEAN
    OBVIOUS
  <2>2. \A r \in Sessions : /\ [r EXCEPT !.pc = "ready"] \in Sessions
                            /\ [r EXCEPT !.version = 0] \in Sessions
                            /\ [r EXCEPT !.step = 0] \in Sessions
                            /\ [r EXCEPT !.applied = {}] \in Sessions
                            /\ [r EXCEPT !.store = "opened"] \in Sessions
                            /\ [r EXCEPT !.contended = FALSE] \in Sessions
                            /\ [r EXCEPT !.todo = WorkOf(s.command)] \in Sessions
    BY <2>1, FieldTypes, WorkType, Zenon
  <2>3. s7 \in Sessions
    BY <2>2, Zenon
  <2>4. Proceeds(s, version) = s7
    BY <1>2, Zenon DEF Proceeds
  <2> QED
    BY <2>3, <2>4, Zenon
<1> QED
  BY <1>1, <1>2

\* What Local says of a session.
SameSession(q) ==
    /\ session'[q].pc = session[q].pc
    /\ session'[q].applied = session[q].applied
    /\ session'[q].version = session[q].version
    /\ session'[q].step = session[q].step
    /\ session'[q].todo = session[q].todo

\* A step of another process leaves alone what a process relies on: versions stay
\* recorded, and the schema changes only by the hand that holds the lock.
LEMMA Frame ==
    ASSUME NEW q \in Appenders, Local(q), SameSession(q), append'[q] = append[q],
           schema.versions \subseteq schema'.versions,
           writer = q => writer' = q /\ UNCHANGED <<schema, work>>
    PROVE  Local(q)'
<1>1. append'[q].pc # "idle" => AtWork(q, "append")'
  BY DEF Local, SameSession, AtWork
<1>2. session'[q].applied \subseteq schema'.versions
  BY DEF Local, SameSession
<1>3. session'[q].pc \in {"begin", "migrate"} =>
          session'[q].version \in Versions /\ (session'[q].version = 2 => 1 \in schema'.versions)
  BY DEF Local, SameSession
<1>4. session'[q].pc = "migrate" =>
          /\ writer' = q
          /\ session'[q].step \in 1..(Len(Statements[session'[q].version]) + 1)
          /\ work' = [parts |-> schema'.parts \cup DoneBefore(session'[q].version, session'[q].step),
                      versions |-> schema'.versions]
  BY DEF Local, SameSession
<1> QED
  BY <1>1, <1>2, <1>3, <1>4 DEF Local

\* A step that touches neither the ledger nor the schema.
LEMMA QuietKeeps ==
    ASSUME SharedInv, NEW p \in Appenders, UNCHANGED <<vars, schema, work>>,
           session' \in [Appenders -> Sessions],
           \A q \in Appenders \ {p} : SameSession(q),
           append[p].pc = "idle",
           session'[p].applied \subseteq schema.versions,
           session'[p].pc # "migrate",
           session'[p].pc = "begin" =>
               session'[p].version \in Versions /\ (session'[p].version = 2 => 1 \in schema.versions)
    PROVE  SharedInv'
<1>1. ChainInv'
  BY ChainStep DEF SharedInv
<1>2. SchemaOK'
  BY DEF SharedInv, SchemaOK, MigrationsAreAtomic
<1>3. ASSUME NEW q \in Appenders PROVE Local(q)'
  <2>1. CASE q = p
    BY <2>1 DEF Local, vars
  <2>2. CASE q # p
    BY <2>2, Frame DEF SharedInv, vars
  <2> QED
    BY <2>1, <2>2
<1> QED
  BY <1>1, <1>2, <1>3 DEF SharedInv

\* A command that ends without an append under way.
LEMMA ExitKeeps ==
    ASSUME SharedInv, NEW p \in Appenders, NEW code \in {0, 1, 2}, Exit(p, code),
           append[p].pc = "idle", UNCHANGED <<vars, schema, work>>
    PROVE  SharedInv'
<1>1. session' = [session EXCEPT ![p] = [Idle EXCEPT !.exit = code]]
  BY Zenon DEF Exit
<1>2. [Idle EXCEPT !.exit = code] \in Sessions
  BY EndedType, Zenon
<1>3. /\ [Idle EXCEPT !.exit = code].pc = "off"
      /\ [Idle EXCEPT !.exit = code].applied = {}
  BY DEF Idle
<1>4. session \in [Appenders -> Sessions]
  BY DEF SharedInv
<1> HIDE DEF Idle
<1>5. /\ session' \in [Appenders -> Sessions]
      /\ session'[p].pc = "off" /\ session'[p].applied = {}
      /\ \A q \in Appenders \ {p} : SameSession(q)
  <2> DEFINE ended == [Idle EXCEPT !.exit = code]
  <2> HIDE DEF ended
  <2>1. session' = [session EXCEPT ![p] = ended] /\ ended \in Sessions
        /\ ended.pc = "off" /\ ended.applied = {}
    BY <1>1, <1>2, <1>3, Zenon DEF ended
  <2> QED
    BY <1>4, <2>1 DEF SameSession
<1> QED
  BY <1>5, QuietKeeps

\* No append is under way while the store is opened, nor at another step of the command.
LEMMA OnlyAtAppend ==
    ASSUME SharedInv, NEW p \in Appenders
    PROVE  /\ session[p].pc # "ready" => append[p].pc = "idle"
           /\ session[p].todo = <<>> => append[p].pc = "idle"
           /\ \A step \in TodoSteps \ {"append"} : AtWork(p, step) => append[p].pc = "idle"
  BY DEF SharedInv, Local, AtWork

\* `init`, and a command that starts.
LEMMA StartKeeps ==
    ASSUME SharedInv, NEW p \in Appenders, CmdInit(p) \/ Start(p)
    PROVE  SharedInv'
<1>1. append[p].pc = "idle"
  BY OnlyAtAppend DEF CmdInit, Start, Active
<1>2. CASE CmdInit(p)
  <2>1. \E code \in {0, 2} : Exit(p, code)
    BY <1>2, Zenon DEF CmdInit
  <2>2. UNCHANGED <<vars, schema, work>>
    BY <1>2 DEF CmdInit, KeepLedger
  <2> QED
    BY <1>1, <2>1, <2>2, ExitKeeps
<1>3. CASE Start(p)
  <2>1. UNCHANGED <<vars, schema, work>>
    BY <1>3 DEF Start, KeepLedger, storeVars
  <2>2. CASE \E code \in {1, 2} : Exit(p, code)
    BY <1>1, <2>1, <2>2, ExitKeeps
  <2>3. CASE \E s \in Sessions : s.pc \in {"journal", "ready"} /\ s.applied = {} /\ session' = Started(p, s)
    <3>1. PICK s \in Sessions : s.pc \in {"journal", "ready"} /\ s.applied = {} /\ session' = Started(p, s)
      BY <2>3
    <3>2. \A r \in Sessions : \A contended \in BOOLEAN : [r EXCEPT !.contended = contended] \in Sessions
      BY FieldTypes, Zenon
    <3>3. session \in [Appenders -> Sessions]
      BY DEF SharedInv
    <3>4. /\ session'[p] = [s EXCEPT !.contended = s.store = "opening" /\ \E o \in Appenders \ {p} : Active(o)]
          /\ \A q \in Appenders \ {p} :
                 session'[q] = [session[q] EXCEPT !.contended = @ \/ session[q].store = "opening"]
          /\ session' = [q \in Appenders |-> session'[q]]
      BY <3>1 DEF Started
    <3>5. session'[p] \in Sessions
      BY <3>2, <3>4
    <3>6. ASSUME NEW q \in Appenders \ {p} PROVE session'[q] \in Sessions /\ SameSession(q)
      <4>1. session[q] \in Sessions
        BY <3>3
      <4>2. session[q].contended \in BOOLEAN
        BY <4>1 DEF Sessions
      <4>3. session'[q] \in Sessions
        BY <3>2, <3>4, <4>1
      <4> QED
        BY <3>4, <4>1, <4>3 DEF SameSession, Sessions
    <3>7. session' \in [Appenders -> Sessions]
      BY <3>4, <3>5, <3>6
    <3>8. session'[p].pc \in {"journal", "ready"} /\ session'[p].applied = {}
      BY <3>1, <3>4 DEF Sessions
    <3> QED
      BY <1>1, <2>1, <3>6, <3>7, <3>8, QuietKeeps
  <2> DEFINE Fresh(command) == [Idle EXCEPT !.command = command,
                                            !.damaged = command \in Verifying /\ damagedSeq # 0]
  <2>4. PICK command \in Commands :
            \/ Exit(p, 2)
            \/ Exit(p, InvalidConfigurationExit(command))
            \/ session' = Started(p, [Fresh(command) EXCEPT !.pc = "journal", !.store = "opening"])
            \/ session' = Started(p, [Fresh(command) EXCEPT !.pc = "ready", !.store = "opened",
                                                            !.todo = WorkOf(command)])
    BY <1>3, Zenon DEF Start
  <2>5. Fresh(command) \in Sessions /\ Fresh(command).applied = {}
    <3>1. \A r \in Sessions : [r EXCEPT !.command = command] \in Sessions
      BY DEF Sessions
    <3>2. \A r \in Sessions : \A damaged \in BOOLEAN : [r EXCEPT !.damaged = damaged] \in Sessions
      BY DEF Sessions
    <3>3. (command \in Verifying /\ damagedSeq # 0) \in BOOLEAN
      OBVIOUS
    <3>4. Fresh(command) \in Sessions
      BY <3>1, <3>2, <3>3, EndedType, Zenon
    <3> QED
      BY <3>4 DEF Idle
  <2> HIDE DEF Fresh
  <2> DEFINE opening == [Fresh(command) EXCEPT !.pc = "journal", !.store = "opening"]
             opened == [Fresh(command) EXCEPT !.pc = "ready", !.store = "opened", !.todo = WorkOf(command)]
  <2>6. opening \in Sessions /\ opening.pc = "journal" /\ opening.applied = {}
    BY <2>5 DEF Sessions
  <2>7. opened \in Sessions /\ opened.pc = "ready" /\ opened.applied = {}
    BY <2>5, WorkType DEF Sessions, TodoSteps
  <2>8. InvalidConfigurationExit(command) \in {1, 2}
    BY DEF InvalidConfigurationExit
  <2>9. \/ Exit(p, 2) \/ Exit(p, InvalidConfigurationExit(command))
        \/ session' = Started(p, opening) \/ session' = Started(p, opened)
    BY <2>4, Zenon
  <2> HIDE DEF opening, opened
  <2> QED
    BY <2>2, <2>3, <2>6, <2>7, <2>8, <2>9
<1> QED
  BY <1>2, <1>3

\* A step of p moves the session of p only.
LEMMA Moves ==
    ASSUME SharedInv, NEW p \in Appenders, NEW s \in Sessions, session' = [session EXCEPT ![p] = s]
    PROVE  /\ session' \in [Appenders -> Sessions]
           /\ session'[p] = s
           /\ \A q \in Appenders \ {p} : SameSession(q)
  BY DEF SharedInv, SameSession

\* How an open that fails ends.
LEMMA OpenFailedType == \A command : OpenFailedExit(command) \in {0, 1, 2}
  BY DEF OpenFailedExit

\* The steps of init() before a migration begins.
LEMMA EarlyOpeningKeeps ==
    ASSUME SharedInv, NEW p \in Appenders, SetJournalMode(p) \/ SelectApplied(p) \/ OpenTimesOut(p)
    PROVE  SharedInv'
<1>0. session[p] \in Sessions
  BY DEF SharedInv
<1>1. append[p].pc = "idle" /\ UNCHANGED <<vars, schema, work>>
  BY OnlyAtAppend DEF SetJournalMode, SelectApplied, OpenTimesOut, KeepLedger, storeVars
<1>2. CASE \E code \in {0, 1, 2} : Exit(p, code)
  BY <1>1, <1>2, ExitKeeps
<1>3. CASE SetJournalMode(p)
  <2>1. CASE Goto(p, "ensure")
    <3> DEFINE s == [session[p] EXCEPT !.pc = "ensure"]
    <3>1. session' = [session EXCEPT ![p] = s]
      BY <2>1 DEF Goto
    <3>2. s \in Sessions /\ s.pc = "ensure" /\ s.applied = session[p].applied
      <4>1. s \in Sessions
        BY <1>0, FieldTypes, Zenon
      <4> QED
        BY <1>0, <4>1 DEF Sessions
    <3>3. s.applied \subseteq schema.versions
      BY <3>2 DEF SharedInv, Local
    <3> HIDE DEF s
    <3> QED
      BY <1>1, <3>1, <3>2, <3>3, Moves, QuietKeeps
  <2> QED
    BY <1>2, <1>3, <2>1, OpenFailedType DEF SetJournalMode
<1>4. CASE SelectApplied(p)
  <2> DEFINE read == [session[p] EXCEPT !.applied = AppliedVersions]
             s == Proceeds(read, Pending(AppliedVersions, 0))
  <2>1. schema.versions \subseteq Versions /\ AppliedVersions \in SUBSET {1, 2}
    BY StatementFacts DEF SharedInv, SchemaOK, AppliedVersions
  <2>2. read \in Sessions /\ read.applied = schema.versions
    <3>1. read \in Sessions
      BY <1>0, <2>1, FieldTypes, Zenon
    <3> QED
      BY <1>0, <3>1 DEF Sessions, AppliedVersions
  <2>3. session' = [session EXCEPT ![p] = s]
    BY <1>4 DEF SelectApplied
  <2>4. /\ Pending(AppliedVersions, 0) \in 0..2
        /\ Pending(AppliedVersions, 0) = 2 => 1 \in schema.versions
    BY PendingFacts DEF AppliedVersions
  <2>5. s \in Sessions
    BY <2>2, <2>4, ProceedsType
  <2> HIDE DEF read
  <2>6. /\ s.pc \in {"ready", "begin"}
        /\ s.applied \subseteq schema.versions
        /\ s.pc = "begin" => s.version = Pending(AppliedVersions, 0) /\ s.version # 0
    BY <2>2 DEF Proceeds, Sessions
  <2> HIDE DEF s
  <2>7. s.pc = "begin" => s.version \in Versions /\ (s.version = 2 => 1 \in schema.versions)
    BY <2>4, <2>6, StatementFacts
  <2>8. s.pc # "migrate"
    BY <2>6
  <2>9. /\ session' \in [Appenders -> Sessions]
        /\ session'[p] = s
        /\ \A q \in Appenders \ {p} : SameSession(q)
    BY <2>3, <2>5, Moves
  <2> QED
    BY <1>1, <2>6, <2>7, <2>8, <2>9, QuietKeeps
<1>5. CASE OpenTimesOut(p)
  BY <1>2, <1>5, OpenFailedType DEF OpenTimesOut
<1> QED
  BY <1>3, <1>4, <1>5

\* The lock of a new file is free while the table of versions is created.
LEMMA EnsureKeeps ==
    ASSUME SharedInv, NEW p \in Appenders, EnsureMigrationsTable(p)
    PROVE  SharedInv'
<1>0. session[p] \in Sessions /\ UNCHANGED <<vars, work>>
  BY DEF SharedInv, EnsureMigrationsTable, KeepLedger
<1> DEFINE s == [session[p] EXCEPT !.pc = "select"]
<1>1. session' = [session EXCEPT ![p] = s]
  BY DEF EnsureMigrationsTable, Goto
<1>2. s \in Sessions /\ s.pc = "select" /\ s.applied = session[p].applied
  <2>1. s \in Sessions
    BY <1>0, FieldTypes, Zenon
  <2> QED
    BY <1>0, <2>1 DEF Sessions
<1> HIDE DEF s
<1>3. ChainInv'
  BY <1>0, ChainStep DEF SharedInv
<1>4. /\ schema'.versions = schema.versions
      /\ schema'.parts = schema.parts \cup {"schema_migrations"}
      /\ schema' \in [parts : SUBSET (PartsOf(1) \cup PartsOf(2)), versions : SUBSET Versions]
  BY StatementFacts DEF EnsureMigrationsTable, SharedInv, SchemaOK
<1>5. "schema_migrations" \notin PartsOf(2)
  BY StatementFacts DEF Repeatable
<1>6. SchemaOK'
  BY <1>4, <1>5, StatementFacts DEF SharedInv, SchemaOK, MigrationsAreAtomic
<1>7. \A q \in Appenders : writer = q => schema' = schema
  BY AuditChainAssumption DEF EnsureMigrationsTable, SharedInv, SchemaOK
<1>8. Local(p)'
  <2>1. append[p].pc = "idle"
    BY OnlyAtAppend DEF EnsureMigrationsTable
  <2>2. session[p].applied \subseteq schema.versions
    BY DEF SharedInv, Local
  <2> QED
    BY <1>0, <1>1, <1>2, <1>4, <2>1, <2>2, Moves DEF Local, vars
<1>9. ASSUME NEW q \in Appenders \ {p} PROVE Local(q)'
  BY <1>0, <1>1, <1>2, <1>4, <1>7, Moves, Frame DEF SharedInv, vars
<1> QED
  BY <1>1, <1>2, <1>3, <1>6, <1>8, <1>9, Moves DEF SharedInv

\* While a process migrates nobody else is in a transaction, nor migrates.
LEMMA Alone ==
    ASSUME SharedInv
    PROVE  /\ \A p \in Appenders : session[p].pc = "migrate" =>
                  /\ writer = p
                  /\ \A q \in Appenders : ~InTransaction(q)
           /\ writer = NoAppender =>
                  \A q \in Appenders : ~InTransaction(q) /\ session[q].pc # "migrate"
<1>1. \A q \in Appenders : session[q].pc = "migrate" => writer = q
  BY DEF SharedInv, Local
<1>2. \A q \in Appenders : InTransaction(q) => writer = q
  BY DEF SharedInv, ChainInv, LockHeld
<1>3. \A q \in Appenders : session[q].pc = "migrate" => ~InTransaction(q)
  BY OnlyAtAppend DEF InTransaction
<1> QED
  BY <1>1, <1>2, <1>3, AuditChainAssumption

\* Taking or giving back the lock between transactions disturbs no append.
LEMMA LockMoves ==
    ASSUME SharedInv, \A q \in Appenders : ~InTransaction(q),
           writer' \in Appenders \cup {NoAppender},
           UNCHANGED <<backend, log, lastSeq, append, damages, damagedSeq>>
    PROVE  ChainInv'
  BY DEF SharedInv, ChainInv, TypeOK, LockHeld, InTransaction, UntouchedLogVerifies, VerifyOk,
     BreaksAt, ExpectedPrev, LastHash

\* A migration takes the lock and sees the schema as it is.
LEMMA BeginKeeps ==
    ASSUME SharedInv, NEW p \in Appenders, BeginMigration(p)
    PROVE  SharedInv'
<1> DEFINE s == [session[p] EXCEPT !.pc = "migrate", !.step = 1]
<1>0. session[p] \in Sessions
  BY DEF SharedInv
<1>1. session' = [session EXCEPT ![p] = s]
  BY <1>0 DEF BeginMigration, SharedInv
<1>2. /\ s \in Sessions /\ s.pc = "migrate" /\ s.step = 1
      /\ s.applied = session[p].applied /\ s.version = session[p].version
  <2>1. 1 \in 0..5
    OBVIOUS
  <2>2. s \in Sessions
    BY <1>0, <2>1, FieldTypes, Zenon
  <2> QED
    BY <1>0, <2>2 DEF Sessions
<1> HIDE DEF s
<1>3. /\ session[p].pc = "begin" /\ writer = NoAppender /\ writer' = p /\ work' = schema
      /\ UNCHANGED <<schema, append>>
      /\ UNCHANGED <<backend, log, lastSeq, append, damages, damagedSeq>>
  BY DEF BeginMigration
<1>4. ChainInv'
  BY <1>3, Alone, LockMoves
<1>5. SchemaOK'
  BY <1>3 DEF SharedInv, SchemaOK, MigrationsAreAtomic
<1>6. Local(p)'
  <2>1. append[p].pc = "idle"
    BY <1>3, OnlyAtAppend
  <2>2. /\ session[p].applied \subseteq schema.versions
        /\ session[p].version \in Versions
        /\ session[p].version = 2 => 1 \in schema.versions
    BY <1>3 DEF SharedInv, Local
  <2>3. s.step \in 1..(Len(Statements[s.version]) + 1)
    BY <1>2, <2>2, StatementFacts
  <2>4. DoneBefore(s.version, s.step) = {}
    BY <1>2 DEF DoneBefore
  <2>5. work' = [parts |-> schema'.parts \cup DoneBefore(s.version, s.step), versions |-> schema'.versions]
    BY <1>3, <2>4 DEF SharedInv, SchemaOK
  <2>6. session'[p] = s
    BY <1>1, <1>2, Moves
  <2> QED
    BY <1>2, <1>3, <2>1, <2>2, <2>3, <2>5, <2>6 DEF Local
<1>7. ASSUME NEW q \in Appenders \ {p} PROVE Local(q)'
  BY <1>1, <1>2, <1>3, Moves, Frame, AuditChainAssumption DEF SharedInv
<1> QED
  BY <1>1, <1>2, <1>4, <1>5, <1>6, <1>7, Moves DEF SharedInv

\* A statement takes effect in the transaction alone.
LEMMA StatementKeeps ==
    ASSUME SharedInv, NEW p \in Appenders, ExecuteStatement(p)
    PROVE  SharedInv'
<1>0. /\ session[p] \in Sessions /\ session[p].pc = "migrate"
      /\ UNCHANGED <<schema, vars>> /\ writer = p
  BY Alone DEF SharedInv, ExecuteStatement, KeepLedger
<1>1. /\ session[p].version \in {1, 2} /\ session[p].step \in 1..Len(Statements[session[p].version])
      /\ session[p].step \in 1..4
      /\ session[p].version = 2 => 1 \in schema.versions
      /\ session[p].applied \subseteq schema.versions
      /\ append[p].pc = "idle"
  <2>1. /\ session[p].version \in {1, 2} /\ session[p].step \in 1..(Len(Statements[session[p].version]) + 1)
        /\ session[p].version = 2 => 1 \in schema.versions
        /\ session[p].applied \subseteq schema.versions
    BY <1>0, StatementFacts DEF SharedInv, Local
  <2>2. ~(session[p].step > Len(Statements[session[p].version]))
    BY DEF ExecuteStatement, AtRecording
  <2>3. PICK n \in {2, 4} : n = Len(Statements[session[p].version])
    BY <2>1, StatementFacts
  <2>4. session[p].step \in 1..(n + 1) /\ ~(session[p].step > n)
    BY <2>1, <2>2, <2>3
  <2>5. session[p].step \in 1..n /\ session[p].step \in 1..4
    BY <2>4
  <2>6. append[p].pc = "idle"
    BY <1>0, OnlyAtAppend
  <2> QED
    BY <2>1, <2>3, <2>5, <2>6
<1> DEFINE next == session[p].step + 1
           s == [session[p] EXCEPT !.step = next]
<1>2. session' = [session EXCEPT ![p] = s]
  BY <1>0 DEF ExecuteStatement, SharedInv
<1>3. /\ s \in Sessions /\ s.pc = "migrate" /\ s.step = next
      /\ s.applied = session[p].applied /\ s.version = session[p].version
  <2>1. next \in 0..5
    BY <1>1
  <2>2. s \in Sessions
    BY <1>0, <2>1, FieldTypes, Zenon
  <2> QED
    BY <1>0, <2>2 DEF Sessions
<1>4. work' = [parts |-> schema'.parts \cup DoneBefore(s.version, s.step), versions |-> schema'.versions]
  <2>1. DoneBefore(s.version, s.step) = DoneBefore(session[p].version, session[p].step) \cup {Statement(p)}
    BY <1>1, <1>3 DEF DoneBefore, Statement
  <2>2. work = [parts |-> schema.parts \cup DoneBefore(session[p].version, session[p].step),
                versions |-> schema.versions]
    BY <1>0 DEF SharedInv, Local
  <2>3. work' = [parts |-> work.parts \cup {Statement(p)}, versions |-> work.versions]
    BY <2>2 DEF ExecuteStatement
  <2> QED
    BY <1>0, <2>1, <2>2, <2>3
<1>5. s.step \in 1..(Len(Statements[s.version]) + 1)
  BY <1>1, <1>3, StatementFacts
<1> HIDE DEF s
<1>6. ChainInv'
  BY <1>0, ChainStep DEF SharedInv
<1>7. SchemaOK'
  BY <1>0 DEF SharedInv, SchemaOK, MigrationsAreAtomic
<1>8. Local(p)'
  <2>1. session'[p] = s
    BY <1>2, <1>3, Moves
  <2> QED
    BY <1>0, <1>1, <1>3, <1>4, <1>5, <2>1, StatementFacts DEF Local, vars
<1>9. ASSUME NEW q \in Appenders \ {p} PROVE Local(q)'
  BY <1>0, <1>2, <1>3, Moves, Frame DEF SharedInv, vars
<1> QED
  BY <1>2, <1>3, <1>6, <1>7, <1>8, <1>9, Moves DEF SharedInv

\* A migration that fails leaves the schema as it was.
LEMMA MigrationFailsKeeps ==
    ASSUME SharedInv, NEW p \in Appenders, MigrationFails(p)
    PROVE  SharedInv'
<1>1. /\ session[p].pc = "migrate" /\ writer' = NoAppender
      /\ UNCHANGED schema
      /\ UNCHANGED <<backend, log, lastSeq, append, damages, damagedSeq>>
      /\ Exit(p, OpenFailedExit(session[p].command))
  BY DEF MigrationFails
<1>2. writer = p /\ \A q \in Appenders : ~InTransaction(q)
  BY <1>1, Alone
<1> DEFINE s == [Idle EXCEPT !.exit = OpenFailedExit(session[p].command)]
<1>3. session' = [session EXCEPT ![p] = s]
  BY <1>1, Zenon DEF Exit
<1>4. s \in Sessions /\ s.pc = "off" /\ s.applied = {}
  <2>1. s \in Sessions
    BY EndedType, OpenFailedType, Zenon
  <2> QED
    BY <2>1 DEF Idle
<1> HIDE DEF s
<1>5. ChainInv'
  BY <1>1, <1>2, LockMoves
<1>6. SchemaOK'
  BY <1>1 DEF SharedInv, SchemaOK, MigrationsAreAtomic
<1>7. Local(p)'
  <2>1. append[p].pc = "idle"
    BY <1>1, OnlyAtAppend
  <2>2. session'[p] = s
    BY <1>3, <1>4, Moves
  <2> QED
    BY <1>1, <1>4, <2>1, <2>2 DEF Local
<1>8. ASSUME NEW q \in Appenders \ {p} PROVE Local(q)'
  BY <1>1, <1>2, <1>3, <1>4, Moves, Frame DEF SharedInv
<1> QED
  BY <1>3, <1>4, <1>5, <1>6, <1>7, <1>8, Moves DEF SharedInv

\* A committed migration is there as a whole: it reached its last statement, and held
\* the lock since it saw the schema.
LEMMA CommitKeeps ==
    ASSUME SharedInv, NEW p \in Appenders, CommitMigration(p)
    PROVE  SharedInv'
<1>1. /\ session[p].pc = "migrate" /\ writer' = NoAppender
      /\ schema' = [work EXCEPT !.versions = @ \cup {session[p].version}]
      /\ UNCHANGED <<backend, log, lastSeq, append, damages, damagedSeq>>
      /\ session' = [session EXCEPT ![p] = Proceeds(@, Pending(@.applied, @.version))]
      /\ session[p].step > Len(Statements[session[p].version])
  BY DEF CommitMigration, AtRecording
<1>2. /\ writer = p /\ append[p].pc = "idle"
      /\ \A q \in Appenders : ~InTransaction(q)
      /\ session[p] \in Sessions
  BY <1>1, Alone, OnlyAtAppend DEF SharedInv
<1>3. /\ session[p].version \in {1, 2}
      /\ session[p].version = 2 => 1 \in schema.versions
      /\ session[p].applied \subseteq schema.versions
      /\ session[p].step \in 1..(Len(Statements[session[p].version]) + 1)
      /\ work = [parts |-> schema.parts \cup DoneBefore(session[p].version, session[p].step),
                 versions |-> schema.versions]
  BY <1>1, StatementFacts DEF SharedInv, Local
<1>4. DoneBefore(session[p].version, session[p].step) = PartsOf(session[p].version)
  <2>1. PICK n \in {2, 4} : n = Len(Statements[session[p].version])
    BY <1>3, StatementFacts
  <2>2. session[p].step = n + 1
    BY <1>1, <1>3, <2>1
  <2>3. DOMAIN Statements[session[p].version] = 1..n
    BY <1>3, <2>1 DEF Statements
  <2>4. session[p].step - 1 = n
    BY <2>2
  <2> QED
    BY <2>3, <2>4 DEF DoneBefore, PartsOf
<1>5. schema' = [parts |-> schema.parts \cup PartsOf(session[p].version),
                 versions |-> schema.versions \cup {session[p].version}]
  BY <1>1, <1>3, <1>4
<1>6. SchemaOK'
  <2>1. /\ schema.parts \subseteq PartsOf(1) \cup PartsOf(2) /\ schema.versions \subseteq Versions
        /\ MigrationsAreAtomic
    BY DEF SharedInv, SchemaOK
  <2>2. schema' \in [parts : SUBSET (PartsOf(1) \cup PartsOf(2)), versions : SUBSET Versions]
    BY <1>3, <1>5, <2>1, StatementFacts
  <2>3. PartsOf(1) \cap PartsOf(2) = {} /\ "tables" \in PartsOf(1) /\ PartsOf(2) # {}
    BY StatementFacts DEF Repeatable
  <2>4. MigrationsAreAtomic'
    <3>1. CASE session[p].version = 1
      BY <1>5, <2>1, <2>3, <3>1 DEF MigrationsAreAtomic
    <3>2. CASE session[p].version = 2
      BY <1>3, <1>5, <2>1, <2>3, <3>2 DEF MigrationsAreAtomic
    <3> QED
      BY <1>3, <3>1, <3>2
  <2> QED
    BY <2>2, <2>4 DEF SchemaOK
<1> DEFINE pending == Pending(session[p].applied, session[p].version)
           s == Proceeds(session[p], pending)
<1>7. session' = [session EXCEPT ![p] = s]
  BY <1>1
<1>8. pending \in 0..2 /\ (pending = 2 => session[p].version = 1 \/ 1 \in session[p].applied)
  BY <1>3, PendingFacts
<1> HIDE DEF pending
<1>9. s \in Sessions
  BY <1>2, <1>8, ProceedsType
<1>10. /\ s.pc \in {"ready", "begin"}
       /\ s.applied \subseteq session[p].applied
       /\ s.pc = "begin" => s.version = pending /\ s.version # 0
  <2>1. CASE pending = 0
    BY <1>2, <1>9, <2>1 DEF Proceeds, Sessions
  <2>2. CASE pending # 0
    BY <1>2, <1>9, <2>2 DEF Proceeds, Sessions
  <2> QED
    BY <2>1, <2>2
<1> HIDE DEF s
<1>11. ChainInv'
  BY <1>1, <1>2, LockMoves
<1>12. Local(p)'
  <2>1. session'[p] = s
    BY <1>7, <1>9, Moves
  <2>2. s.pc = "begin" => s.version \in Versions /\ (s.version = 2 => 1 \in schema'.versions)
    BY <1>3, <1>5, <1>8, <1>10, StatementFacts
  <2> QED
    BY <1>1, <1>2, <1>3, <1>5, <1>10, <2>1, <2>2 DEF Local
<1>13. ASSUME NEW q \in Appenders \ {p} PROVE Local(q)'
  <2>1. SameSession(q)
    BY <1>7, <1>9, Moves
  <2>2. schema.versions \subseteq schema'.versions /\ writer # q /\ append'[q] = append[q]
    BY <1>1, <1>2, <1>5
  <2> QED
    BY <2>1, <2>2, Frame DEF SharedInv
<1> QED
  BY <1>6, <1>7, <1>9, <1>11, <1>12, <1>13, Moves DEF SharedInv

\* The steps of a command that append nothing.
LEMMA QuietWorkKeeps ==
    ASSUME SharedInv, NEW p \in Appenders,
           \/ SaveAction(p) \/ SaveDecision(p) \/ SaveFails(p)
           \/ VerifyLedger(p) \/ Inspect(p) \/ Finish(p)
    PROVE  SharedInv'
<1>0. session[p] \in Sessions /\ session[p].pc = "ready" /\ UNCHANGED <<vars, schema, work>>
  BY DEF SharedInv, SaveAction, SaveDecision, SaveFails, VerifyLedger, Inspect, Finish, AtWork,
     KeepLedger, storeVars
<1>1. append[p].pc = "idle"
  BY OnlyAtAppend
     DEF SaveAction, SaveDecision, SaveFails, VerifyLedger, Inspect, Finish, AtWork, TodoSteps
<1>2. CASE \E code \in {0, 1, 2} : Exit(p, code)
  BY <1>0, <1>1, <1>2, ExitKeeps
<1>3. session[p].applied \subseteq schema.versions
  BY DEF SharedInv, Local
<1>4. session[p].todo # <<>> => Tail(session[p].todo) \in Seq(TodoSteps)
  BY <1>0, HeadTailProperties DEF Sessions, TodoSteps
<1>5. ASSUME NEW s \in Sessions, s.pc = "ready", s.applied = session[p].applied,
             session' = [session EXCEPT ![p] = s]
      PROVE  SharedInv'
  BY <1>0, <1>1, <1>3, <1>5, Moves, QuietKeeps
<1>6. CASE SaveAction(p)
  <2> DEFINE s == [session[p] EXCEPT !.todo = Tail(session[p].todo)]
  <2>1. s \in Sessions
    BY <1>0, <1>4, <1>6, FieldTypes, Zenon DEF SaveAction, AtWork
  <2>2. s.pc = "ready" /\ s.applied = session[p].applied
    BY <1>0, <2>1 DEF Sessions
  <2>3. session' = [session EXCEPT ![p] = s]
    BY <1>6 DEF SaveAction, Done
  <2> QED
    BY <1>5, <2>1, <2>2, <2>3
<1>7. CASE SaveDecision(p)
  <2>1. PICK decided \in Decisions, observing \in BOOLEAN :
            session' = [session EXCEPT ![p].todo = Tail(session[p].todo), ![p].decided = decided,
                                       ![p].observing = observing]
    BY <1>7 DEF SaveDecision
  <2> DEFINE s1 == [session[p] EXCEPT !.todo = Tail(session[p].todo)]
             s2 == [s1 EXCEPT !.decided = decided]
             s3 == [s2 EXCEPT !.observing = observing]
  <2>2. s1 \in Sessions
    BY <1>0, <1>4, <1>7, FieldTypes, Zenon DEF SaveDecision, AtWork
  <2>3. s1.pc = "ready" /\ s1.applied = session[p].applied
    BY <1>0, <2>2 DEF Sessions
  <2>4. session' = [session EXCEPT ![p] = s3]
    BY <1>0, <2>1 DEF SharedInv
  <2> HIDE DEF s1
  <2>5. s3 \in Sessions /\ s3.pc = "ready" /\ s3.applied = session[p].applied
    <3>1. s2 \in Sessions /\ s2.pc = "ready" /\ s2.applied = session[p].applied
      BY <2>2, <2>3 DEF Sessions
    <3> HIDE DEF s2
    <3> QED
      BY <3>1 DEF Sessions
  <2> QED
    BY <1>5, <2>4, <2>5
<1>8. CASE SaveFails(p)
  BY <1>2, <1>8 DEF SaveFails
<1>9. CASE VerifyLedger(p)
  BY <1>2, <1>9 DEF VerifyLedger, VerificationExit
<1>10. CASE Inspect(p)
  BY <1>2, <1>10 DEF Inspect
<1>11. CASE Finish(p)
  BY <1>2, <1>11 DEF Finish, DecisionExit
<1> QED
  BY <1>6, <1>7, <1>8, <1>9, <1>10, <1>11

\* An append, of a process whose session is at that step.
LEMMA AppendSteps ==
    ASSUME SharedInv, NEW p \in Appenders,
           Request(p) \/ Begin(p) \/ ReadLast(p) \/ AppendInMemory(p) \/ Commit(p) \/ Busy(p) \/ Rollback(p)
    PROVE  /\ ChainInv'
           /\ \A q \in Appenders \ {p} : append'[q] = append[q]
           /\ AppendInMemory(p) \/ Commit(p) \/ Busy(p) \/ Rollback(p) => append'[p].pc = "idle"
           /\ \A q \in Appenders \ {p} : writer = q => writer' = q
           /\ session[p].pc = "ready" \/ append[p].pc = "idle"
<1>1. ChainInv'
  BY ChainStep DEF SharedInv, Next, Appending
<1>2. append \in [Appenders -> Appends]
  BY DEF SharedInv, ChainInv, TypeOK
<1>3. \A q \in Appenders \ {p} : append'[q] = append[q]
  BY <1>2 DEF Request, Begin, ReadLast, AppendInMemory, Commit, Busy, Rollback, Ends
<1>4. AppendInMemory(p) \/ Commit(p) \/ Busy(p) \/ Rollback(p) => append'[p].pc = "idle"
  BY <1>2 DEF AppendInMemory, Commit, Busy, Rollback, Ends, NoAppend
<1>5. ASSUME NEW q \in Appenders \ {p}, writer = q PROVE writer' = q
  <2>1. ~Begin(p) /\ ~InTransaction(p)
    BY <1>5, AuditChainAssumption DEF Begin, SharedInv, ChainInv, LockHeld
  <2> QED
    BY <1>5, <2>1
       DEF Request, ReadLast, AppendInMemory, Commit, Busy, Rollback, InTransaction
<1>6. session[p].pc = "ready" \/ append[p].pc = "idle"
  BY OnlyAtAppend
<1> QED
  BY <1>1, <1>3, <1>4, <1>5, <1>6

\* A step of an append, with the session of its process where it was or moved on.
LEMMA LedgerKeeps ==
    ASSUME SharedInv, NEW p \in Appenders, ChainInv',
           session' \in [Appenders -> Sessions],
           \A q \in Appenders \ {p} : SameSession(q) /\ append'[q] = append[q],
           \A q \in Appenders \ {p} : writer = q => writer' = q,
           UNCHANGED <<schema, work>>,
           append'[p].pc # "idle" => AtWork(p, "append")',
           session'[p].pc \notin {"begin", "migrate"},
           session'[p].applied \subseteq schema.versions
    PROVE  SharedInv'
<1>1. SchemaOK'
  BY DEF SharedInv, SchemaOK, MigrationsAreAtomic
<1>2. ASSUME NEW q \in Appenders PROVE Local(q)'
  <2>1. CASE q = p
    BY <2>1 DEF Local
  <2>2. CASE q # p
    BY <2>2, Frame DEF SharedInv
  <2> QED
    BY <2>1, <2>2
<1> QED
  BY <1>1, <1>2 DEF SharedInv

\* The engine appends an event: it is under way, committed, or lost with its process.
LEMMA EventKeeps ==
    ASSUME SharedInv, NEW p \in Appenders, AppendEvent(p) \/ EventAppended(p) \/ EventLost(p)
    PROVE  SharedInv'
<1>0. session[p] \in Sessions /\ session[p].applied \subseteq schema.versions
  BY DEF SharedInv, Local
<1>1. UNCHANGED <<schema, work>>
  BY DEF AppendEvent, EventAppended, EventLost, storeVars
<1>2. CASE AppendEvent(p)
  <2>1. Request(p) \/ Begin(p) \/ ReadLast(p)
    BY <1>2 DEF AppendEvent
  <2>2. /\ ChainInv'
        /\ \A q \in Appenders \ {p} : append'[q] = append[q]
        /\ \A q \in Appenders \ {p} : writer = q => writer' = q
    BY <2>1, AppendSteps
  <2>3. UNCHANGED session /\ AtWork(p, "append")
    BY <1>2 DEF AppendEvent
  <2>4. /\ session' \in [Appenders -> Sessions] /\ AtWork(p, "append")'
        /\ session'[p].pc = "ready" /\ session'[p].applied \subseteq schema.versions
        /\ \A q \in Appenders \ {p} : SameSession(q)
    BY <1>0, <2>3 DEF SharedInv, AtWork, SameSession
  <2> QED
    BY <1>1, <2>2, <2>4, LedgerKeeps
<1>3. CASE EventAppended(p)
  <2>1. AppendInMemory(p) \/ Commit(p)
    BY <1>3 DEF EventAppended
  <2>2. /\ ChainInv'
        /\ \A q \in Appenders \ {p} : append'[q] = append[q]
        /\ \A q \in Appenders \ {p} : writer = q => writer' = q
        /\ append'[p].pc = "idle"
    BY <2>1, AppendSteps
  <2>3. append[p].pc # "idle"
    BY <2>1 DEF AppendInMemory, Commit
  <2>4. session[p].pc = "ready" /\ session[p].todo # <<>>
    BY <2>3 DEF SharedInv, Local, AtWork
  <2>5. Tail(session[p].todo) \in Seq(TodoSteps)
    BY <1>0, <2>4, HeadTailProperties DEF Sessions, TodoSteps
  <2> DEFINE s1 == [session[p] EXCEPT !.todo = Tail(session[p].todo)]
             s == [s1 EXCEPT !.recorded = session[p].recorded + 1]
  <2>6. s1 \in Sessions
    BY <1>0, <2>5, FieldTypes, Zenon
  <2>7. s1.pc = "ready" /\ s1.applied = session[p].applied /\ s1.recorded = session[p].recorded
    BY <1>0, <2>4, <2>6 DEF Sessions
  <2>8. session' = [session EXCEPT ![p] = s]
    BY <1>0, <1>3 DEF EventAppended, SharedInv
  <2> HIDE DEF s1
  <2>9. s \in Sessions /\ s.pc = "ready" /\ s.applied = session[p].applied
    <3>1. \A r \in Sessions : \A n \in Nat : [r EXCEPT !.recorded = n] \in Sessions
      BY DEF Sessions
    <3>2. session[p].recorded + 1 \in Nat
      BY <1>0 DEF Sessions
    <3>3. s \in Sessions
      BY <2>6, <3>1, <3>2, Zenon
    <3> QED
      BY <2>6, <2>7, <3>3 DEF Sessions
  <2> HIDE DEF s
  <2>10. /\ session' \in [Appenders -> Sessions] /\ session'[p] = s
         /\ \A q \in Appenders \ {p} : SameSession(q)
    BY <2>8, <2>9, Moves
  <2> QED
    BY <1>0, <1>1, <2>2, <2>9, <2>10, LedgerKeeps
<1>4. CASE EventLost(p)
  <2>1. Busy(p) \/ Rollback(p)
    BY <1>4 DEF EventLost
  <2>2. /\ ChainInv'
        /\ \A q \in Appenders \ {p} : append'[q] = append[q]
        /\ \A q \in Appenders \ {p} : writer = q => writer' = q
        /\ append'[p].pc = "idle"
    BY <2>1, AppendSteps
  <2> DEFINE s == [Idle EXCEPT !.exit = 1]
  <2>3. session' = [session EXCEPT ![p] = s]
    BY <1>4, Zenon DEF EventLost, Exit
  <2>4. s \in Sessions /\ s.pc = "off" /\ s.applied = {}
    <3>1. s \in Sessions
      BY EndedType, Zenon
    <3> QED
      BY <3>1 DEF Idle
  <2> HIDE DEF s
  <2>5. /\ session' \in [Appenders -> Sessions] /\ session'[p] = s
        /\ \A q \in Appenders \ {p} : SameSession(q)
    BY <2>3, <2>4, Moves
  <2> QED
    BY <1>1, <2>2, <2>4, <2>5, LedgerKeeps
<1> QED
  BY <1>2, <1>3, <1>4

\* A process that dies gives back its lock, and its transaction was its own.
LEMMA DieKeeps ==
    ASSUME SharedInv, NEW p \in Appenders, Die(p)
    PROVE  SharedInv'
<1>0. NoAppend \in Appends /\ NoAppend.pc = "idle"
  BY EmptySeq, AuditChainAssumption DEF NoAppend, Appends, GenesisHash, Hashes
<1>1. /\ writer' = IF writer = p THEN NoAppender ELSE writer
      /\ append' = [append EXCEPT ![p] = NoAppend]
      /\ session' = [session EXCEPT ![p] = Idle]
      /\ UNCHANGED <<backend, log, lastSeq, damages, damagedSeq, schema, work>>
  BY DEF Die, storeVars
<1>2. ChainInv'
  <2>1. TypeOK'
    BY <1>0, <1>1 DEF SharedInv, ChainInv, TypeOK
  <2>2. LockHeld'
    <3>1. LastHash' = LastHash
      BY <1>1 DEF LastHash
    <3> QED
      BY <1>0, <1>1, <3>1, AuditChainAssumption
         DEF SharedInv, ChainInv, TypeOK, LockHeld, InTransaction
  <2>3. UntouchedLogVerifies'
    BY <1>1 DEF SharedInv, ChainInv, UntouchedLogVerifies, VerifyOk, BreaksAt, ExpectedPrev
  <2> QED
    BY <2>1, <2>2, <2>3 DEF ChainInv
<1>3. Idle.pc = "off" /\ Idle.applied = {}
  BY DEF Idle
<1>4. /\ session' \in [Appenders -> Sessions] /\ session'[p] = Idle
      /\ \A q \in Appenders \ {p} : SameSession(q)
  BY <1>1, EndedType, Moves
<1>5. /\ append'[p].pc = "idle"
      /\ \A q \in Appenders \ {p} : append'[q] = append[q] /\ (writer = q => writer' = q)
  BY <1>0, <1>1 DEF SharedInv, ChainInv, TypeOK
<1> QED
  BY <1>1, <1>2, <1>3, <1>4, <1>5, LedgerKeeps

\* A change of rows from outside needs the lock and leaves the schema alone.
LEMMA TamperKeeps ==
    ASSUME SharedInv, NEW i \in DOMAIN log, TamperWith(i)
    PROVE  SharedInv'
<1>1. ChainInv'
  BY OutsideKeeps DEF SharedInv, TamperWith
<1>2. UNCHANGED <<writer, append, schema, work, session>>
  BY DEF TamperWith, Outside, EditRow, DeleteRow, SwapRows, Damage, storeVars
<1>3. SchemaOK'
  BY <1>2 DEF SharedInv, SchemaOK, MigrationsAreAtomic
<1>4. ASSUME NEW q \in Appenders PROVE Local(q)'
  BY <1>2, Frame DEF SharedInv, SameSession
<1> QED
  BY <1>1, <1>2, <1>3, <1>4 DEF SharedInv

\* The file as it is found, with nobody at work.
LEMMA SharedInitKeeps == SharedInit => SharedInv
<1> SUFFICES ASSUME SharedInit PROVE SharedInv
  OBVIOUS
<1>1. ChainInv
  BY ChainInit DEF SharedInit
<1>2. session \in [Appenders -> Sessions] /\ \A p \in Appenders : session[p] = Idle
  BY EndedType DEF SharedInit
<1>3. \A p \in Appenders : append[p].pc = "idle"
  BY DEF SharedInit, Init, NoAppend
<1>4. SchemaOK
  <2>1. "tables" \notin PartsOf(2) /\ PartsOf(1) \cap PartsOf(2) = {}
    BY StatementFacts DEF Repeatable
  <2>2. CASE schema = [parts |-> {}, versions |-> {}]
    BY <2>2, StatementFacts DEF SchemaOK, MigrationsAreAtomic
  <2>3. CASE schema = [parts |-> PartsOf(1), versions |-> {1}]
    <3>1. MigrationsAreAtomic
      BY <2>1, <2>3, StatementFacts DEF MigrationsAreAtomic
    <3> QED
      BY <2>3, <3>1, StatementFacts DEF SchemaOK
  <2> QED
    BY <2>2, <2>3 DEF SharedInit, Files
<1>5. ASSUME NEW p \in Appenders PROVE Local(p)
  <2>1. Idle.pc = "off" /\ Idle.applied = {}
    BY DEF Idle
  <2> QED
    BY <1>2, <1>3, <2>1 DEF Local
<1> QED
  BY <1>1, <1>2, <1>4, <1>5 DEF SharedInv

\* The invariant is inductive.
LEMMA SharedStep == SharedInv /\ [SharedNext]_sharedVars => SharedInv'
<1> SUFFICES ASSUME SharedInv, [SharedNext]_sharedVars PROVE SharedInv'
  OBVIOUS
<1>1. CASE UNCHANGED sharedVars
  <2>1. ChainInv'
    BY <1>1, ChainStep DEF sharedVars, SharedInv
  <2>2. SchemaOK'
    BY <1>1 DEF sharedVars, storeVars, SharedInv, SchemaOK, MigrationsAreAtomic
  <2>3. ASSUME NEW q \in Appenders PROVE Local(q)'
    BY <1>1, Frame DEF sharedVars, storeVars, vars, SharedInv, SameSession
  <2> QED
    BY <1>1, <2>1, <2>2, <2>3 DEF sharedVars, SharedInv
<1>2. ASSUME NEW p \in Appenders, CmdInit(p) \/ Start(p) \/ Die(p) PROVE SharedInv'
  BY <1>2, StartKeeps, DieKeeps
<1>3. ASSUME NEW p \in Appenders, Opening(p) PROVE SharedInv'
  BY <1>3, EarlyOpeningKeeps, EnsureKeeps, BeginKeeps, StatementKeeps, MigrationFailsKeeps,
     CommitKeeps DEF Opening
<1>4. ASSUME NEW p \in Appenders, Working(p) PROVE SharedInv'
  BY <1>4, QuietWorkKeeps, EventKeeps DEF Working
<1>5. ASSUME NEW i \in DOMAIN log, TamperWith(i) PROVE SharedInv'
  BY <1>5, TamperKeeps
<1> QED
  BY <1>1, <1>2, <1>3, <1>4, <1>5 DEF SharedNext

\* Every state of the shared file and of its processes is well typed.
THEOREM SharedTypeCorrect == SharedSpec => []SharedTypeOK
<1>1. SharedInv => SharedTypeOK
  BY DEF SharedInv, ChainInv, SharedTypeOK
<1> QED
  BY SharedInitKeeps, SharedStep, <1>1, PTL DEF SharedSpec

\* The ledger of a file that commands and agents open, migrate, append to and die over
\* verifies as long as nobody else changes its rows: a migration and an append never
\* overlap, since both hold the one write lock.
THEOREM SharedLedgerVerifies == SharedSpec => []UntouchedLogVerifies
<1>1. SharedInv => UntouchedLogVerifies
  BY DEF SharedInv, ChainInv
<1> QED
  BY SharedInitKeeps, SharedStep, <1>1, PTL DEF SharedSpec

\* A migration is in the file as a whole or not at all, for any number of processes that
\* race to migrate it, fail half-way or die: the second is never recorded without the
\* first, and no version without its tables or columns.
THEOREM MigrationsStayAtomic == SharedSpec => []MigrationsAreAtomic
<1>1. SharedInv => MigrationsAreAtomic
  BY DEF SharedInv, SchemaOK
<1> QED
  BY SharedInitKeeps, SharedStep, <1>1, PTL DEF SharedSpec

\* Sessions change the rows as the ledger does, and only append to them.
LEMMA LedgerMoves ==
    ASSUME [SharedNext]_sharedVars
    PROVE  \/ UNCHANGED <<log, damages, damagedSeq>>
           \/ (\E p \in Appenders : AppendInMemory(p) \/ Commit(p)) /\ UNCHANGED <<damages, damagedSeq>>
           \/ \E i \in DOMAIN log : Outside(i) /\ UNCHANGED session
<1>1. ASSUME NEW p \in Appenders, CmdInit(p) \/ Start(p) \/ Die(p) \/ Opening(p)
      PROVE  UNCHANGED <<log, damages, damagedSeq>>
  BY <1>1 DEF CmdInit, Start, Die, Opening, SetJournalMode, EnsureMigrationsTable, SelectApplied,
     BeginMigration, OpenTimesOut, ExecuteStatement, MigrationFails, CommitMigration, KeepLedger, vars
<1>2. ASSUME NEW p \in Appenders, Working(p)
      PROVE  \/ UNCHANGED <<log, damages, damagedSeq>>
             \/ (AppendInMemory(p) \/ Commit(p)) /\ UNCHANGED <<damages, damagedSeq>>
  BY <1>2 DEF Working, SaveAction, SaveDecision, SaveFails, AppendEvent, EventAppended, EventLost,
     VerifyLedger, Inspect, Finish, Request, Begin, ReadLast, Busy, Rollback, AppendInMemory, Commit,
     KeepLedger, vars
<1>3. CASE UNCHANGED sharedVars
  BY <1>3 DEF sharedVars, vars
<1> QED
  BY <1>1, <1>2, <1>3 DEF SharedNext, TamperWith

\* A change of the rows stays located whatever commands open, migrate, append to or die over
\* the file afterwards.
THEOREM SharedDamageLocated == SharedSpec => []DamageIsLocated
<1>1. SharedInit => SharedInv /\ DamageIsLocated
  BY SharedInitKeeps DEF SharedInit, Init, DamageIsLocated
<1>2. SharedInv /\ DamageIsLocated /\ [SharedNext]_sharedVars => (SharedInv /\ DamageIsLocated)'
  <2> SUFFICES ASSUME SharedInv, DamageIsLocated, [SharedNext]_sharedVars
               PROVE  (SharedInv /\ DamageIsLocated)'
    OBVIOUS
  <2>1. ChainInv
    BY DEF SharedInv
  <2> QED
    BY <2>1, SharedStep, LedgerMoves, LocationStays
<1> QED
  BY <1>1, <1>2, PTL DEF SharedSpec

-----------------------------------------------------------------------------
(* What the sessions do. *)

\* Before the store is open.
OpeningSteps == {"journal", "ensure", "select", "begin", "migrate"}

\* Where `ssf check` stands, with the events it has committed.
CheckProgress(s) ==
    \/ s.todo = <<"save", "append", "decide", "append">> /\ s.recorded = 0
    \/ s.todo = <<"append", "decide", "append">> /\ s.recorded = 0
    \/ s.todo = <<"decide", "append">> /\ s.recorded = 1
    \/ s.todo = <<"append">> /\ s.recorded = 1 /\ s.decided \in Decisions
    \/ s.todo = <<>> /\ s.recorded = 2 /\ s.decided \in Decisions

\* A session that opens the store has done nothing yet, and one that has opened it does
\* what its command does.
TaskOK(s) ==
    /\ s.pc = "ready" <=> s.store = "opened"
    /\ s.pc \in OpeningSteps <=> s.store = "opening"
    /\ s.pc \in OpeningSteps => s.recorded = 0
    /\ (s.pc = "ready" /\ s.command \in Verifying) => s.todo = <<"verify">>
    /\ (s.pc = "ready" /\ s.command = "check") => CheckProgress(s)

\* A verifying command that found damage when it started finds it when it verifies.
DamageSeen(p) == session[p].damaged => damages > 0 /\ (damages = 1 => damagedSeq # 0)

\* An opening process that never met another one is alone, and misses a version that
\* nobody has recorded.
Undisturbed(p) ==
    (session[p].pc \in OpeningSteps /\ ~session[p].contended) =>
        /\ \A q \in Appenders \ {p} : ~Active(q)
        /\ session[p].pc \in {"begin", "migrate"} =>
               /\ session[p].version \notin session[p].applied
               /\ \A v \in schema.versions : v < session[p].version \/ v \in session[p].applied

\* Who holds the lock is at work under it.
WriterWorks == writer # NoAppender => InTransaction(writer) \/ session[writer].pc = "migrate"

SessionInv ==
    /\ SharedInv
    /\ DamageIsLocated
    /\ damages = 0 => damagedSeq = 0
    /\ WriterWorks
    /\ \A p \in Appenders : TaskOK(session[p]) /\ DamageSeen(p) /\ Undisturbed(p)

\* A step of one process.
StepOf(p) == CmdInit(p) \/ Start(p) \/ Die(p) \/ Opening(p) \/ Working(p)

\* Everything of a session but its history of contention.
SameTask(q) ==
    /\ SameSession(q)
    /\ session'[q].command = session[q].command
    /\ session'[q].decided = session[q].decided
    /\ session'[q].store = session[q].store
    /\ session'[q].recorded = session[q].recorded
    /\ session'[q].damaged = session[q].damaged

\* A process that ends leaves an idle session with its exit code.
LEMMA EndedSession ==
    ASSUME SharedInv, NEW p \in Appenders
    PROVE  /\ \A code \in {0, 1, 2} : Exit(p, code) =>
                  /\ session'[p].pc = "off" /\ session'[p].store = "none"
                  /\ session'[p].exit = code /\ session'[p].damaged = FALSE
                  /\ \A q \in Appenders \ {p} : session'[q] = session[q]
           /\ Die(p) =>
                  /\ session'[p].pc = "off" /\ session'[p].store = "none"
                  /\ session'[p].exit = NoExit /\ session'[p].damaged = FALSE
                  /\ \A q \in Appenders \ {p} : session'[q] = session[q]
<1>0. session \in [Appenders -> Sessions]
  BY DEF SharedInv
<1>1. ASSUME NEW code \in {0, 1, 2}, Exit(p, code)
      PROVE  /\ session'[p].pc = "off" /\ session'[p].store = "none"
             /\ session'[p].exit = code /\ session'[p].damaged = FALSE
             /\ \A q \in Appenders \ {p} : session'[q] = session[q]
  <2> DEFINE ended == [Idle EXCEPT !.exit = code]
  <2>1. /\ ended.pc = "off" /\ ended.store = "none" /\ ended.exit = code
        /\ ended.damaged = FALSE
    BY DEF Idle
  <2>2. session' = [session EXCEPT ![p] = ended]
    BY <1>1, Zenon DEF Exit
  <2> HIDE DEF ended
  <2> QED
    BY <1>0, <2>1, <2>2
<1>2. ASSUME Die(p)
      PROVE  /\ session'[p].pc = "off" /\ session'[p].store = "none"
             /\ session'[p].exit = NoExit /\ session'[p].damaged = FALSE
             /\ \A q \in Appenders \ {p} : session'[q] = session[q]
  <2>1. /\ Idle.pc = "off" /\ Idle.store = "none" /\ Idle.exit = NoExit /\ Idle.damaged = FALSE
    BY DEF Idle
  <2> QED
    BY <1>0, <1>2, <2>1 DEF Die
<1> QED
  BY <1>1, <1>2

\* A command that starts opens the store, or has it in memory.
LEMMA StartedSession ==
    ASSUME SharedInv, NEW p \in Appenders, Start(p)
    PROVE  \/ \E code \in {1, 2} : Exit(p, code)
           \/ /\ TaskOK(session'[p])
              /\ session'[p].pc \in {"journal", "ready"}
              /\ session'[p].damaged => damagedSeq # 0
              /\ session'[p].pc = "journal" =>
                     (session'[p].contended <=> \E o \in Appenders \ {p} : Active(o))
              /\ \A q \in Appenders \ {p} :
                     /\ SameTask(q)
                     /\ session'[q].contended <=>
                            (session[q].contended \/ session[q].store = "opening")
<1>0. session \in [Appenders -> Sessions]
  BY DEF SharedInv
<1> DEFINE Met == \E o \in Appenders \ {p} : Active(o)
<1> DEFINE Fresh(command) == [Idle EXCEPT !.command = command,
                                          !.damaged = command \in Verifying /\ damagedSeq # 0]
<1>1. PICK command \in Commands :
          \/ Exit(p, 2)
          \/ Exit(p, InvalidConfigurationExit(command))
          \/ session' = Started(p, [Fresh(command) EXCEPT !.pc = "journal", !.store = "opening"])
          \/ /\ command = "check"
             /\ session' = Started(p, [Fresh(command) EXCEPT !.pc = "ready", !.store = "opened",
                                                             !.todo = WorkOf(command)])
  BY Zenon DEF Start
<1>2. Fresh(command) \in Sessions /\ Fresh(command).recorded = 0
      /\ Fresh(command).command = command /\ Fresh(command).contended = FALSE
      /\ (Fresh(command).damaged <=> command \in Verifying /\ damagedSeq # 0)
  <2>1. \A r \in Sessions : [r EXCEPT !.command = command] \in Sessions
    BY DEF Sessions
  <2>2. \A r \in Sessions : \A damaged \in BOOLEAN : [r EXCEPT !.damaged = damaged] \in Sessions
    BY DEF Sessions
  <2>3. (command \in Verifying /\ damagedSeq # 0) \in BOOLEAN
    OBVIOUS
  <2>4. Fresh(command) \in Sessions
    BY <2>1, <2>2, <2>3, EndedType, Zenon
  <2>5. /\ Fresh(command).recorded = 0
        /\ Fresh(command).command = command /\ Fresh(command).contended = FALSE
    BY DEF Idle
  <2>6. Fresh(command).damaged <=> command \in Verifying /\ damagedSeq # 0
    BY DEF Idle
  <2> QED
    BY <2>4, <2>5, <2>6
<1> HIDE DEF Fresh
<1> DEFINE opening == [Fresh(command) EXCEPT !.pc = "journal", !.store = "opening"]
           opened == [Fresh(command) EXCEPT !.pc = "ready", !.store = "opened", !.todo = WorkOf(command)]
<1>3. /\ opening \in Sessions /\ opening.pc = "journal" /\ opening.store = "opening"
      /\ opening.recorded = 0 /\ (opening.damaged => damagedSeq # 0)
  <2>1. PICK r \in Sessions : r = Fresh(command)
    BY <1>2
  <2>2. opening = [r EXCEPT !.pc = "journal", !.store = "opening"]
    BY <2>1, Zenon
  <2>3. r.recorded = 0 /\ (r.damaged => damagedSeq # 0)
    BY <1>2, <2>1
  <2> HIDE DEF opening
  <2>4. /\ opening.pc = "journal" /\ opening.store = "opening"
        /\ opening.recorded = 0 /\ opening.damaged = r.damaged
    BY <2>2, <2>3 DEF Sessions
  <2>5. opening \in Sessions
    <3> DEFINE r1 == [r EXCEPT !.pc = "journal"]
               r2 == [r1 EXCEPT !.store = "opening"]
    <3>1. \A x \in Sessions : [x EXCEPT !.store = "opening"] \in Sessions
      BY DEF Sessions
    <3>2. r2 \in Sessions
      BY <3>1, FieldTypes, Zenon
    <3>3. opening = r2
      BY <2>2, Zenon
    <3> QED
      BY <3>2, <3>3, Zenon
  <2> QED
    BY <2>3, <2>4, <2>5
<1>4. /\ opened \in Sessions /\ opened.pc = "ready" /\ opened.store = "opened"
      /\ opened.recorded = 0 /\ (opened.damaged => damagedSeq # 0)
      /\ opened.todo = WorkOf(command) /\ opened.command = command
  <2>1. PICK r \in Sessions : r = Fresh(command)
    BY <1>2
  <2>2. PICK todo \in Seq(TodoSteps) : todo = WorkOf(command)
    BY WorkType
  <2>3. opened = [r EXCEPT !.pc = "ready", !.store = "opened", !.todo = todo]
    BY <2>1, <2>2, Zenon
  <2>4. /\ r.recorded = 0 /\ (r.damaged => damagedSeq # 0) /\ r.command = command
    BY <1>2, <2>1
  <2> HIDE DEF opened
  <2>5. /\ opened.pc = "ready" /\ opened.store = "opened" /\ opened.todo = todo
        /\ opened.recorded = 0 /\ opened.damaged = r.damaged /\ opened.command = command
    BY <2>3, <2>4 DEF Sessions
  <2>6. opened \in Sessions
    <3> DEFINE r1 == [r EXCEPT !.pc = "ready"]
               r2 == [r1 EXCEPT !.store = "opened"]
               r3 == [r2 EXCEPT !.todo = todo]
    <3>1. r3 \in Sessions
      BY FieldTypes, Zenon
    <3>2. opened = r3
      BY <2>3, Zenon
    <3> QED
      BY <3>1, <3>2, Zenon
  <2> QED
    BY <2>2, <2>4, <2>5, <2>6
<1>5. CASE Exit(p, 2) \/ Exit(p, InvalidConfigurationExit(command))
  BY <1>5 DEF InvalidConfigurationExit
<1>6. ASSUME NEW s \in Sessions, session' = Started(p, s)
      PROVE  /\ session'[p] = [s EXCEPT !.contended = s.store = "opening" /\ Met]
             /\ \A q \in Appenders \ {p} :
                    /\ SameTask(q)
                    /\ session'[q].contended <=> (session[q].contended \/ session[q].store = "opening")
  <2>1. session'[p] = [s EXCEPT !.contended = s.store = "opening" /\ Met]
    BY <1>6 DEF Started
  <2>2. ASSUME NEW q \in Appenders \ {p}
        PROVE  /\ SameTask(q)
               /\ session'[q].contended <=> (session[q].contended \/ session[q].store = "opening")
    <3>1. session'[q] = [session[q] EXCEPT !.contended = session[q].contended \/ session[q].store = "opening"]
      BY <1>6 DEF Started
    <3>2. session[q] \in Sessions
      BY <1>0
    <3> QED
      BY <3>1, <3>2 DEF SameTask, SameSession, Sessions
  <2> QED
    BY <2>1, <2>2
<1>7. CASE session' = Started(p, opening)
  <2>1. PICK s \in Sessions : s = opening
    BY <1>3
  <2>2. session'[p] = [s EXCEPT !.contended = s.store = "opening" /\ Met]
    BY <1>6, <1>7, <2>1
  <2>3. /\ s.pc = "journal" /\ s.store = "opening" /\ s.recorded = 0 /\ (s.damaged => damagedSeq # 0)
    BY <1>3, <2>1
  <2> HIDE DEF opening
  <2>4. /\ session'[p].pc = "journal" /\ session'[p].store = "opening" /\ session'[p].recorded = 0
        /\ session'[p].damaged => damagedSeq # 0
        /\ session'[p].contended <=> \E o \in Appenders \ {p} : Active(o)
    BY <2>1, <2>2, <2>3 DEF Sessions
  <2>5. TaskOK(session'[p])
    BY <2>4 DEF TaskOK, OpeningSteps
  <2> QED
    BY <1>6, <1>7, <2>1, <2>4, <2>5
<1>8. CASE command = "check" /\ session' = Started(p, opened)
  <2>1. PICK s \in Sessions : s = opened
    BY <1>4
  <2>2. session'[p] = [s EXCEPT !.contended = s.store = "opening" /\ Met]
    BY <1>6, <1>8, <2>1
  <2>3. /\ s.pc = "ready" /\ s.store = "opened" /\ s.recorded = 0 /\ (s.damaged => damagedSeq # 0)
        /\ s.command = "check" /\ s.todo = WorkOf("check")
    BY <1>4, <1>8, <2>1
  <2> HIDE DEF opened
  <2>4. /\ session'[p].pc = "ready" /\ session'[p].store = "opened" /\ session'[p].recorded = 0
        /\ session'[p].damaged => damagedSeq # 0
        /\ session'[p].command = "check" /\ session'[p].todo = WorkOf("check")
    BY <2>1, <2>2, <2>3 DEF Sessions
  <2>5. WorkOf("check") = <<"save", "append", "decide", "append">>
    BY DEF WorkOf
  <2>6. TaskOK(session'[p])
    BY <2>4, <2>5 DEF TaskOK, OpeningSteps, CheckProgress, Verifying
  <2> QED
    BY <1>6, <1>8, <2>1, <2>4, <2>6
<1> QED
  BY <1>1, <1>5, <1>7, <1>8, Zenon

\* How a step of p leaves the session of another process.
Left(p, q) ==
    /\ SameTask(q)
    /\ session[q].contended => session'[q].contended
    /\ (session[p].pc = "off" /\ session'[p].pc # "off" /\ session[q].pc \in OpeningSteps)
           => session'[q].contended

\* A process moves its own session; when it starts, those that open the store notice.
LEMMA OthersStay ==
    ASSUME SharedInv, NEW p \in Appenders, StepOf(p), NEW q \in Appenders \ {p},
           TaskOK(session[q])
    PROVE  Left(p, q)
<1>0. session \in [Appenders -> Sessions]
  BY DEF SharedInv
<1>1. session'[q] = session[q] /\ (session[p].pc # "off" \/ session'[p].pc = "off") => Left(p, q)
  BY DEF Left, SameTask, SameSession
<1>2. ASSUME NEW code \in {0, 1, 2}, Exit(p, code) PROVE Left(p, q)
  BY <1>1, <1>2, EndedSession
<1>3. CASE CmdInit(p)
  <2>1. \E code \in {0, 1, 2} : Exit(p, code)
    BY <1>3, Zenon DEF CmdInit
  <2> QED
    BY <1>2, <2>1
<1>4. CASE Start(p)
  <2>1. CASE \E code \in {1, 2} : Exit(p, code)
    BY <1>2, <2>1
  <2>2. CASE SameTask(q) /\ (session'[q].contended <=> (session[q].contended \/ session[q].store = "opening"))
    BY <2>2 DEF Left, TaskOK
  <2> QED
    BY <1>4, <2>1, <2>2, StartedSession
<1>5. CASE Die(p)
  BY <1>1, <1>5, EndedSession
<1>6. CASE Opening(p)
  <2>1. session[p].pc # "off"
    BY <1>6 DEF Opening, SetJournalMode, EnsureMigrationsTable, SelectApplied, BeginMigration,
       OpenTimesOut, ExecuteStatement, MigrationFails, CommitMigration
  <2>2. session'[q] = session[q]
    BY <1>0, <1>6 DEF Opening, SetJournalMode, EnsureMigrationsTable, SelectApplied, BeginMigration,
       OpenTimesOut, ExecuteStatement, MigrationFails, CommitMigration, Exit, Goto
  <2> QED
    BY <1>1, <2>1, <2>2
<1>7. CASE Working(p)
  <2>1. session[p].pc # "off"
    <3>1. append[p].pc # "idle" => session[p].pc = "ready"
      BY OnlyAtAppend
    <3> QED
      BY <1>7, <3>1 DEF Working, SaveAction, SaveDecision, SaveFails, AppendEvent, EventAppended, EventLost,
         VerifyLedger, Inspect, Finish, AtWork, AppendInMemory, Commit, Busy, Rollback
  <2>2. session'[q] = session[q]
    BY <1>0, <1>7 DEF Working, SaveAction, SaveDecision, SaveFails, AppendEvent, EventAppended, EventLost,
       VerifyLedger, Inspect, Finish, Exit, Done
  <2> QED
    BY <1>1, <2>1, <2>2
<1> QED
  BY <1>3, <1>4, <1>5, <1>6, <1>7 DEF StepOf

\* An opening session goes on.
Advances(p) ==
    /\ TaskOK(session'[p])
    /\ session'[p].pc # "off"
    /\ session[p].pc \in OpeningSteps
    /\ session'[p].damaged = session[p].damaged
    /\ session'[p].pc \in OpeningSteps => session'[p].contended = session[p].contended

\* The fields of a session that a change of its place keeps.
LEMMA Places ==
    ASSUME NEW r \in Sessions, TaskOK(r), r.pc \in OpeningSteps, NEW s, s.pc \in OpeningSteps,
           s.store = r.store, s.recorded = r.recorded
    PROVE  TaskOK(s)
  BY DEF TaskOK, OpeningSteps

\* The session of a process that has opened the store.
LEMMA OpenedSession ==
    ASSUME NEW r \in Sessions, TaskOK(r), r.pc \in OpeningSteps, NEW version \in 0..2
    PROVE  /\ Proceeds(r, version).damaged = r.damaged
           /\ TaskOK(Proceeds(r, version)) /\ Proceeds(r, version).pc # "off"
           /\ Proceeds(r, version).pc \in OpeningSteps =>
                  /\ Proceeds(r, version).contended = r.contended
                  /\ Proceeds(r, version).pc = "begin"
                  /\ Proceeds(r, version).version = version
                  /\ Proceeds(r, version).applied = r.applied
                  /\ version # 0
<1> DEFINE s == Proceeds(r, version)
<1>1. CASE version # 0
  <2>1. s = [r EXCEPT !.pc = "begin", !.version = version, !.step = 0]
    BY <1>1, Zenon DEF Proceeds
  <2> HIDE DEF s
  <2>2. /\ s.pc = "begin" /\ s.version = version /\ s.damaged = r.damaged
        /\ s.contended = r.contended /\ s.applied = r.applied
        /\ s.store = r.store /\ s.recorded = r.recorded
    BY <2>1 DEF Sessions
  <2>3. TaskOK(s)
    BY <2>2, Places DEF OpeningSteps
  <2> QED
    BY <1>1, <2>2, <2>3 DEF s
<1>2. CASE version = 0
  <2> DEFINE todo == WorkOf(r.command)
  <2>1. s = [r EXCEPT !.pc = "ready", !.version = 0, !.step = 0, !.applied = {}, !.store = "opened",
                      !.contended = FALSE, !.todo = todo]
    BY <1>2, Zenon DEF Proceeds
  <2> HIDE DEF s, todo
  <2>2. /\ s.pc = "ready" /\ s.store = "opened" /\ s.damaged = r.damaged
        /\ s.todo = todo /\ s.recorded = r.recorded /\ s.command = r.command
    BY <2>1 DEF Sessions
  <2>3. r.recorded = 0
    BY DEF TaskOK
  <2>4. r.command \in Verifying => todo = <<"verify">>
    BY DEF todo, WorkOf, Verifying
  <2>5. r.command = "check" => todo = <<"save", "append", "decide", "append">>
    BY DEF todo, WorkOf
  <2>6. TaskOK(s)
    BY <2>2, <2>3, <2>4, <2>5 DEF TaskOK, OpeningSteps, CheckProgress, Verifying
  <2>7. s.pc \notin OpeningSteps
    BY <2>2 DEF OpeningSteps
  <2> QED
    BY <2>2, <2>6, <2>7 DEF s
<1> QED
  BY <1>1, <1>2

\* The steps of init() that do not end it.
LEMMA OpeningAdvances ==
    ASSUME SharedInv, NEW p \in Appenders, TaskOK(session[p]), Opening(p)
    PROVE  \/ \E code \in {1, 2} : Exit(p, code)
           \/ Advances(p)
<1>0. session \in [Appenders -> Sessions] /\ session[p] \in Sessions
  BY DEF SharedInv
<1>1. session[p].pc \in OpeningSteps
  BY DEF Opening, SetJournalMode, EnsureMigrationsTable, SelectApplied, BeginMigration,
     OpenTimesOut, ExecuteStatement, MigrationFails, CommitMigration, OpeningSteps
<1>2. ASSUME NEW pc \in OpeningSteps, Goto(p, pc) PROVE Advances(p)
  <2> DEFINE s == [session[p] EXCEPT !.pc = pc]
  <2>1. session'[p] = s
    BY <1>0, <1>2 DEF Goto
  <2>2. /\ s.pc = pc /\ s.store = session[p].store /\ s.recorded = session[p].recorded
        /\ s.damaged = session[p].damaged /\ s.contended = session[p].contended
    BY <1>0 DEF Sessions
  <2> HIDE DEF s
  <2>3. TaskOK(s)
    BY <1>0, <1>1, <2>2, Places
  <2> QED
    BY <1>1, <2>1, <2>2, <2>3 DEF Advances, OpeningSteps
<1>3. CASE SetJournalMode(p)
  BY <1>2, <1>3 DEF SetJournalMode, OpenFailedExit, OpeningSteps
<1>4. CASE EnsureMigrationsTable(p)
  BY <1>2, <1>4 DEF EnsureMigrationsTable, OpeningSteps
<1>5. CASE SelectApplied(p)
  <2> DEFINE read == [session[p] EXCEPT !.applied = AppliedVersions]
             version == Pending(AppliedVersions, 0)
  <2>1. session'[p] = Proceeds(read, version)
    BY <1>0, <1>5 DEF SelectApplied
  <2>2. read \in Sessions
    <3>1. AppliedVersions \in SUBSET {1, 2}
      BY StatementFacts DEF SharedInv, SchemaOK, AppliedVersions
    <3> QED
      BY <1>0, <3>1, FieldTypes, Zenon
  <2>3. /\ read.pc = session[p].pc /\ read.store = session[p].store
        /\ read.recorded = session[p].recorded /\ read.damaged = session[p].damaged
        /\ read.contended = session[p].contended
    BY <1>0 DEF Sessions
  <2>4. version \in 0..2
    BY PendingFacts
  <2> HIDE DEF read, version
  <2>5. TaskOK(read) /\ read.pc \in OpeningSteps
    BY <1>0, <1>1, <2>3, Places
  <2> QED
    BY <1>1, <2>1, <2>2, <2>3, <2>4, <2>5, OpenedSession DEF Advances
<1>6. CASE BeginMigration(p)
  <2> DEFINE s == [session[p] EXCEPT !.pc = "migrate", !.step = 1]
  <2>1. session'[p] = s
    BY <1>0, <1>6 DEF BeginMigration
  <2>2. /\ s.pc = "migrate" /\ s.store = session[p].store /\ s.recorded = session[p].recorded
        /\ s.damaged = session[p].damaged /\ s.contended = session[p].contended
    BY <1>0 DEF Sessions
  <2> HIDE DEF s
  <2>3. TaskOK(s)
    BY <1>0, <1>1, <2>2, Places DEF OpeningSteps
  <2> QED
    BY <1>1, <2>1, <2>2, <2>3 DEF Advances, OpeningSteps
<1>7. CASE OpenTimesOut(p)
  BY <1>7 DEF OpenTimesOut, OpenFailedExit
<1>8. CASE ExecuteStatement(p)
  <2> DEFINE s == [session[p] EXCEPT !.step = session[p].step + 1]
  <2>1. session'[p] = s
    BY <1>0, <1>8 DEF ExecuteStatement
  <2>2. /\ s.pc = session[p].pc /\ s.store = session[p].store /\ s.recorded = session[p].recorded
        /\ s.damaged = session[p].damaged /\ s.contended = session[p].contended
    BY <1>0 DEF Sessions
  <2> HIDE DEF s
  <2>3. TaskOK(s)
    BY <1>0, <1>1, <2>2, Places
  <2> QED
    BY <1>1, <2>1, <2>2, <2>3 DEF Advances, OpeningSteps
<1>9. CASE MigrationFails(p)
  BY <1>9 DEF MigrationFails, OpenFailedExit
<1>10. CASE CommitMigration(p)
  <2> DEFINE version == Pending(session[p].applied, session[p].version)
  <2>1. session'[p] = Proceeds(session[p], version)
    BY <1>0, <1>10 DEF CommitMigration
  <2>2. version \in 0..2
    BY <1>0, PendingFacts DEF Sessions
  <2> HIDE DEF version
  <2> QED
    BY <1>0, <1>1, <2>1, <2>2, OpenedSession DEF Advances
<1> QED
  BY <1>3, <1>4, <1>5, <1>6, <1>7, <1>8, <1>9, <1>10 DEF Opening

\* The steps of `ssf check`, one after another.
LEMMA CheckSteps ==
    /\ Head(<<"save", "append", "decide", "append">>) = "save"
    /\ Tail(<<"save", "append", "decide", "append">>) = <<"append", "decide", "append">>
    /\ Head(<<"append", "decide", "append">>) = "append"
    /\ Tail(<<"append", "decide", "append">>) = <<"decide", "append">>
    /\ Head(<<"decide", "append">>) = "decide"
    /\ Tail(<<"decide", "append">>) = <<"append">>
    /\ Head(<<"append">>) = "append"
    /\ Tail(<<"append">>) = <<>>
  OBVIOUS

\* Each of them is followed by the next.
LEMMA CheckAdvances ==
    ASSUME NEW r, CheckProgress(r), r.todo # <<>>, NEW s, s.todo = Tail(r.todo),
           \/ Head(r.todo) = "save" /\ s.recorded = r.recorded /\ s.decided = r.decided
           \/ Head(r.todo) = "decide" /\ s.recorded = r.recorded /\ s.decided \in Decisions
           \/ Head(r.todo) = "append" /\ s.recorded = r.recorded + 1 /\ s.decided = r.decided
    PROVE  CheckProgress(s)
<1>1. CASE r.todo = <<"save", "append", "decide", "append">> /\ r.recorded = 0
  BY <1>1, CheckSteps DEF CheckProgress
<1>2. CASE r.todo = <<"append", "decide", "append">> /\ r.recorded = 0
  BY <1>2, CheckSteps DEF CheckProgress
<1>3. CASE r.todo = <<"decide", "append">> /\ r.recorded = 1
  BY <1>3, CheckSteps DEF CheckProgress
<1>4. CASE r.todo = <<"append">> /\ r.recorded = 1 /\ r.decided \in Decisions
  BY <1>4, CheckSteps DEF CheckProgress
<1> QED
  BY <1>1, <1>2, <1>3, <1>4 DEF CheckProgress

\* The work of a command follows its list, and `ssf check` records as it goes.
LEMMA WorkingAdvances ==
    ASSUME SharedInv, NEW p \in Appenders, TaskOK(session[p]), Working(p)
    PROVE  \/ \E code \in {0, 1, 2} : Exit(p, code)
           \/ /\ TaskOK(session'[p])
              /\ session'[p].pc = "ready"
              /\ session'[p].damaged = session[p].damaged
<1>0. session \in [Appenders -> Sessions] /\ session[p] \in Sessions
  BY DEF SharedInv
<1>1. session[p].pc = "ready" /\ session[p].todo # <<>> => session[p].store = "opened"
  BY DEF TaskOK
<1>2. CASE SaveAction(p)
  <2> DEFINE s == [session[p] EXCEPT !.todo = Tail(session[p].todo)]
  <2>1. session'[p] = s
    BY <1>0, <1>2 DEF SaveAction, Done
  <2>2. /\ s.pc = session[p].pc /\ s.store = session[p].store /\ s.recorded = session[p].recorded
        /\ s.damaged = session[p].damaged /\ s.command = session[p].command
        /\ s.decided = session[p].decided /\ s.todo = Tail(session[p].todo)
    BY <1>0 DEF Sessions
  <2> HIDE DEF s
  <2>3. session[p].pc = "ready" /\ session[p].todo # <<>> /\ Head(session[p].todo) = "save"
    BY <1>2 DEF SaveAction, AtWork
  <2>4. session[p].command \notin Verifying
    BY <2>3 DEF TaskOK
  <2>5. session[p].command = "check" => CheckProgress(s)
    BY <2>2, <2>3, CheckAdvances DEF TaskOK
  <2>6. TaskOK(s)
    BY <1>1, <2>2, <2>3, <2>4, <2>5 DEF TaskOK, OpeningSteps
  <2> QED
    BY <2>1, <2>2, <2>3, <2>6
<1>3. CASE SaveDecision(p)
  <2>1. PICK decided \in Decisions, observing \in BOOLEAN :
            session' = [session EXCEPT ![p].todo = Tail(session[p].todo), ![p].decided = decided,
                                       ![p].observing = observing]
    BY <1>3 DEF SaveDecision
  <2> DEFINE s == [session[p] EXCEPT !.todo = Tail(session[p].todo), !.decided = decided,
                                     !.observing = observing]
  <2>2. session'[p] = s
    BY <1>0, <2>1
  <2>3. /\ s.pc = session[p].pc /\ s.store = session[p].store /\ s.recorded = session[p].recorded
        /\ s.damaged = session[p].damaged /\ s.command = session[p].command
        /\ s.decided = decided /\ s.todo = Tail(session[p].todo)
    BY <1>0 DEF Sessions
  <2> HIDE DEF s
  <2>4. session[p].pc = "ready" /\ session[p].todo # <<>> /\ Head(session[p].todo) = "decide"
    BY <1>3 DEF SaveDecision, AtWork
  <2>5. session[p].command \notin Verifying
    BY <2>4 DEF TaskOK
  <2>6. session[p].command = "check" => CheckProgress(s)
    BY <2>3, <2>4, CheckAdvances DEF TaskOK
  <2>7. TaskOK(s)
    BY <1>1, <2>3, <2>4, <2>5, <2>6 DEF TaskOK, OpeningSteps
  <2> QED
    BY <2>2, <2>3, <2>4, <2>7
<1>4. CASE AppendEvent(p)
  BY <1>4 DEF AppendEvent, AtWork
<1>5. CASE EventAppended(p)
  <2>1. append[p].pc # "idle"
    BY <1>5 DEF EventAppended, AppendInMemory, Commit
  <2>2. session[p].pc = "ready" /\ session[p].todo # <<>> /\ Head(session[p].todo) = "append"
    BY <2>1 DEF SharedInv, Local, AtWork
  <2> DEFINE s == [session[p] EXCEPT !.todo = Tail(session[p].todo), !.recorded = session[p].recorded + 1]
  <2>3. session'[p] = s
    BY <1>0, <1>5 DEF EventAppended
  <2>4. /\ s.pc = session[p].pc /\ s.store = session[p].store /\ s.recorded = session[p].recorded + 1
        /\ s.damaged = session[p].damaged /\ s.command = session[p].command
        /\ s.decided = session[p].decided /\ s.todo = Tail(session[p].todo)
    BY <1>0 DEF Sessions
  <2> HIDE DEF s
  <2>5. session[p].command \notin Verifying
    BY <2>2 DEF TaskOK
  <2>6. session[p].command = "check" => CheckProgress(s)
    BY <2>2, <2>4, CheckAdvances DEF TaskOK
  <2>7. TaskOK(s)
    BY <1>1, <2>2, <2>4, <2>5, <2>6 DEF TaskOK, OpeningSteps
  <2> QED
    BY <2>2, <2>3, <2>4, <2>7
<1>6. CASE SaveFails(p) \/ EventLost(p) \/ VerifyLedger(p) \/ Inspect(p)
  BY <1>6 DEF SaveFails, EventLost, VerifyLedger, VerificationExit, Inspect
<1>7. CASE Finish(p)
  BY <1>7 DEF Finish, DecisionExit
<1> QED
  BY <1>2, <1>3, <1>4, <1>5, <1>6, <1>7 DEF Working

\* What a step of a process does to its own session.
LEMMA OwnStep ==
    ASSUME SharedInv, NEW p \in Appenders, TaskOK(session[p]), StepOf(p)
    PROVE  /\ TaskOK(session'[p])
           /\ session'[p].damaged => session[p].damaged \/ damagedSeq # 0
           /\ session'[p].pc \in OpeningSteps =>
                  \/ /\ session[p].pc \in OpeningSteps
                     /\ session'[p].contended = session[p].contended
                  \/ /\ session'[p].pc = "journal"
                     /\ session'[p].contended <=> \E q \in Appenders \ {p} : Active(q)
<1>1. ASSUME NEW s, s.pc = "off", s.store = "none" PROVE TaskOK(s) /\ s.pc \notin OpeningSteps
  BY <1>1 DEF TaskOK, OpeningSteps
<1>2. ASSUME NEW code \in {0, 1, 2}, Exit(p, code)
      PROVE  TaskOK(session'[p]) /\ session'[p].damaged = FALSE /\ session'[p].pc \notin OpeningSteps
  BY <1>1, <1>2, EndedSession
<1>3. CASE CmdInit(p)
  <2>1. \E code \in {0, 1, 2} : Exit(p, code)
    BY <1>3, Zenon DEF CmdInit
  <2> QED
    BY <1>2, <2>1
<1>4. CASE Start(p)
  <2>1. \A pc \in {"journal", "ready"} : pc \in OpeningSteps => pc = "journal"
    BY DEF OpeningSteps
  <2> QED
    BY <1>2, <1>4, <2>1, StartedSession
<1>5. CASE Die(p)
  BY <1>1, <1>5, EndedSession
<1>6. CASE Opening(p)
  BY <1>2, <1>6, OpeningAdvances DEF Advances
<1>7. CASE Working(p)
  <2>1. "ready" \notin OpeningSteps
    BY DEF OpeningSteps
  <2> QED
    BY <1>2, <1>7, <2>1, WorkingAdvances
<1> QED
  BY <1>3, <1>4, <1>5, <1>6, <1>7 DEF StepOf

\* A migration that begins is the first that nobody has recorded.
LEMMA PendingMisses ==
    ASSUME NEW applied, NEW v \in 0..2, Pending(applied, v) # 0
    PROVE  /\ Pending(applied, v) \notin applied
           /\ \A w \in Versions : w <= v \/ w \in applied \/ Pending(applied, v) <= w
           /\ Pending(applied, v) > v
<1> DEFINE missing == {w \in Versions : w > v /\ w \notin applied}
<1>1. missing \subseteq {1, 2} /\ missing # {}
  BY StatementFacts DEF Pending
<1>2. \E w \in missing : \A x \in missing : w <= x
  BY <1>1
<1>3. Pending(applied, v) = CHOOSE w \in missing : \A x \in missing : w <= x
  BY <1>1 DEF Pending
<1>4. Pending(applied, v) \in missing /\ \A x \in missing : Pending(applied, v) <= x
  BY <1>2, <1>3
<1> HIDE DEF missing
<1>5. \A w \in Versions : w \in missing <=> (w > v /\ w \notin applied)
  BY DEF missing
<1>6. Pending(applied, v) \in Versions
  BY <1>4 DEF missing
<1> QED
  BY <1>4, <1>5, <1>6, StatementFacts

\* An opening session that is alone has its version to itself.
OwnVersion(p) ==
    session[p].pc \in {"begin", "migrate"} =>
        /\ session[p].version \notin session[p].applied
        /\ \A v \in schema.versions : v < session[p].version \/ v \in session[p].applied

\* Going on with a migration keeps that, since the process has seen every recorded
\* version or recorded it itself.
LEMMA VersionAdvances ==
    ASSUME SharedInv, NEW p \in Appenders, TaskOK(session[p]), OwnVersion(p), Opening(p)
    PROVE  OwnVersion(p)'
<1>0. session \in [Appenders -> Sessions] /\ session[p] \in Sessions
  BY DEF SharedInv
<1>1. schema.versions \subseteq Versions
  BY DEF SharedInv, SchemaOK
<1>2. ASSUME NEW pc \in {"off", "ensure", "select", "journal"}, session'[p].pc = pc PROVE OwnVersion(p)'
  BY <1>2 DEF OwnVersion
<1>3. CASE SetJournalMode(p)
  <2>1. CASE Goto(p, "ensure")
    <3>1. session'[p].pc = "ensure"
      BY <1>0, <2>1 DEF Goto, Sessions
    <3> QED
      BY <1>2, <3>1
  <2>2. CASE Exit(p, OpenFailedExit(session[p].command))
    BY <1>2, <2>2, EndedSession DEF OpenFailedExit
  <2> QED
    BY <1>3, <2>1, <2>2 DEF SetJournalMode
<1>4. CASE EnsureMigrationsTable(p)
  <2>1. session'[p].pc = "select"
    BY <1>0, <1>4 DEF EnsureMigrationsTable, Goto, Sessions
  <2> QED
    BY <1>2, <2>1
<1>5. CASE SelectApplied(p)
  <2> DEFINE read == [session[p] EXCEPT !.applied = AppliedVersions]
             version == Pending(AppliedVersions, 0)
  <2>1. session'[p] = Proceeds(read, version) /\ schema' = schema
    BY <1>0, <1>5 DEF SelectApplied, storeVars
  <2>2. read \in Sessions /\ read.applied = schema.versions
    <3>1. AppliedVersions \in SUBSET {1, 2}
      BY StatementFacts DEF SharedInv, SchemaOK, AppliedVersions
    <3>2. read \in Sessions
      BY <1>0, <3>1, FieldTypes, Zenon
    <3> QED
      BY <1>0, <3>2 DEF Sessions, AppliedVersions
  <2>3. version \in 0..2 /\ (version # 0 => version \notin schema.versions)
    BY PendingFacts, PendingMisses DEF AppliedVersions
  <2> HIDE DEF read, version
  <2>4. CASE version = 0
    <3>1. Proceeds(read, version).pc = "ready"
      BY <2>2, <2>4 DEF Proceeds, Sessions
    <3> QED
      BY <2>1, <3>1 DEF OwnVersion
  <2>5. CASE version # 0
    <3>1. Proceeds(read, version) = [read EXCEPT !.pc = "begin", !.version = version, !.step = 0]
      BY <2>5, Zenon DEF Proceeds
    <3>2. session'[p].version = version /\ session'[p].applied = schema.versions
      BY <2>1, <2>2, <3>1 DEF Sessions
    <3> QED
      BY <2>1, <2>3, <2>5, <3>2 DEF OwnVersion
  <2> QED
    BY <2>4, <2>5
<1>6. CASE BeginMigration(p)
  <2> DEFINE s == [session[p] EXCEPT !.pc = "migrate", !.step = 1]
  <2>1. session'[p] = s /\ schema' = schema /\ session[p].pc = "begin"
    BY <1>0, <1>6 DEF BeginMigration
  <2>2. s.version = session[p].version /\ s.applied = session[p].applied
    BY <1>0 DEF Sessions
  <2> HIDE DEF s
  <2> QED
    BY <2>1, <2>2 DEF OwnVersion
<1>7. CASE OpenTimesOut(p) \/ MigrationFails(p)
  BY <1>2, <1>7, EndedSession DEF OpenTimesOut, MigrationFails, OpenFailedExit
<1>8. CASE ExecuteStatement(p)
  <2> DEFINE s == [session[p] EXCEPT !.step = session[p].step + 1]
  <2>1. session'[p] = s /\ schema' = schema /\ session[p].pc = "migrate"
    BY <1>0, <1>8 DEF ExecuteStatement
  <2>2. s.version = session[p].version /\ s.applied = session[p].applied
    BY <1>0 DEF Sessions
  <2> HIDE DEF s
  <2> QED
    BY <2>1, <2>2 DEF OwnVersion
<1>9. CASE CommitMigration(p)
  <2> DEFINE version == Pending(session[p].applied, session[p].version)
  <2>1. session'[p] = Proceeds(session[p], version) /\ session[p].pc = "migrate"
    BY <1>0, <1>9 DEF CommitMigration
  <2>2. /\ session[p].version \in 0..2 /\ version \in 0..2 /\ session[p].version \in Versions
    BY <1>0, <2>1, PendingFacts DEF Sessions, SharedInv, Local
  <2>3. schema'.versions = schema.versions \cup {session[p].version}
    <3>1. schema' = [work EXCEPT !.versions = @ \cup {session[p].version}]
      BY <1>9 DEF CommitMigration
    <3>2. work = [parts |-> schema.parts \cup DoneBefore(session[p].version, session[p].step),
                  versions |-> schema.versions]
      BY <2>1 DEF SharedInv, Local
    <3> QED
      BY <3>1, <3>2
  <2>4. version # 0 => version \notin session[p].applied /\ version > session[p].version
    BY <2>2, PendingMisses
  <2> HIDE DEF version
  <2>5. CASE version = 0
    <3>1. Proceeds(session[p], version).pc = "ready"
      BY <1>0, <2>5 DEF Proceeds, Sessions
    <3> QED
      BY <2>1, <3>1 DEF OwnVersion
  <2>6. CASE version # 0
    <3>1. Proceeds(session[p], version) = [session[p] EXCEPT !.pc = "begin", !.version = version, !.step = 0]
      BY <2>6, Zenon DEF Proceeds
    <3>2. session'[p].version = version /\ session'[p].applied = session[p].applied
      BY <1>0, <2>1, <3>1 DEF Sessions
    <3>3. \A v \in schema.versions : v \in 1..2
      BY <1>1, StatementFacts
    <3>4. \A v \in schema'.versions : v < version \/ v \in session[p].applied
      BY <2>1, <2>2, <2>3, <2>4, <2>6, <3>3 DEF OwnVersion
    <3> QED
      BY <2>4, <2>6, <3>2, <3>4 DEF OwnVersion
  <2> QED
    BY <2>5, <2>6
<1> QED
  BY <1>3, <1>4, <1>5, <1>6, <1>7, <1>8, <1>9 DEF Opening

\* While a process that has met nobody opens the store nobody else moves, and no process
\* comes without being noticed.
LEMMA AloneStays ==
    ASSUME SharedInv, NEW p \in Appenders, StepOf(p), NEW q \in Appenders,
           \A r \in Appenders : TaskOK(session[r]) /\ Undisturbed(r)
    PROVE  Undisturbed(q)'
<1>0. SUFFICES ASSUME session'[q].pc \in OpeningSteps, ~session'[q].contended
               PROVE  (\A r \in Appenders \ {q} : ~Active(r)') /\ OwnVersion(q)'
  BY DEF Undisturbed, OwnVersion
<1>1. \A r \in Appenders \ {p} : Left(p, r)
  BY OthersStay
<1>2. CASE q = p
  <2>1. \A r \in Appenders \ {p} : Active(r)' <=> Active(r)
    BY <1>1 DEF Left, SameTask, SameSession, Active
  <2>2. CASE session[p].pc \in OpeningSteps /\ session'[p].contended = session[p].contended
    <3>1. (\A r \in Appenders \ {p} : ~Active(r)) /\ OwnVersion(p)
      BY <1>0, <1>2, <2>2 DEF Undisturbed, OwnVersion
    <3>2. session'[p].pc # "off" /\ session[p].pc # "off" /\ session[p].pc # "ready"
      BY <1>0, <1>2, <2>2 DEF OpeningSteps
    <3>3. ~CmdInit(p) /\ ~Start(p) /\ ~Die(p)
      BY <3>2, EndedSession DEF CmdInit, Start, Active
    <3>4. ~Working(p)
      <4>1. append[p].pc = "idle"
        BY <3>2, OnlyAtAppend
      <4> QED
        BY <3>2, <4>1 DEF Working, SaveAction, SaveDecision, SaveFails, AppendEvent, EventAppended,
           EventLost, VerifyLedger, Inspect, Finish, AtWork, AppendInMemory, Commit, Busy, Rollback
    <3> QED
      BY <1>2, <2>1, <3>1, <3>3, <3>4, VersionAdvances DEF StepOf
  <2>3. CASE /\ session'[p].pc = "journal"
             /\ session'[p].contended <=> \E r \in Appenders \ {p} : Active(r)
    BY <1>0, <1>2, <2>1, <2>3 DEF OwnVersion
  <2> QED
    BY <1>0, <1>2, <2>2, <2>3, OwnStep
<1>3. CASE q # p
  <2>1. Left(p, q) /\ session[q].pc \in OpeningSteps /\ ~session[q].contended
    BY <1>0, <1>1, <1>3 DEF Left, SameTask, SameSession
  <2>2. (\A r \in Appenders \ {q} : ~Active(r)) /\ OwnVersion(q)
    BY <2>1 DEF Undisturbed, OwnVersion
  <2>3. session[p].pc = "off"
    BY <1>3, <2>2 DEF Active
  <2>4. session'[p].pc = "off"
    BY <1>0, <2>1, <2>3 DEF Left
  <2>5. \A r \in Appenders \ {q} : ~Active(r)'
    BY <1>1, <2>2, <2>4 DEF Left, SameTask, SameSession, Active
  <2>6. CmdInit(p) \/ Start(p)
    <3>1. append[p].pc = "idle"
      BY <2>3, OnlyAtAppend
    <3> QED
      BY <2>3, <3>1 DEF StepOf, Die, Active, Opening, SetJournalMode, EnsureMigrationsTable,
         SelectApplied, BeginMigration, OpenTimesOut, ExecuteStatement, MigrationFails,
         CommitMigration, Working, SaveAction, SaveDecision, SaveFails, AppendEvent, EventAppended,
         EventLost, VerifyLedger, Inspect, Finish, AtWork, AppendInMemory, Commit, Busy, Rollback
  <2>7. schema' = schema
    BY <2>6 DEF CmdInit, Start, storeVars
  <2>8. OwnVersion(q)'
    BY <2>1, <2>2, <2>7 DEF OwnVersion, Left, SameTask, SameSession
  <2> QED
    BY <2>5, <2>8
<1> QED
  BY <1>2, <1>3

\* A process at work under the lock goes on, or gives the lock back.
LEMMA WriterStays ==
    ASSUME SharedInv, WriterWorks, NEW p \in Appenders, StepOf(p),
           \A r \in Appenders : TaskOK(session[r])
    PROVE  WriterWorks'
<1>0. /\ session \in [Appenders -> Sessions] /\ append \in [Appenders -> Appends]
      /\ writer \in Appenders \cup {NoAppender} /\ NoAppender \notin Appenders
  BY AuditChainAssumption DEF SharedInv, ChainInv, TypeOK
<1>1. ASSUME NEW q \in Appenders \ {p}, append'[q] = append[q], writer' = q, writer = q
      PROVE  WriterWorks'
  <2>1. SameTask(q)
    BY OthersStay DEF Left
  <2> QED
    BY <1>1, <2>1 DEF WriterWorks, InTransaction, SameTask, SameSession
<1>2. CASE writer' = NoAppender
  BY <1>2 DEF WriterWorks
<1>3. ASSUME append' = append, writer' = writer, ~InTransaction(p), session[p].pc # "migrate"
      PROVE  WriterWorks'
  <2>1. writer # p
    BY <1>0, <1>3 DEF WriterWorks
  <2> QED
    BY <1>0, <1>1, <1>2, <1>3, <2>1
<1>4. CASE CmdInit(p) \/ Start(p)
  <2>1. session[p].pc = "off" /\ append[p].pc = "idle"
    BY <1>4, OnlyAtAppend DEF CmdInit, Start, Active
  <2> QED
    BY <1>3, <1>4, <2>1 DEF CmdInit, Start, KeepLedger, vars, InTransaction
<1>5. CASE Die(p)
  <2>1. \A q \in Appenders \ {p} : append'[q] = append[q]
    BY <1>0, <1>5 DEF Die
  <2>2. writer' = IF writer = p THEN NoAppender ELSE writer
    BY <1>5 DEF Die
  <2> QED
    BY <1>0, <1>1, <1>2, <2>1, <2>2
<1>6. CASE SetJournalMode(p) \/ EnsureMigrationsTable(p) \/ SelectApplied(p) \/ OpenTimesOut(p)
  <2>1. session[p].pc \notin {"migrate", "ready"}
    BY <1>6 DEF SetJournalMode, EnsureMigrationsTable, SelectApplied, OpenTimesOut
  <2>2. append[p].pc = "idle"
    BY <2>1, OnlyAtAppend
  <2> QED
    BY <1>3, <1>6, <2>1, <2>2
    DEF SetJournalMode, EnsureMigrationsTable, SelectApplied, OpenTimesOut, KeepLedger, vars,
        InTransaction
<1>7. CASE BeginMigration(p)
  <2>1. writer' = p /\ session'[p].pc = "migrate"
    BY <1>0, <1>7 DEF BeginMigration, Sessions
  <2> QED
    BY <2>1 DEF WriterWorks
<1>8. CASE ExecuteStatement(p)
  <2>1. writer = p
    BY <1>8, Alone DEF ExecuteStatement
  <2>2. writer' = p /\ session'[p].pc = "migrate"
    BY <1>0, <1>8, <2>1 DEF ExecuteStatement, KeepLedger, vars, Sessions
  <2> QED
    BY <2>2 DEF WriterWorks
<1>9. CASE MigrationFails(p) \/ CommitMigration(p)
  BY <1>2, <1>9 DEF MigrationFails, CommitMigration
<1>10. CASE SaveAction(p) \/ SaveDecision(p) \/ SaveFails(p) \/ VerifyLedger(p) \/ Inspect(p) \/ Finish(p)
  <2>1. session[p].pc = "ready" /\ append[p].pc = "idle"
    BY <1>10, OnlyAtAppend
    DEF SaveAction, SaveDecision, SaveFails, VerifyLedger, Inspect, Finish, AtWork, TodoSteps
  <2> QED
    BY <1>3, <1>10, <2>1
    DEF SaveAction, SaveDecision, SaveFails, VerifyLedger, Inspect, Finish, KeepLedger, vars,
        InTransaction
<1>11. CASE Commit(p) \/ Rollback(p)
  BY <1>2, <1>11 DEF Commit, Rollback
<1>12. CASE Begin(p)
  <2>1. writer' = p /\ append'[p].pc = "read"
    BY <1>0, <1>12 DEF Begin, Appends
  <2> QED
    BY <2>1 DEF WriterWorks, InTransaction
<1>13. CASE ReadLast(p)
  <2>1. writer = p /\ writer' = p /\ append'[p].pc = "insert"
    BY <1>0, <1>13 DEF ReadLast, Appends, InTransaction, SharedInv, ChainInv, LockHeld
  <2> QED
    BY <2>1 DEF WriterWorks, InTransaction
<1>14. CASE \/ Request(p) /\ session[p].pc = "ready"
            \/ AppendInMemory(p) \/ Busy(p)
  <2>1. session[p].pc = "ready" /\ ~InTransaction(p)
    BY <1>14, OnlyAtAppend DEF Request, AppendInMemory, Busy, InTransaction
  <2>2. writer # p
    BY <1>0, <2>1 DEF WriterWorks
  <2>3. writer' = writer /\ \A q \in Appenders \ {p} : append'[q] = append[q]
    BY <1>0, <1>14 DEF Request, AppendInMemory, Busy, Ends
  <2> QED
    BY <1>0, <1>1, <1>2, <2>2, <2>3
<1> QED
  BY <1>4, <1>5, <1>6, <1>7, <1>8, <1>9, <1>10, <1>11, <1>12, <1>13, <1>14
  DEF StepOf, Opening, Working, AppendEvent, EventAppended, EventLost, AtWork

\* The damage of the file is history: nobody undoes it.
LEMMA DamageGrows ==
    ASSUME SharedInv, damages = 0 => damagedSeq = 0, [SharedNext]_sharedVars
    PROVE  /\ (damages = 0 => damagedSeq = 0)'
           /\ (UNCHANGED <<damages, damagedSeq>>) \/ (damages' = damages + 1)
<1>1. damages \in Nat
  BY DEF SharedInv, ChainInv, TypeOK
<1>2. ASSUME NEW i \in DOMAIN log, Outside(i) PROVE damages' = damages + 1
  BY <1>2 DEF Outside, EditRow, DeleteRow, SwapRows, Damage
<1> QED
  BY <1>1, <1>2, LedgerMoves

\* The file as it is found, with nobody at work.
LEMMA SessionInit == SharedInit => SessionInv
<1> SUFFICES ASSUME SharedInit PROVE SessionInv
  OBVIOUS
<1>1. \A p \in Appenders : session[p] = Idle
  BY DEF SharedInit
<1>2. Idle.pc = "off" /\ Idle.store = "none" /\ Idle.damaged = FALSE
  BY DEF Idle
<1>3. \A p \in Appenders : TaskOK(session[p]) /\ DamageSeen(p) /\ Undisturbed(p)
  BY <1>1, <1>2 DEF TaskOK, OpeningSteps, DamageSeen, Undisturbed
<1> QED
  BY <1>3, SharedInitKeeps DEF SessionInv, SharedInit, Init, DamageIsLocated, WriterWorks

\* The invariant of the sessions is inductive.
LEMMA SessionStep == SessionInv /\ [SharedNext]_sharedVars => SessionInv'
<1> SUFFICES ASSUME SessionInv, [SharedNext]_sharedVars PROVE SessionInv'
  OBVIOUS
<1>0. /\ SharedInv /\ ChainInv /\ DamageIsLocated /\ (damages = 0 => damagedSeq = 0) /\ WriterWorks
      /\ \A p \in Appenders : TaskOK(session[p]) /\ DamageSeen(p) /\ Undisturbed(p)
  BY DEF SessionInv, SharedInv
<1>1. SharedInv' /\ DamageIsLocated'
  BY <1>0, SharedStep, LedgerMoves, LocationStays
<1>2. /\ (damages = 0 => damagedSeq = 0)'
      /\ (UNCHANGED <<damages, damagedSeq>>) \/ (damages' = damages + 1)
  BY <1>0, DamageGrows
<1>3. damages \in Nat
  BY <1>0 DEF ChainInv, TypeOK
<1>4. ASSUME NEW p \in Appenders, StepOf(p) PROVE SessionInv'
  <2>1. \A q \in Appenders \ {p} : Left(p, q)
    BY <1>0, <1>4, OthersStay
  <2>2. WriterWorks'
    BY <1>0, <1>4, WriterStays
  <2>3. ASSUME NEW q \in Appenders PROVE TaskOK(session'[q]) /\ DamageSeen(q)' /\ Undisturbed(q)'
    <3>1. Undisturbed(q)'
      BY <1>0, <1>4, AloneStays
    <3>2. TaskOK(session'[q]) /\ (session'[q].damaged => session[q].damaged \/ damagedSeq # 0)
      <4>1. CASE q = p
        BY <1>0, <1>4, <4>1, OwnStep
      <4>2. CASE q # p
        BY <1>0, <2>1, <4>2 DEF Left, SameTask, SameSession, TaskOK, CheckProgress
      <4> QED
        BY <4>1, <4>2
    <3>3. DamageSeen(q)'
      BY <1>0, <1>2, <1>3, <3>2 DEF DamageSeen
    <3> QED
      BY <3>1, <3>2, <3>3
  <2> QED
    BY <1>1, <1>2, <2>2, <2>3 DEF SessionInv
<1>5. CASE \/ \E i \in DOMAIN log : TamperWith(i)
           \/ UNCHANGED sharedVars
  <2>1. UNCHANGED <<session, schema, writer, append>>
    BY <1>5 DEF TamperWith, Outside, EditRow, DeleteRow, SwapRows, Damage, sharedVars, storeVars, vars
  <2>2. WriterWorks' /\ \A q \in Appenders : TaskOK(session'[q]) /\ Undisturbed(q)'
    BY <1>0, <2>1 DEF WriterWorks, InTransaction, Undisturbed, Active
  <2>3. \A q \in Appenders : DamageSeen(q)'
    BY <1>0, <1>2, <1>3, <2>1 DEF DamageSeen
  <2> QED
    BY <1>1, <1>2, <2>2, <2>3 DEF SessionInv
<1> QED
  BY <1>4, <1>5 DEF SharedNext, StepOf

\* It holds in every reachable state of the shared file.
LEMMA SessionInvariant == SharedSpec => []SessionInv
BY SessionInit, SessionStep, PTL DEF SharedSpec

\* A command that ends by itself took that step.
LEMMA WhoEnds ==
    ASSUME SessionInv, [SharedNext]_sharedVars, NEW p \in Appenders, NEW code \in {0, 1, 2},
           EndsWith(p, code)
    PROVE  /\ Active(p)
           /\ \/ Opening(p) /\ session[p].store = "opening"
              \/ Working(p) /\ session[p].store = "opened"
<1>0. /\ SharedInv /\ session[p].pc # "off" /\ session'[p].pc = "off" /\ session'[p].exit = code
      /\ \A q \in Appenders : TaskOK(session[q])
  BY DEF SessionInv, EndsWith, Active
<1>1. PICK q \in Appenders : StepOf(q)
  BY <1>0 DEF SharedNext, TamperWith, sharedVars, StepOf
<1>2. q = p
  BY <1>0, <1>1, OthersStay DEF Left, SameTask, SameSession
<1>3. Active(p) /\ ~CmdInit(p) /\ ~Start(p)
  BY <1>0 DEF CmdInit, Start, Active
<1>4. ~Die(p)
  <2>1. NoExit \notin {0, 1, 2}
    BY DEF NoExit
  <2> QED
    BY <1>0, <2>1, EndedSession
<1>5. ASSUME Opening(p) PROVE session[p].store = "opening"
  <2>1. session[p].pc \in OpeningSteps
    BY <1>5 DEF Opening, SetJournalMode, EnsureMigrationsTable, SelectApplied, BeginMigration,
       OpenTimesOut, ExecuteStatement, MigrationFails, CommitMigration, OpeningSteps
  <2> QED
    BY <1>0, <2>1 DEF TaskOK
<1>6. ASSUME Working(p) PROVE session[p].store = "opened"
  <2>1. append[p].pc # "idle" => session[p].pc = "ready"
    BY <1>0, OnlyAtAppend
  <2>2. session[p].pc = "ready"
    BY <1>6, <2>1 DEF Working, SaveAction, SaveDecision, SaveFails, AppendEvent, EventAppended,
       EventLost, VerifyLedger, Inspect, Finish, AtWork, AppendInMemory, Commit, Busy, Rollback
  <2> QED
    BY <1>0, <2>2 DEF TaskOK
<1> QED
  BY <1>1, <1>2, <1>3, <1>4, <1>5, <1>6 DEF StepOf

\* No statement of a migration fails that nobody else has met.
LEMMA NoConflict ==
    ASSUME SessionInv, NEW p \in Appenders, session[p].pc = "migrate", OwnVersion(p)
    PROVE  ~StatementConflicts(p)
<1>1. /\ session[p].version \in {1, 2} /\ session[p].step \in 1..(Len(Statements[session[p].version]) + 1)
      /\ work = [parts |-> schema.parts \cup DoneBefore(session[p].version, session[p].step),
                 versions |-> schema.versions]
      /\ MigrationsAreAtomic
  BY StatementFacts DEF SessionInv, SharedInv, Local, SchemaOK
<1>2. session[p].version \notin schema.versions
  BY <1>1 DEF OwnVersion
<1>3. CASE AtRecording(p)
  BY <1>1, <1>2, <1>3 DEF StatementConflicts
<1>4. CASE ~AtRecording(p)
  <2>1. CASE session[p].version = 1
    <3>1. session[p].step \in 1..2
      BY <1>1, <1>4, <2>1, StatementFacts DEF AtRecording
    <3>2. Statements[1][1] \in Repeatable /\ Statements[1][2] \in Repeatable
      BY DEF Statements, Repeatable
    <3>3. Statement(p) \in Repeatable
      BY <2>1, <3>1, <3>2 DEF Statement
    <3> QED
      BY <1>4, <3>3 DEF StatementConflicts
  <2>2. CASE session[p].version = 2
    <3>1. session[p].step \in 1..4
      BY <1>1, <1>4, <2>2, StatementFacts DEF AtRecording
    <3>2. \A i, j \in 1..4 : Statements[2][i] = Statements[2][j] => i = j
      BY DEF Statements
    <3>3. Statement(p) \notin DoneBefore(session[p].version, session[p].step)
      <4>1. ASSUME NEW i \in 1..(session[p].step - 1) PROVE Statements[2][i] # Statements[2][session[p].step]
        BY <3>1, <3>2, <4>1
      <4> QED
        BY <2>2, <4>1 DEF DoneBefore, Statement
    <3>4. Statement(p) \in PartsOf(2)
      BY <2>2, <3>1, StatementFacts DEF Statement
    <3>5. Statement(p) \notin schema.parts
      BY <1>1, <1>2, <2>2, <3>4 DEF MigrationsAreAtomic
    <3> QED
      BY <1>1, <1>4, <3>3, <3>5 DEF StatementConflicts
  <2> QED
    BY <1>1, <2>1, <2>2
<1> QED
  BY <1>3, <1>4

\* Opening the store fails a command only in a race: whatever earlier processes left behind,
\* a migration finds no statement done and no lock held when nobody else was at work.
THEOREM UncontendedOpens == SharedSpec => UncontendedOpenSucceeds
<1> DEFINE Opened(p) == \A code \in {1, 2} :
                            EndsWith(p, code) /\ session[p].store = "opening" => session[p].contended
<1>1. ASSUME SessionInv, [SharedNext]_sharedVars, NEW p \in Appenders PROVE Opened(p)
  <2> SUFFICES ASSUME NEW code \in {1, 2}, EndsWith(p, code), session[p].store = "opening",
                      ~session[p].contended
               PROVE  FALSE
    BY DEF EndsWith
  <2>0. /\ SharedInv /\ TaskOK(session[p]) /\ Undisturbed(p) /\ WriterWorks
        /\ session'[p].pc = "off"
    BY <1>1 DEF SessionInv, EndsWith
  <2>1. Opening(p) /\ session[p].pc \in OpeningSteps
    BY <1>1, <2>0, WhoEnds DEF TaskOK
  <2>2. (\A q \in Appenders \ {p} : ~Active(q)) /\ OwnVersion(p)
    BY <2>0, <2>1 DEF Undisturbed, OwnVersion
  <2>4. CASE SetJournalMode(p)
    <3>1. Goto(p, "ensure") \/ \E q \in Appenders \ {p} : session[q].pc = "journal"
      BY <2>4 DEF SetJournalMode
    <3>2. ~Goto(p, "ensure")
      BY <2>0 DEF Goto, SharedInv, Sessions
    <3> QED
      BY <2>2, <3>1, <3>2 DEF Active
  <2>5. CASE OpenTimesOut(p)
    <3>1. writer \in Appenders \ {p}
      BY <2>0, <2>5 DEF OpenTimesOut, SharedInv, ChainInv, TypeOK
    <3>2. InTransaction(writer) \/ session[writer].pc = "migrate"
      BY <2>0, <3>1, AuditChainAssumption DEF WriterWorks
    <3>3. append[writer].pc # "idle" => session[writer].pc = "ready"
      BY <2>0, <3>1, OnlyAtAppend
    <3> QED
      BY <2>2, <3>1, <3>2, <3>3 DEF Active, InTransaction
  <2>6. CASE MigrationFails(p)
    BY <1>1, <2>2, <2>6, NoConflict DEF MigrationFails
  <2>7. CASE \/ EnsureMigrationsTable(p) \/ SelectApplied(p) \/ BeginMigration(p)
             \/ ExecuteStatement(p) \/ CommitMigration(p)
    <3>1. session \in [Appenders -> Sessions] /\ session[p] \in Sessions
      BY <2>0 DEF SharedInv
    <3>2. \A r \in Sessions : \A version \in 0..2 : Proceeds(r, version).pc \in {"ready", "begin"}
      BY DEF Proceeds, Sessions
    <3>3. CASE EnsureMigrationsTable(p) \/ BeginMigration(p)
      BY <2>0, <3>1, <3>3 DEF EnsureMigrationsTable, BeginMigration, Goto, Sessions
    <3>4. CASE ExecuteStatement(p)
      BY <2>0, <3>1, <3>4 DEF ExecuteStatement, Sessions
    <3>5. CASE SelectApplied(p)
      <4> DEFINE read == [session[p] EXCEPT !.applied = AppliedVersions]
      <4>1. session'[p] = Proceeds(read, Pending(AppliedVersions, 0))
        BY <3>1, <3>5 DEF SelectApplied
      <4>2. read \in Sessions
        <5>1. AppliedVersions \in SUBSET {1, 2}
          BY <2>0, StatementFacts DEF SharedInv, SchemaOK, AppliedVersions
        <5> QED
          BY <3>1, <5>1, FieldTypes, Zenon
      <4> HIDE DEF read
      <4> QED
        BY <2>0, <3>2, <4>1, <4>2, PendingFacts
    <3>6. CASE CommitMigration(p)
      <4>1. session'[p] = Proceeds(session[p], Pending(session[p].applied, session[p].version))
        BY <3>1, <3>6 DEF CommitMigration
      <4>2. session[p].version \in 0..2
        BY <3>1 DEF Sessions
      <4> QED
        BY <2>0, <3>1, <3>2, <4>1, <4>2, PendingFacts
    <3> QED
      BY <2>7, <3>3, <3>4, <3>5, <3>6
  <2> QED
    BY <2>1, <2>4, <2>5, <2>6, <2>7 DEF Opening
<1>2. SessionInv /\ [SharedNext]_sharedVars => [\A p \in Appenders : Opened(p)]_sharedVars
  BY <1>1
<1> QED
  BY <1>2, SessionInvariant, PTL DEF SharedSpec, UncontendedOpenSucceeds

\* `verify` and `doctor` say of the ledger what is true of it: what they call broken was
\* damaged, and damage there was when they started is found.
THEOREM VerdictsAreTrue == SharedSpec => VerdictIsTrue
<1> DEFINE Told(p) ==
        session[p].command \in Verifying /\ session[p].store = "opened" =>
            /\ EndsWith(p, 1) => damages > 0
            /\ EndsWith(p, 0) /\ damages <= 1 => ~session[p].damaged
<1>1. ASSUME SessionInv, [SharedNext]_sharedVars, NEW p \in Appenders PROVE Told(p)
  <2> SUFFICES ASSUME session[p].command \in Verifying, session[p].store = "opened",
                      NEW code \in {0, 1}, EndsWith(p, code)
               PROVE  /\ code = 1 => damages > 0
                      /\ code = 0 /\ damages <= 1 => ~session[p].damaged
    BY DEF EndsWith
  <2>0. /\ SharedInv /\ TaskOK(session[p]) /\ DamageSeen(p) /\ DamageIsLocated
        /\ UntouchedLogVerifies /\ damages \in Nat
        /\ session'[p].pc = "off" /\ session'[p].exit = code
    BY <1>1 DEF SessionInv, SharedInv, ChainInv, TypeOK, EndsWith
  <2>1. Working(p)
    BY <1>1, WhoEnds
  <2>2. session[p].todo = <<"verify">> /\ session[p].pc = "ready"
    BY <2>0 DEF TaskOK
  <2>3. \A step : AtWork(p, step) => step = "verify"
    BY <2>2 DEF AtWork
  <2>4. append[p].pc = "idle"
    BY <2>0, <2>3 DEF SharedInv, Local
  <2>5. VerifyLedger(p)
    <3>1. ~SaveAction(p) /\ ~SaveDecision(p) /\ ~SaveFails(p) /\ ~AppendEvent(p) /\ ~Inspect(p)
      BY <2>3 DEF SaveAction, SaveDecision, SaveFails, AppendEvent, Inspect
    <3>2. ~EventAppended(p) /\ ~EventLost(p)
      BY <2>4 DEF EventAppended, EventLost, AppendInMemory, Commit, Busy, Rollback
    <3>3. ~Finish(p)
      <4>1. <<"verify">> # <<>>
        OBVIOUS
      <4> QED
        BY <2>2, <4>1 DEF Finish
    <3> QED
      BY <2>1, <3>1, <3>2, <3>3 DEF Working
  <2>6. code = VerificationExit
    <3>1. VerificationExit \in {0, 1, 2} /\ Exit(p, VerificationExit)
      BY <2>5 DEF VerifyLedger, VerificationExit
    <3> QED
      BY <2>0, <3>1, EndedSession
  <2>7. CASE code = 1
    BY <2>0, <2>6, <2>7 DEF VerificationExit, UntouchedLogVerifies
  <2>8. CASE code = 0
    <3>1. VerifyOk
      BY <2>6, <2>8 DEF VerificationExit
    <3>2. ASSUME damages <= 1, session[p].damaged PROVE FALSE
      <4>1. damages = 1 /\ damagedSeq # 0
        BY <2>0, <3>2 DEF DamageSeen
      <4>2. PICK i \in DOMAIN log : FirstBreak(i)
        BY <2>0, <4>1 DEF DamageIsLocated
      <4> QED
        BY <3>1, <4>2 DEF FirstBreak, VerifyOk
    <3> QED
      BY <2>8, <3>2
  <2> QED
    BY <2>7, <2>8
<1>2. SessionInv /\ [SharedNext]_sharedVars => [\A p \in Appenders : Told(p)]_sharedVars
  BY <1>1
<1> QED
  BY <1>2, SessionInvariant, PTL DEF SharedSpec, VerdictIsTrue

\* `ssf check` exits with 0 only when the action was allowed in fact, and both its events are
\* in the ledger by then.
THEOREM ZeroIsAllowed == SharedSpec => ZeroMeansAllowedAndRecorded
<1> DEFINE Allowed(p) ==
        session[p].command = "check" /\ EndsWith(p, 0) =>
            session[p].decided = "ALLOW" /\ session[p].recorded = 2
<1>1. ASSUME SessionInv, [SharedNext]_sharedVars, NEW p \in Appenders PROVE Allowed(p)
  <2> SUFFICES ASSUME session[p].command = "check", EndsWith(p, 0)
               PROVE  session[p].decided = "ALLOW" /\ session[p].recorded = 2
    OBVIOUS
  <2>0. /\ SharedInv /\ TaskOK(session[p])
        /\ session'[p].pc = "off" /\ session'[p].exit = 0
    BY <1>1 DEF SessionInv, EndsWith
  <2>1. ASSUME NEW code \in {1, 2}, Exit(p, code) PROVE FALSE
    <3>1. code \in {0, 1, 2} /\ code # 0
      OBVIOUS
    <3> QED
      BY <2>0, <2>1, <3>1, EndedSession
  <2>2. ~Opening(p)
    BY <2>0, <2>1, OpeningAdvances DEF Advances
  <2>3. Working(p) /\ session[p].store = "opened"
    BY <1>1, <2>2, WhoEnds
  <2>4. session[p].pc = "ready" /\ CheckProgress(session[p])
    BY <2>0, <2>3 DEF TaskOK
  <2>5. \A step : AtWork(p, step) => step \in {"save", "append", "decide"}
    BY <2>4, CheckSteps DEF CheckProgress, AtWork
  <2>6. CASE Finish(p)
    <3>1. session[p].decided \in Decisions /\ session[p].recorded = 2
      BY <2>4, <2>6 DEF CheckProgress, Finish
    <3> DEFINE exit == DecisionExit(RecordOf(session[p].decided, session[p].observing))
    <3>2. exit \in {0, 1} /\ Exit(p, exit)
      BY <2>6 DEF Finish, DecisionExit
    <3>3. exit = 0
      BY <2>1, <3>2
    <3>4. session[p].decided = "DENY" => exit = 1
      BY DEF DecisionExit, RecordOf
    <3> QED
      BY <3>1, <3>3, <3>4 DEF Decisions
  <2>7. ~Finish(p) => FALSE
    <3>1. ~VerifyLedger(p) /\ ~Inspect(p)
      BY <2>5 DEF VerifyLedger, Inspect
    <3>2. ~SaveFails(p) /\ ~EventLost(p)
      BY <2>1 DEF SaveFails, EventLost
    <3>3. session \in [Appenders -> Sessions] /\ session[p] \in Sessions
      BY <2>0 DEF SharedInv
    <3>4. ~AppendEvent(p)
      BY <2>0, <2>4 DEF AppendEvent
    <3>5. ~SaveAction(p)
      BY <2>0, <2>4, <3>3 DEF SaveAction, Done, Sessions
    <3>6. ~SaveDecision(p)
      <4> SUFFICES ASSUME SaveDecision(p) PROVE FALSE
        OBVIOUS
      <4>1. PICK decided \in Decisions, observing \in BOOLEAN :
                session' = [session EXCEPT ![p].todo = Tail(session[p].todo), ![p].decided = decided,
                                           ![p].observing = observing]
        BY DEF SaveDecision
      <4>2. session'[p] = [session[p] EXCEPT !.todo = Tail(session[p].todo), !.decided = decided,
                                             !.observing = observing]
        BY <3>3, <4>1
      <4>3. session'[p].pc = session[p].pc
        BY <3>3, <4>2 DEF Sessions
      <4> QED
        BY <2>0, <2>4, <4>3
    <3>7. ~EventAppended(p)
      BY <2>0, <2>4, <3>3 DEF EventAppended, Sessions
    <3> QED
      BY <2>3, <3>1, <3>2, <3>4, <3>5, <3>6, <3>7 DEF Working
  <2> QED
    BY <2>6, <2>7
<1>2. SessionInv /\ [SharedNext]_sharedVars => [\A p \in Appenders : Allowed(p)]_sharedVars
  BY <1>1
<1> QED
  BY <1>2, SessionInvariant, PTL DEF SharedSpec, ZeroMeansAllowedAndRecorded

=============================================================================
