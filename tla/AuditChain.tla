------------------------------ MODULE AuditChain ------------------------------
(***************************************************************************)
(* The audit ledger: processes append hash-chained records to one store,   *)
(* may die while they do, and verify() recomputes the chain after rows of  *)
(* the file were edited, deleted or exchanged behind the store's back      *)
(* (src/audit/audit-engine.ts, appendAudit and listAllAuditRecords of      *)
(* src/storage/sqlite/store.ts and src/storage/memory/memory-store.ts).    *)
(*                                                                         *)
(* The hash is ideal: it is the sequence of all it was computed from, so   *)
(* different inputs have different hashes.                                 *)
(***************************************************************************)
EXTENDS Integers, Sequences

CONSTANTS
    Appenders,      \* processes with a connection to the store
    NoAppender,     \* not a process
    Bodies,         \* canonical contents of events; repeating one only hides damage better
    Backends,       \* the stores considered, of "memory" and "sqlite"
    MaxRecords,     \* bound on the length of the ledger
    MaxDamage       \* bound on changes of the file from outside

ASSUME AuditChainAssumption ==
    /\ NoAppender \notin Appenders
    /\ Bodies # {}
    /\ Backends \subseteq {"memory", "sqlite"}
    /\ MaxRecords \in Nat
    /\ MaxDamage \in Nat

VARIABLES
    backend,
    log,            \* the rows of audit_events, in the order of seq
    lastSeq,        \* the largest seq ever assigned
    writer,         \* the connection that holds the write lock
    append,         \* what each process is appending
    damages,        \* history: how often the file was changed from outside
    damagedSeq      \* history: the seq of the row at which that shows; 0 if none

vars == <<backend, log, lastSeq, writer, append, damages, damagedSeq>>

GenesisHash == <<>>

Hashes == Seq(Bodies)

Records == [seq : Nat \ {0}, body : Bodies, prev_hash : Hashes, record_hash : Hashes]

\* An append between its request and its commit.  `base` is the hash it chains to.
Appends == [pc : {"idle", "begin", "read", "insert"}, body : Bodies, base : Hashes]

NoAppend == [pc |-> "idle", body |-> CHOOSE body \in Bodies : TRUE, base |-> GenesisHash]

TypeOK ==
    /\ backend \in Backends
    /\ log \in Seq(Records)
    /\ lastSeq \in Nat
    /\ writer \in Appenders \cup {NoAppender}
    /\ append \in [Appenders -> Appends]
    /\ damages \in Nat
    /\ damagedSeq \in Nat

Init ==
    /\ backend \in Backends
    /\ log = <<>>
    /\ lastSeq = 0
    /\ writer = NoAppender
    /\ append = [p \in Appenders |-> NoAppend]
    /\ damages = 0
    /\ damagedSeq = 0

-----------------------------------------------------------------------------
(* Hashing and verification. *)

\* computeAuditHashes.
RecordHash(prev, body) == Append(prev, body)

\* The hash the next record commits to.
LastHash == IF log = <<>> THEN GenesisHash ELSE log[Len(log)].record_hash

\* What verify() expects record i to link to.
ExpectedPrev(i) == IF i = 1 THEN GenesisHash ELSE log[i - 1].record_hash

\* Mutant: only the links are compared.
MutantChecksLinksOnly(i) == log[i].prev_hash # ExpectedPrev(i)

BreaksAt(i) ==
    \/ log[i].prev_hash # ExpectedPrev(i)
    \/ log[i].record_hash # RecordHash(log[i].prev_hash, log[i].body)

\* verify() stops at the first record that breaks the chain.
FirstBreak(i) == i \in DOMAIN log /\ BreaksAt(i) /\ \A j \in 1..(i - 1) : ~BreaksAt(j)

VerifyOk == \A i \in DOMAIN log : ~BreaksAt(i)

-----------------------------------------------------------------------------
(* Appending. *)

\* The row an append writes.  Its seq comes from the sequence of the store, which
\* never assigns a seq twice.
NewRecord(base, body) ==
    [seq |-> lastSeq + 1, body |-> body, prev_hash |-> base, record_hash |-> RecordHash(base, body)]

Insert(record) ==
    /\ log' = Append(log, record)
    /\ lastSeq' = record.seq

Ends(p) == append' = [append EXCEPT ![p] = NoAppend]

\* AuditEngine.append hands an event to the store.
Request(p) ==
    /\ append[p].pc = "idle"
    /\ Len(log) < MaxRecords
    /\ \E body \in Bodies :
           append' = [append EXCEPT ![p] = [pc |-> "begin", body |-> body, base |-> GenesisHash]]
    /\ UNCHANGED <<backend, log, lastSeq, writer, damages, damagedSeq>>

\* The memory store appends in one synchronous turn.
AppendInMemory(p) ==
    /\ backend = "memory"
    /\ append[p].pc = "begin"
    /\ Insert(NewRecord(LastHash, append[p].body))
    /\ Ends(p)
    /\ UNCHANGED <<backend, writer, damages, damagedSeq>>

\* Mutant: the transaction starts without the write lock.
MutantBeginsDeferred(p) ==
    /\ backend = "sqlite"
    /\ append[p].pc = "begin"
    /\ writer' = p
    /\ append' = [append EXCEPT ![p].pc = "read"]
    /\ UNCHANGED <<backend, log, lastSeq, damages, damagedSeq>>

\* BEGIN IMMEDIATE takes the write lock of the file ...
Begin(p) ==
    /\ backend = "sqlite"
    /\ append[p].pc = "begin"
    /\ writer = NoAppender
    /\ writer' = p
    /\ append' = [append EXCEPT ![p].pc = "read"]
    /\ UNCHANGED <<backend, log, lastSeq, damages, damagedSeq>>

\* ... or gives up after the busy timeout: the append fails, the event is lost.
Busy(p) ==
    /\ backend = "sqlite"
    /\ append[p].pc = "begin"
    /\ writer # NoAppender
    /\ Ends(p)
    /\ UNCHANGED <<backend, log, lastSeq, writer, damages, damagedSeq>>

\* The last row is read and the new one computed from it ...
ReadLast(p) ==
    /\ append[p].pc = "read"
    /\ append' = [append EXCEPT ![p].pc = "insert", ![p].base = LastHash]
    /\ UNCHANGED <<backend, log, lastSeq, writer, damages, damagedSeq>>

\* ... inserted and committed.  Nobody sees the row before the commit.
Commit(p) ==
    /\ append[p].pc = "insert"
    /\ Insert(NewRecord(append[p].base, append[p].body))
    /\ writer' = NoAppender
    /\ Ends(p)
    /\ UNCHANGED <<backend, damages, damagedSeq>>

\* The process dies or a statement fails: the transaction is rolled back.
Rollback(p) ==
    /\ append[p].pc \in {"read", "insert"}
    /\ writer' = NoAppender
    /\ Ends(p)
    /\ UNCHANGED <<backend, log, lastSeq, damages, damagedSeq>>

-----------------------------------------------------------------------------
(* Changes of the file by somebody else. *)

\* The first damage that shows is remembered.
Damage(seq) ==
    /\ backend = "sqlite"
    /\ writer = NoAppender
    /\ damages < MaxDamage
    /\ damages' = damages + 1
    /\ damagedSeq' = seq
    /\ UNCHANGED <<backend, lastSeq, writer, append>>

\* The content of a row is rewritten.
EditRow(i) ==
    /\ \E body \in Bodies \ {log[i].body} : log' = [log EXCEPT ![i].body = body]
    /\ Damage(log[i].seq)

\* A row is deleted; the deletion of the last one leaves an intact chain.
DeleteRow(i) ==
    /\ log' = SubSeq(log, 1, i - 1) \o SubSeq(log, i + 1, Len(log))
    /\ Damage(IF i = Len(log) THEN 0 ELSE log[i + 1].seq)

\* Two neighbouring rows exchange their places.
SwapRows(i) ==
    /\ i < Len(log)
    /\ log' = [log EXCEPT ![i] = [log[i + 1] EXCEPT !.seq = log[i].seq],
                          ![i + 1] = [log[i] EXCEPT !.seq = log[i + 1].seq]]
    /\ Damage(log[i].seq)

Appending(p) ==
    Request(p) \/ AppendInMemory(p) \/ Begin(p) \/ Busy(p) \/ ReadLast(p) \/ Commit(p) \/ Rollback(p)

Outside(i) == EditRow(i) \/ DeleteRow(i) \/ SwapRows(i)

Next ==
    \/ \E p \in Appenders : Appending(p)
    \/ \E i \in DOMAIN log : Outside(i)

Spec == Init /\ [][Next]_vars

-----------------------------------------------------------------------------
(* Properties. *)

\* A ledger nobody changed verifies, whatever processes append to it at the same
\* time, give up or die: the chain never forks, and no append leaves a gap.
UntouchedLogVerifies == damages = 0 => VerifyOk

\* One edit, deletion or exchange of rows breaks the chain for good, and verify()
\* reports the row at which it shows, however many records are appended after it.
\* Only the deletion of the last row leaves a chain that verifies.
DamageIsLocated ==
    damages = 1 =>
        IF damagedSeq = 0 THEN VerifyOk
        ELSE \E i \in DOMAIN log : log[i].seq = damagedSeq /\ FirstBreak(i)
=============================================================================
