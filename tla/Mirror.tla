------------------------------- MODULE Mirror -------------------------------
(***************************************************************************)
(* The write side of the mirror: staging, standalone promotion and         *)
(* checkpoint ingestion, as concurrent requests over one store.            *)
(*                                                                         *)
(* Every store method takes the store's one mutex for its own duration     *)
(* (Store::with_conn), and a multi-step admission runs in one SQLite       *)
(* transaction that holds the mutex from begin to commit                   *)
(* (Store::with_transaction).  A request is therefore a few critical       *)
(* sections with unlocked gaps between them, and other requests run in     *)
(* the gaps.  The transaction works on a copy of the entries table that    *)
(* replaces it at commit and is dropped on an error or a crash.            *)
(*                                                                         *)
(* The tables are those of AtomicMirror, which this module implements:     *)
(* the refinement mapping is the identity on them.                         *)
(***************************************************************************)
EXTENDS AtomicMirror

CONSTANT Request    \* request slots: the requests in flight at one time

VARIABLES
    call,           \* call[p]: the request in slot p
    tx              \* the open transaction and its copy of the entries table

vars == <<staged, entries, checkpoints, rotations, call, tx, admitted>>

-----------------------------------------------------------------------------
(* Requests.                                                               *)

Idle == [step |-> "idle"]
Closed == [open |-> FALSE]

Init ==
    /\ staged = {}
    /\ entries = EmptyTable
    /\ checkpoints = {}
    /\ rotations = {}
    /\ call = [p \in Request |-> Idle]
    /\ tx = Closed
    /\ admitted = {}

(* stage_entry: bytes that pass the envelope checks are staged under their *)
(* own hash; repeating a submission changes nothing.                       *)
Stage(e) ==
    /\ ~tx.open
    /\ staged' = staged \cup {e}
    /\ UNCHANGED <<entries, checkpoints, rotations, call, tx, admitted>>

(* ingest_checkpoint, first critical section: the size bound, then the     *)
(* canonical rows below the tree size.                                     *)
IngestRead(p, s) ==
    /\ call[p] = Idle
    /\ ~tx.open
    /\ s.cp.size <= MaxTreeSize
    /\ call' = [call EXCEPT ![p] =
            [ step |-> "read", cp |-> s.cp, batch |-> s.batch, named |-> s.named,
              seen |-> Below(entries, s.cp.size) ]]
    /\ UNCHANGED <<staged, entries, checkpoints, rotations, tx, admitted>>

(* ingest_checkpoint, second part: read the staged bytes of the overlay,   *)
(* resolve governance from the visible prefix, judge the signature.  The   *)
(* entries table is not read again.                                        *)
IngestResolve(p) ==
    /\ call[p].step = "read"
    /\ ~tx.open
    /\ LET cp == call[p].cp
           batch == call[p].batch
           log == VisiblePrefix(cp, batch, call[p].seen)
           refused == \/ OverlayRefused(cp, batch, Cardinality(DOMAIN call[p].seen), staged)
                      \/ ~Admissible(log, cp, call[p].named)
       IN call' = [call EXCEPT ![p] =
            IF refused THEN Idle
            ELSE [ step |-> "ready", records |-> TRUE, cp |-> cp, batch |-> batch,
                   named |-> call[p].named, seen |-> log, member |-> VerifiesUnder(Active(log), cp),
                   anchors |-> Anchors(log, cp) ]]
    /\ UNCHANGED <<staged, entries, checkpoints, rotations, tx, admitted>>

(* promote_handler, first critical section: Store::get_checkpoint picks    *)
(* the latest recorded series member of that size; none is a 404.          *)
PromoteRead(p, cp, claim) ==
    /\ call[p] = Idle
    /\ ~tx.open
    /\ cp \in checkpoints
    /\ \A other \in checkpoints : other.size = cp.size => other.time <= cp.time
    /\ call' = [call EXCEPT ![p] =
            [ step |-> "ready", records |-> FALSE, cp |-> cp, batch |-> <<claim>>,
              named |-> NotNamed, seen |-> EmptyTable, member |-> FALSE, anchors |-> {} ]]
    /\ UNCHANGED <<staged, entries, checkpoints, rotations, tx, admitted>>

-----------------------------------------------------------------------------
(* The transaction of an ingestion or a standalone promotion.              *)

TxBegin(p) ==
    /\ call[p].step = "ready"
    /\ ~tx.open
    /\ tx' = [open |-> TRUE, owner |-> p, table |-> entries, done |-> 0]
    /\ UNCHANGED <<staged, entries, checkpoints, rotations, call, admitted>>

Owns(p) == tx.open /\ tx.owner = p
(* Mutant: the last claim of a batch is skipped.                           *)
PendingButLast(p) == tx.done + 1 < Len(call[p].batch)
Pending(p) == tx.done < Len(call[p].batch)
NextClaim(p) == call[p].batch[tx.done + 1]

(* An error: the transaction rolls back and the request is refused.        *)
(* Mutant: an error keeps the rows of its transaction.                     *)
KeepRows(p) ==
    /\ tx' = Closed
    /\ entries' = tx.table
    /\ call' = [call EXCEPT ![p] = Idle]
    /\ UNCHANGED <<staged, checkpoints, rotations, admitted>>
Rollback(p) ==
    /\ tx' = Closed
    /\ call' = [call EXCEPT ![p] = Idle]
    /\ UNCHANGED <<staged, entries, checkpoints, rotations, admitted>>

(* promote_entry_in: staged, proved under the checkpoint, and then either  *)
(* already at its index or new and next.                                   *)
(* Mutants: the bytes need not be staged; the proof is not verified.       *)
ProvedUnstaged(p, claim) == Opens(call[p].cp, claim)
StagedOnly(p, claim) == claim.entry \in staged
Proved(p, claim) == claim.entry \in staged /\ Opens(call[p].cp, claim)
IsNext(table, claim) ==
    claim.entry \notin Range(table) /\ claim.index = NextIndex(table)

Extend(table, claim) ==
    [i \in DOMAIN table \cup {claim.index} |->
        IF i = claim.index THEN claim.entry ELSE table[i]]

PromoteRepeated(p) ==
    /\ Owns(p) /\ Pending(p)
    /\ Proved(p, NextClaim(p))
    /\ AlreadyPresent(tx.table, NextClaim(p))
    /\ tx' = [tx EXCEPT !.done = @ + 1]
    /\ UNCHANGED <<staged, entries, checkpoints, rotations, call, admitted>>

(* Mutants: INSERT OR REPLACE; the index need not be the next.             *)
PromoteOver(p) ==
    /\ Owns(p) /\ Pending(p)
    /\ Proved(p, NextClaim(p))
    /\ ~AlreadyPresent(tx.table, NextClaim(p))
    /\ NextClaim(p).index \in DOMAIN tx.table \/ IsNext(tx.table, NextClaim(p))
    /\ tx' = [tx EXCEPT !.table = Extend(@, NextClaim(p)), !.done = @ + 1]
    /\ UNCHANGED <<staged, entries, checkpoints, rotations, call, admitted>>
PromoteAhead(p) ==
    /\ Owns(p) /\ Pending(p)
    /\ Proved(p, NextClaim(p))
    /\ NextClaim(p).index \notin DOMAIN tx.table
    /\ tx' = [tx EXCEPT !.table = Extend(@, NextClaim(p)), !.done = @ + 1]
    /\ UNCHANGED <<staged, entries, checkpoints, rotations, call, admitted>>

PromoteNew(p) ==
    /\ Owns(p) /\ Pending(p)
    /\ Proved(p, NextClaim(p))
    /\ NextClaim(p).index \notin DOMAIN tx.table
    /\ IsNext(tx.table, NextClaim(p))
    /\ tx' = [tx EXCEPT !.table = Extend(@, NextClaim(p)), !.done = @ + 1]
    /\ UNCHANGED <<staged, entries, checkpoints, rotations, call, admitted>>

(* NotStaged, InclusionProofInvalid, IndexConflict,                        *)
(* EntryIdAtDifferentIndex or OutOfOrderIndex.                             *)
PromoteRefused(p) ==
    /\ Owns(p) /\ Pending(p)
    /\ LET claim == NextClaim(p) IN
        \/ ~Proved(p, claim)
        \/ claim.index \in DOMAIN tx.table /\ ~AlreadyPresent(tx.table, claim)
        \/ claim.index \notin DOMAIN tx.table /\ ~IsNext(tx.table, claim)
    /\ Rollback(p)

RecordRefused(p) ==
    /\ Owns(p) /\ ~Pending(p)
    /\ call[p].records
    /\ \/ RootClash(tx.table, call[p].cp)
       \/ MemberClash(checkpoints, call[p])
       \/ AnchorClash(rotations, call[p])
    /\ Rollback(p)

(* Record the checkpoint in every table it earned, and commit.             *)
CommitIngest(p) ==
    /\ Owns(p) /\ ~Pending(p)
    /\ call[p].records
    /\ ~RootClash(tx.table, call[p].cp)
    /\ ~MemberClash(checkpoints, call[p])
    /\ ~AnchorClash(rotations, call[p])
    /\ entries' = tx.table
    /\ checkpoints' = checkpoints \cup NewMembers(call[p])
    /\ rotations' = rotations \cup NewAnchors(rotations, call[p])
    /\ admitted' = admitted \cup
            {[ cp |-> call[p].cp, batch |-> call[p].batch, seen |-> call[p].seen,
               member |-> call[p].member, anchors |-> call[p].anchors ]}
    /\ tx' = Closed
    /\ call' = [call EXCEPT ![p] = Idle]
    /\ UNCHANGED staged

CommitPromote(p) ==
    /\ Owns(p) /\ ~Pending(p)
    /\ ~call[p].records
    /\ entries' = tx.table
    /\ tx' = Closed
    /\ call' = [call EXCEPT ![p] = Idle]
    /\ UNCHANGED <<staged, checkpoints, rotations, admitted>>

(* The process dies: an open transaction rolls back when the database is   *)
(* next opened, and no request survives.                                   *)
Crash ==
    /\ tx' = Closed
    /\ call' = [p \in Request |-> Idle]
    /\ UNCHANGED <<staged, entries, checkpoints, rotations, admitted>>

Submit(p) ==
    \/ \E s \in Submission : IngestRead(p, s)
    \/ \E cp \in checkpoints, claim \in Claims : PromoteRead(p, cp, claim)

Work(p) ==
    \/ IngestResolve(p)
    \/ TxBegin(p)
    \/ PromoteRepeated(p) \/ PromoteNew(p) \/ PromoteRefused(p)
    \/ RecordRefused(p) \/ CommitIngest(p) \/ CommitPromote(p)

Next ==
    \/ \E e \in Entry : Stage(e)
    \/ \E p \in Request : Submit(p) \/ Work(p)
    \/ Crash

Spec == Init /\ [][Next]_vars

-----------------------------------------------------------------------------
(* A contiguous run of entry ids from index 0.                             *)
IsLog(f) ==
    /\ IsFiniteSet(DOMAIN f)
    /\ f \in [0 .. Cardinality(DOMAIN f) - 1 -> Entry]

IsCall(c) ==
    \/ c = Idle
    \/ /\ c.step \in {"read", "ready"}
       /\ c.cp \in Published /\ c.batch \in Seq(Claim) /\ IsLog(c.seen)
       /\ c.step = "ready" => c.records \in BOOLEAN /\ c.member \in BOOLEAN
       /\ c.step = "read" \/ c.records =>
            /\ [cp |-> c.cp, batch |-> c.batch, named |-> c.named] \in Submission
            /\ c.cp.size <= MaxTreeSize
       /\ c.step = "ready" /\ ~c.records => \E claim \in Claims : c.batch = <<claim>>

(* The tables hold entry ids at contiguous indices and published           *)
(* checkpoints; a transaction has an owner that is ready to write.         *)
TypeOK ==
    /\ staged \subseteq Entry
    /\ IsLog(entries)
    /\ checkpoints \subseteq Published
    /\ \A r \in rotations : r = [manifest |-> r.manifest, cp |-> r.cp] /\ r.cp \in Published
    /\ \A a \in admitted : a.cp \in Published
    /\ call = [p \in Request |-> call[p]]
    /\ \A p \in Request : IsCall(call[p])
    /\ \/ tx = Closed
       \/ /\ tx = [open |-> TRUE, owner |-> tx.owner, table |-> tx.table, done |-> tx.done]
          /\ tx.owner \in Request /\ call[tx.owner].step = "ready"
          /\ IsLog(tx.table)
          /\ tx.done \in 0 .. Len(call[tx.owner].batch)

(* Whatever the interleaving of requests, a canonical index names a staged *)
(* entry and no entry id sits at two indices (promote_entry_raw).          *)
EntriesSound ==
    /\ \A i \in DOMAIN entries : entries[i] \in staged
    /\ IsInjective(entries)

(* Nothing is canonical on a submitter's word: every entry is the leaf, at *)
(* its own index, of a checkpoint that was authenticated before it was     *)
(* promoted (ingest.rs promote_entry).                                     *)
EveryEntryEvidenced ==
    \A i \in DOMAIN entries :
        \E a \in admitted : Opens(a.cp, [entry |-> entries[i], index |-> i])

(* Two checkpoints agree when one's leaves extend the other's.             *)
Agree(a, b) == \A i \in DOMAIN a.root \cap DOMAIN b.root : a.root[i] = b.root[i]

(* A log that never equivocates is mirrored exactly: if all authenticated  *)
(* checkpoints agree, the held entries are those of the log at every size  *)
(* one of them commits, even where promotions were proved under different  *)
(* checkpoints and admissions crossed.                                     *)
HonestLogMirrored ==
    (\A a, b \in admitted : Agree(a.cp, b.cp)) =>
        \A a \in admitted : \A i \in DOMAIN entries \cap DOMAIN a.cp.root :
            entries[i] = a.cp.root[i]

(* An answered admission was complete: every entry of its batch is         *)
(* canonical, and stays so (the transaction of ingest_checkpoint).         *)
AnsweredBatchesHeld ==
    \A a \in admitted : \A x \in DOMAIN a.batch : AlreadyPresent(entries, a.batch[x])

(* Where the prefix an admission was judged by reached the checkpoint's    *)
(* whole size, it was the log's own: the answer is the one governance over *)
(* the leaves the checkpoint commits gives, though the prefix was read     *)
(* before, and outside, the transaction that admitted it.                  *)
CompleteAdmissionsJudgedByTheLog ==
    \A a \in admitted :
        DOMAIN a.seen = 0 .. a.cp.size - 1 =>
            /\ a.member <=> VerifiesUnder(Active(a.cp.root), a.cp)
            /\ a.anchors = Anchors(a.cp.root, a.cp)

(* The anchor served for a rotation is the earliest ever admitted for it,  *)
(* whatever order the admissions arrived in (insert_rotation_checkpoint).  *)
ServedAnchorIsEarliest ==
    \A a \in admitted : \A m \in a.anchors :
        \E r \in rotations :
            /\ r.manifest = m /\ NotAfter(r.cp, a.cp)
            /\ \E b \in admitted : b.cp = r.cp /\ m \in b.anchors

(* One slot, one checkpoint: neither table ever holds two different        *)
(* checkpoints of one size and time (for one rotation).                    *)
SlotsUnique ==
    /\ \A a, b \in checkpoints : SameSlot(a, b) => a = b
    /\ \A q, r \in rotations :
        q.manifest = r.manifest /\ SameSlot(q.cp, r.cp) => q = r

(* The store is append-only: no step rewrites or drops an entry, a series  *)
(* member or a rotation anchor.                                            *)
NothingRewritten ==
    [][ /\ staged \subseteq staged'
        /\ IsRestriction(entries, entries')
        /\ checkpoints \subseteq checkpoints'
        /\ rotations \subseteq rotations' ]_vars

-----------------------------------------------------------------------------
(* What a request in flight may rely on, though others ran since it read:  *)
(* the canonical rows it saw are still the first rows; what it resolved is *)
(* the verdict over those rows and its own claims, and it was admissible;  *)
(* the checkpoint a promotion picked is still a member.                    *)
CallSound(c, table, series) ==
    /\ c.step = "read" =>
        \E n \in 0 .. c.cp.size : HoldsPrefix(table, n) /\ c.seen = Root(table, n)
    /\ (c.step = "ready" /\ c.records) =>
        /\ \E n \in 0 .. c.cp.size :
            HoldsPrefix(table, n) /\ c.seen = VisiblePrefix(c.cp, c.batch, Root(table, n))
        /\ Admissible(c.seen, c.cp, c.named)
        /\ c.member <=> VerifiesUnder(Active(c.seen), c.cp)
        /\ c.anchors = Anchors(c.seen, c.cp)
    /\ (c.step = "ready" /\ ~c.records) => c.cp \in series

(* An open transaction only extends the table, by claims its checkpoint    *)
(* proves, and what it counts as promoted is in its copy.                  *)
TxSound ==
    tx.open =>
        /\ IsRestriction(entries, tx.table)
        /\ IsInjective(tx.table)
        /\ \A i \in DOMAIN tx.table :
            /\ tx.table[i] \in staged
            /\ i \in DOMAIN entries \/ \E x \in 1 .. tx.done : call[tx.owner].batch[x].index = i
        /\ \A x \in 1 .. tx.done :
            /\ AlreadyPresent(tx.table, call[tx.owner].batch[x])
            /\ Proved(tx.owner, call[tx.owner].batch[x])

(* Snapshots taken outside the lock stay true until the transaction that   *)
(* uses them (ingest_checkpoint reads, resolves, and only then locks).     *)
InFlightSound == TxSound /\ \A p \in Request : CallSound(call[p], entries, checkpoints)

(* The tables hold admitted checkpoints only, in the role admitted.        *)
RecordsAnswered ==
    /\ \A cp \in checkpoints : \E a \in admitted : a.cp = cp /\ a.member
    /\ \A r \in rotations : \E a \in admitted : a.cp = r.cp /\ r.manifest \in a.anchors

-----------------------------------------------------------------------------
(* Requests, locks, transactions and crashes implement what the write side *)
(* promises: a submission is one step, whole or not at all.                *)
ImplementsAtomicMirror == AtomicSpec

-----------------------------------------------------------------------------
(* What the documents say and the code does not do; each is the property   *)
(* of a run that exhibits the difference.                                  *)

(* "a rotation-anchoring checkpoint that contradicts a series member at    *)
(* the same tree_size is a divergence like any other" (store.rs).  The     *)
(* equivocation scan reads the two tables.                                 *)
EquivocationFound ==
    \A a, b \in admitted :
        (a.cp.size = b.cp.size /\ a.cp.root # b.cp.root /\ a.member) =>
            \E x, y \in checkpoints \cup {r.cp : r \in rotations} :
                x.size = a.cp.size /\ y.size = a.cp.size /\ x.root # y.root

(* "A series member verifies under the manifest version active for its own *)
(* tree_size" (checkpoint.rs, Admission): true of every member at least    *)
(* once the mirror holds, and confirms, all the leaves it commits.         *)
MembersVerifyUnderTheirVersion ==
    \A cp \in checkpoints :
        (HoldsPrefix(entries, cp.size) /\ Root(entries, cp.size) = cp.root) =>
            VerifiesUnder(Active(cp.root), cp)
=============================================================================
