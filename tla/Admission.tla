----------------------------- MODULE Admission ------------------------------
(***************************************************************************)
(* What submitters post, the tables it is judged against, and the verdict: *)
(* the pure part of checkpoint ingestion.                                  *)
(*                                                                         *)
(* A Merkle root is collision free, so a root stands for the leaf sequence *)
(* it commits: a function from 0 .. size-1 to entry ids.                   *)
(***************************************************************************)
EXTENDS Governance, FiniteSetsExt

CONSTANTS
    Submission,     \* what submitters may post: [cp, batch, named]
    NotNamed,       \* rotation_for omitted
    MaxTreeSize     \* checkpoint.rs MAX_TREE_SIZE

(* A published checkpoint: tree_size, root_hash, checkpoint_time, key_id,  *)
(* and whether its signature is that key's signature of the other four.    *)
IsCheckpoint(cp) ==
    /\ cp = [ size |-> cp.size, root |-> cp.root, time |-> cp.time,
              key |-> cp.key, genuine |-> cp.genuine ]
    /\ cp.size \in Nat
    /\ cp.time \in Nat
    /\ cp.genuine \in BOOLEAN
    /\ cp.root \in [0 .. cp.size - 1 -> Entry]

Claim == [entry : Entry, index : Nat]

(* A posted submission: a checkpoint, its entries_to_promote list and its  *)
(* rotation_for.                                                           *)
ASSUME SubmissionAssumption ==
    \A s \in Submission :
        /\ s = [cp |-> s.cp, batch |-> s.batch, named |-> s.named]
        /\ IsCheckpoint(s.cp)
        /\ s.batch \in Seq(Claim)
        /\ s.named \in Nat \cup {NotNamed}
ASSUME NotNamedAssumption == NotNamed \notin Nat
ASSUME MaxTreeSizeAssumption == MaxTreeSize \in Nat

Published == {s.cp : s \in Submission}

(* The single promotions submitters may ask for: the claims of the batches.*)
Claims == UNION {Range(s.batch) : s \in Submission}

-----------------------------------------------------------------------------
(* Tables.                                                                 *)

EmptyTable == [i \in {} |-> NoEntry]
(* Mutant: the entry at index n is below n.                                *)
UpTo(table, n) == Restrict(table, {i \in DOMAIN table : i <= n})
Below(table, n) == Restrict(table, {i \in DOMAIN table : i < n})

(* next_index: MAX(entry_index) + 1, or 0 over an empty table.             *)
NextIndex(table) == IF DOMAIN table = {} THEN 0 ELSE Max(DOMAIN table) + 1

(* count_entries(0, n) = n.                                                *)
HoldsPrefix(table, n) == 0 .. n - 1 \subseteq DOMAIN table
Root(table, n) == Restrict(table, 0 .. n - 1)

(* Series order: (tree_size, checkpoint_time).                             *)
SameSlot(a, b) == a.size = b.size /\ a.time = b.time
NotAfter(a, b) == a.size < b.size \/ (a.size = b.size /\ a.time <= b.time)

(* verify_inclusion_for with a genuine path: the leaf at the index opens   *)
(* the checkpoint's root.  External Merkle verification.                   *)
Opens(cp, claim) == claim.index < cp.size /\ cp.root[claim.index] = claim.entry

-----------------------------------------------------------------------------
(* Resolution of a submitted checkpoint against the visible entry prefix.  *)

(* Claims the overlay consults: beyond the canonical run of length `len`,  *)
(* below the tree size, first on their slot.                               *)
Relevant(cp, batch, len) ==
    {x \in DOMAIN batch :
        /\ len <= batch[x].index /\ batch[x].index < cp.size
        /\ \A y \in DOMAIN batch : y < x => batch[y].index # batch[x].index}

(* A relevant claim that is not staged or does not open the claimed root   *)
(* refuses the whole submission.                                           *)
OverlayRefused(cp, batch, len, staged) ==
    \E x \in Relevant(cp, batch, len) :
        batch[x].entry \notin staged \/ ~Opens(cp, batch[x])

(* The canonical run `seen`, extended while the overlay supplies the very  *)
(* next index.                                                             *)
VisiblePrefix(cp, batch, seen) ==
    LET len == Cardinality(DOMAIN seen)
        supplied == {batch[x].index : x \in Relevant(cp, batch, len)}
        reach == {i \in 0 .. cp.size - 1 : i < len \/ len .. i \subseteq supplied}
    IN [i \in reach |->
            IF i < len THEN seen[i]
            ELSE batch[CHOOSE x \in Relevant(cp, batch, len) : batch[x].index = i].entry]

(* resolve_log_key and verify_checkpoint_signature.                        *)
VerifiesUnder(version, cp) == cp.genuine /\ LogKeyActive(version, cp.key, cp.size)

(* rotation_anchors_for: the rotations this checkpoint anchors.            *)
Anchors(log, cp) ==
    {r.index : r \in {q \in Rotations(log) : cp.size > q.index /\ VerifiesUnder(q.outgoing, cp)}}

Admissible(log, cp, named) ==
    /\ Resolvable(log)
    /\ named = NotNamed \/ named \in Anchors(log, cp)
    /\ VerifiesUnder(Active(log), cp) \/ Anchors(log, cp) # {}

-----------------------------------------------------------------------------
(* Promotion and recording.                                                *)

(* The entry is at its index already.                                      *)
AlreadyPresent(table, claim) ==
    claim.index \in DOMAIN table /\ table[claim.index] = claim.entry

(* The root check of ingest_checkpoint, once the whole prefix is held.     *)
(* Mutant: the root is not compared.                                       *)
NoRootClash(table, cp) == FALSE
RootClash(table, cp) == HoldsPrefix(table, cp.size) /\ Root(table, cp.size) # cp.root

(* insert_checkpoint_raw and insert_rotation_checkpoint_raw refuse another *)
(* checkpoint in an occupied slot.  `a` is an admission: a checkpoint,     *)
(* whether it is a series member, and the rotations it anchors.            *)
(* Mutants: a slot may be taken twice; a member is in its own way.         *)
NoMemberClash(series, a) == FALSE
SlotTaken(series, a) == a.member /\ \E o \in series : SameSlot(o, a.cp)
MemberClash(series, a) == a.member /\ \E o \in series : SameSlot(o, a.cp) /\ o # a.cp
AnchorClash(rots, a) ==
    \E r \in rots : r.manifest \in a.anchors /\ SameSlot(r.cp, a.cp) /\ r.cp # a.cp

(* What an admission adds: a member to the series, and to a rotation an    *)
(* anchor that comes before every one held.                                *)
(* Mutant: rotation material enters the series.                            *)
AlwaysMember(a) == {a.cp}
NewMembers(a) == IF a.member THEN {a.cp} ELSE {}
(* Mutant: the first anchor to arrive is kept.                             *)
FirstAnchors(rots, a) ==
    {[manifest |-> m, cp |-> a.cp] :
        m \in {n \in a.anchors : \A r \in rots : r.manifest # n}}
NewAnchors(rots, a) ==
    {[manifest |-> m, cp |-> a.cp] :
        m \in {n \in a.anchors : \A r \in rots : r.manifest = n => ~NotAfter(r.cp, a.cp)}}
=============================================================================
