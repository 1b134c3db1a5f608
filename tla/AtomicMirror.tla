---------------------------- MODULE AtomicMirror ----------------------------
(***************************************************************************)
(* What the write side of the mirror promises: a submission is one step,   *)
(* whole or not at all.  Its entries become canonical, its checkpoint is   *)
(* recorded in every table it earned, and the verdict is the one over the  *)
(* first canonical rows, up to where the mirror reached at some earlier    *)
(* moment, and its own claims after them.  There are no requests, locks,   *)
(* transactions or crashes here; module Mirror implements this with all of *)
(* them.                                                                   *)
(***************************************************************************)
EXTENDS Admission

VARIABLES
    staged,         \* the ids of the staged bytes
    entries,        \* entry index -> entry id
    checkpoints,    \* the canonical series
    rotations,      \* rotation anchors: [manifest, cp]
    admitted        \* every checkpoint answered 201, with what was answered

atomicVars == <<staged, entries, checkpoints, rotations, admitted>>

AtomicInit ==
    /\ staged = {}
    /\ entries = EmptyTable
    /\ checkpoints = {}
    /\ rotations = {}
    /\ admitted = {}

AtomicStage(e) ==
    /\ staged' = staged \cup {e}
    /\ UNCHANGED <<entries, checkpoints, rotations, admitted>>

(* The table with a batch: claims fill free indices and rewrite nothing.   *)
WithBatch(table, batch) ==
    [i \in DOMAIN table \cup {batch[x].index : x \in DOMAIN batch} |->
        IF i \in DOMAIN table THEN table[i]
        ELSE batch[CHOOSE x \in DOMAIN batch : batch[x].index = i].entry]

(* A batch is promoted whole: every claim is staged, is a leaf of the      *)
(* checkpoint and is canonical afterwards, no index is skipped, and no     *)
(* entry comes to sit at two indices.                                      *)
PromoteAll(cp, batch) ==
    /\ entries' = WithBatch(entries, batch)
    /\ HoldsPrefix(entries', Cardinality(DOMAIN entries'))
    /\ IsInjective(entries')
    /\ \A x \in DOMAIN batch :
        batch[x].entry \in staged /\ Opens(cp, batch[x]) /\ AlreadyPresent(entries', batch[x])

(* The admission of a submission judged by the log `seen`.                 *)
Verdict(s, seen) ==
    [ cp |-> s.cp, batch |-> s.batch, seen |-> seen,
      member |-> VerifiesUnder(Active(seen), s.cp), anchors |-> Anchors(seen, s.cp) ]

(* An admission meets no other checkpoint in its slots and is recorded.    *)
Record(a) ==
    /\ ~MemberClash(checkpoints, a) /\ ~AnchorClash(rotations, a)
    /\ checkpoints' = checkpoints \cup NewMembers(a)
    /\ rotations' = rotations \cup NewAnchors(rotations, a)
    /\ admitted' = admitted \cup {a}

AtomicAdmit(s) ==
    /\ s.cp.size <= MaxTreeSize
    /\ PromoteAll(s.cp, s.batch)
    /\ ~RootClash(entries', s.cp)
    /\ \E seen \in {VisiblePrefix(s.cp, s.batch, Root(entries, n)) :
                        n \in {m \in 0 .. s.cp.size : HoldsPrefix(entries, m)}} :
        /\ Admissible(seen, s.cp, s.named)
        /\ \E a \in {Verdict(s, seen)} : Record(a)
    /\ UNCHANGED staged

(* One entry is promoted under a recorded series member.                   *)
AtomicPromote(cp, claim) ==
    /\ PromoteAll(cp, <<claim>>)
    /\ UNCHANGED <<staged, checkpoints, rotations, admitted>>

AtomicNext ==
    \/ \E e \in Entry : AtomicStage(e)
    \/ \E s \in Submission : AtomicAdmit(s)
    \/ \E cp \in checkpoints, claim \in Claims : AtomicPromote(cp, claim)

AtomicSpec == AtomicInit /\ [][AtomicNext]_atomicVars
=============================================================================
