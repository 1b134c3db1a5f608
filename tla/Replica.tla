------------------------------ MODULE Replica -------------------------------
(***************************************************************************)
(* What the mirror promises the operator of an honest log: a copy that     *)
(* only ever grows, along the log; more and more of its sizes provable     *)
(* against a usable checkpoint; more and more of its rotations provable    *)
(* under the keys they retire; and in the end the whole log, every size    *)
(* published and every rotation.  There are no requests, no refusals, no   *)
(* keys and nobody else here.                                              *)
(***************************************************************************)
EXTENDS Integers, Functions

CONSTANTS
    Original,       \* the log: a function from its indices to entry ids
    Sizes,          \* the tree sizes of the checkpoints published
    Handovers       \* the entry indices of the rotating manifests

VARIABLES copy, provable, anchored

vars == <<copy, provable, anchored>>

Init ==
    /\ copy = Restrict(Original, {})
    /\ provable = {}
    /\ anchored = {}

Advance ==
    /\ \E n \in {0} \cup {i + 1 : i \in DOMAIN Original} :
        /\ DOMAIN copy \subseteq 0 .. n - 1
        /\ copy' = Restrict(Original, 0 .. n - 1)
        /\ provable' \subseteq {size \in Sizes : size <= n}
        /\ anchored' \subseteq {index \in Handovers : index < n}
    /\ provable \subseteq provable' /\ anchored \subseteq anchored'

Complete == copy = Original /\ provable = Sizes /\ anchored = Handovers

Growth == Init /\ [][Advance]_vars
Spec == Growth /\ <>Complete
=============================================================================
