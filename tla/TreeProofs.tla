----------------------------- MODULE TreeProofs -----------------------------
(***************************************************************************)
(* What the mirror opens from its tree material: inclusion paths,          *)
(* consistency paths and range responses, and what a client makes of each. *)
(* The walks of atl_core and ahl_core are external; range.rs repeats one   *)
(* of them, and must cut the tree as its verifier does.                    *)
(***************************************************************************)
EXTENDS Tree

(* The spans of an inclusion path, from the leaf up (RFC 6962 PATH), and   *)
(* of a consistency path (RFC 9162 SUBPROOF).                              *)
PathSpans(leaf, n) ==
    LET path[s \in Nat \ {0}] == [o \in Nat |->
            LET k == LargestPowerOf2LessThan(s)
            IN  IF s = 1 THEN <<>>
                ELSE IF leaf < o + k THEN Append(path[k][o], <<o + k, s - k>>)
                ELSE Append(path[s - k][o + k], <<o, k>>)]
    IN  path[n][0]
SubproofSpans(from, n) ==
    LET sub[s \in Nat \ {0}] == [o \in Nat |-> [m \in 1 .. s |->
            LET k == LargestPowerOf2LessThan(s)
            IN  IF m = s THEN IF o = 0 THEN <<>> ELSE <<<<o, s>>>>
                ELSE IF m <= k THEN Append(sub[k][o][m], <<o + k, s - k>>)
                ELSE Append(sub[s - k][o + k][m - k], <<o, k>>)]]
    IN  sub[n][0][from]

(* inclusion_proof_raw, and consistency_proof_measured_raw after its count *)
(* of the entries.  One refused span refuses the proof.  (The bound there  *)
(* is the tree's and in Open the span's end: a perfect subtree of the span *)
(* is complete under both.)                                                *)
HoldsEntries(tree, n) == Cardinality({i \in DOMAIN tree.leaf : i < n}) = n
InclusionProof(tree, leaf, n) ==
    LET opened == OpenAll(tree, PathSpans(leaf, n))
    IN  [ok |-> AllOpened(opened), nodes |-> Hashes(opened)]
ConsistencyProof(tree, from, n) ==
    LET opened == OpenAll(tree, SubproofSpans(from, n))
    IN  [ok |-> HoldsEntries(tree, n) /\ AllOpened(opened), nodes |-> Hashes(opened)]

(* The root an inclusion path leads to, and the two roots a consistency    *)
(* path and the earlier root lead to.                                      *)
RootOfPath(leaf, n, nodes) ==
    LET up[s \in Nat \ {0}] == [o \in Nat |-> [used \in Nat |->
            LET k == LargestPowerOf2LessThan(s)
            IN  IF s = 1 THEN LeafHash(leaf)
                ELSE IF leaf < o + k THEN HashChildren(up[k][o][used - 1], nodes[used])
                ELSE HashChildren(nodes[used], up[s - k][o + k][used - 1])]]
    IN  up[n][0][Len(nodes)]
RootsOfSubproof(from, n, nodes, earlier) ==
    LET up[s \in Nat \ {0}] == [o \in Nat |-> [m \in 1 .. s |-> [used \in Nat |->
            LET k == LargestPowerOf2LessThan(s)
                left == up[k][o][m][used - 1]
                right == up[s - k][o + k][m - k][used - 1]
            IN  IF m = s THEN IF o = 0 THEN <<earlier, earlier>> ELSE <<nodes[1], nodes[1]>>
                ELSE IF m <= k THEN <<left[1], HashChildren(left[2], nodes[used])>>
                ELSE <<HashChildren(nodes[used], right[1]), HashChildren(nodes[used], right[2])>>]]]
    IN  up[n][0][from][Len(nodes)]

-----------------------------------------------------------------------------
(* Range responses.                                                        *)

(* classify.                                                               *)
(* Mutant: a subtree ending where the window begins is not outside.        *)
ClassifyStrict(offset, size, from, to) ==
    IF offset + size < from \/ offset >= to THEN "outside"
    ELSE IF offset >= from /\ offset + size <= to THEN "inside"
    ELSE IF size = 1 THEN "inside" ELSE "straddles"
Classify(offset, size, from, to) ==
    IF offset + size <= from \/ offset >= to THEN "outside"
    ELSE IF offset >= from /\ offset + size <= to THEN "inside"
    ELSE "straddles"

(* outside_subtrees: what the proof carries, in left-to-right order.       *)
OutsideSubtrees(n, from, to) ==
    LET spans[s \in Nat \ {0}] == [o \in Nat |->
            LET k == LargestPowerOf2LessThan(s)
            IN  CASE Classify(o, s, from, to) = "outside" -> <<<<o, s>>>>
                  [] Classify(o, s, from, to) = "inside" -> <<>>
                  [] OTHER -> spans[k][o] \o spans[s - k][o + k]]
    IN  spans[n][0]

(* ahl_core's range_proof::verify: the leaves of the window and the nodes, *)
(* taken in order, give the root, and no node is left over.                *)
RangeVerify(proof, leaves, root) ==
    LET n == proof.size
        walk[s \in Nat \ {0}] == [o \in Nat |-> [used \in Nat |->
            LET k == LargestPowerOf2LessThan(s)
                left == walk[k][o][used]
                right == walk[s - k][o + k][left.used]
            IN  IF o + s <= proof.from \/ o >= proof.to
                THEN IF used < Len(proof.nodes)
                     THEN [hash |-> proof.nodes[used + 1], used |-> used + 1]
                     ELSE [hash |-> NoHash, used |-> used]
                ELSE IF s = 1 THEN [hash |-> leaves[o - proof.from + 1], used |-> used]
                ELSE [hash |-> HashChildren(left.hash, right.hash), used |-> right.used]]]
    IN  /\ 0 <= proof.from /\ proof.from < proof.to /\ proof.to <= n
        /\ Len(leaves) = proof.to - proof.from
        /\ walk[n][0][0] = [hash |-> root, used |-> Len(proof.nodes)]

(* build_range_response_in, for a checkpoint of this size and root.  It    *)
(* verifies what it is about to serve.  cost is the nodes reported.        *)
Window(tree, from, to) == [j \in 1 .. to - from |-> tree.leaf[from + j - 1]]
Response(size, root, from, to, entries, proof) ==
    [ size |-> size, root |-> root, from |-> from, to |-> to,
      entries |-> entries, proof |-> proof ]
BuildRange(tree, size, root, from, to) ==
    LET spans == OutsideSubtrees(size, from, to)
        opened == OpenAll(tree, spans)
        proof == [size |-> size, from |-> from, to |-> to, nodes |-> Hashes(opened)]
        whole == Open(tree, 0, size)
        ok == /\ HoldsEntries(tree, size)
              /\ from < to /\ to <= size
              /\ whole.ok /\ whole.hash = root
              /\ AllOpened(opened)
              /\ RangeVerify(proof, Window(tree, from, to), root)
    IN  IF ~ok THEN [ok |-> FALSE]
        ELSE [ ok |-> TRUE, opened |-> <<whole>> \o opened, spans |-> <<<<0, size>>>> \o spans,
               response |-> Response(size, root, from, to,
                   [j \in 1 .. to - from |-> [index |-> from + j - 1, leaf |-> LeafHash(from + j - 1)]],
                   proof) ]

(* verify_range_response.                                                  *)
(* Mutant: the indices only ascend.                                        *)
Ascending(response) ==
    \A j \in DOMAIN response.entries :
        j > 1 => response.entries[j - 1].index < response.entries[j].index
InOrder(response) ==
    \A j \in DOMAIN response.entries : response.entries[j].index = response.from + j - 1
VerifyRangeResponse(response) ==
    /\ InOrder(response)
    /\ response.proof.size = response.size
    /\ response.proof.from = response.from
    /\ response.proof.to = response.to
    /\ RangeVerify(response.proof, [j \in DOMAIN response.entries |-> response.entries[j].leaf],
                   response.root)
=============================================================================
