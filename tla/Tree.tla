-------------------------------- MODULE Tree --------------------------------
(***************************************************************************)
(* The Merkle tree over the log and the material stored about it: which    *)
(* nodes are complete, what one more entry completes, and what roots and   *)
(* proofs are opened from.  A tree material is a record of                 *)
(*   leaf   the leaf_hash column, a function on the indices held           *)
(*   roots  the table subtree_roots, a function of <<level, node index>>.  *)
(* Hashing is free of collisions: a leaf hash is <<index>> and a parent's  *)
(* hash the pair of its children's, so two trees of different shape differ.*)
(***************************************************************************)
EXTENDS Integers, Sequences, FiniteSets

LeafHash(i) == <<i>>
HashChildren(left, right) == <<left, right>>
NoHash == <<>>

(* The leaves below a node of each level.                                  *)
Width[l \in Nat] == IF l = 0 THEN 1 ELSE 2 * Width[l - 1]

LargestPowerOf2LessThan(size) ==
    Width[CHOOSE l \in 0 .. size : Width[l] < size /\ size <= Width[l + 1]]
IsPerfect(offset, size) == \E l \in 0 .. size : Width[l] = size /\ offset % size = 0
NodeAt(offset, size) == <<CHOOSE l \in 0 .. size : Width[l] = size, offset \div size>>

(* The root of the leaves [offset, offset + size), by its definition: for  *)
(* each size the roots at every offset.                                    *)
Roots[size \in Nat \ {0}] ==
    [offset \in Nat |->
        IF size = 1 THEN LeafHash(offset)
        ELSE LET k == LargestPowerOf2LessThan(size)
             IN  HashChildren(Roots[k][offset], Roots[size - k][offset + k])]
Merkle(offset, size) == Roots[size][offset]

(* node_is_complete, and the nodes above the leaves that are complete      *)
(* under n leaves.                                                         *)
NodeIsComplete(level, index, bound) == (index + 1) * Width[level] <= bound
CompleteNodes(n) ==
    {node \in (1 .. n) \X (0 .. n) : NodeIsComplete(node[1], node[2], n)}

-----------------------------------------------------------------------------
(* Stored nodes.                                                           *)

(* INSERT OR REPLACE of some rows.                                         *)
Upsert(table, rows) ==
    [key \in DOMAIN table \cup DOMAIN rows |->
        IF key \in DOMAIN rows THEN rows[key] ELSE table[key]]

(* tree_node_raw: level 0 from the column, the others from the table.      *)
TreeNode(tree, level, index) ==
    IF level = 0
    THEN IF index \in DOMAIN tree.leaf THEN tree.leaf[index] ELSE NoHash
    ELSE IF <<level, index>> \in DOMAIN tree.roots THEN tree.roots[<<level, index>>] ELSE NoHash
HasNode(tree, level, index) == TreeNode(tree, level, index) # NoHash

(* extend_subtree_cache: the levels at which the last of count entries     *)
(* completes a node, and the index of that node.  Its right child is what  *)
(* the entry just completed one level below, its left one must be stored.  *)
(* Mutant: width < count bounds the climb.                                 *)
LevelsBelow(count) == {l \in 1 .. count : count % Width[l] = 0 /\ Width[l] < count}
CompletedLevels(count) == {l \in 1 .. count : count % Width[l] = 0}
CompletedIndex(level, count) == count \div Width[level] - 1
LeftChild(level, count) == 2 * CompletedIndex(level, count)
ChildrenStored(tree, count) ==
    \A l \in CompletedLevels(count) : HasNode(tree, l - 1, LeftChild(l, count))
CompletedRoots(tree, count) ==
    LET hash[l \in Nat] ==
            IF l = 0 THEN LeafHash(count - 1)
            ELSE HashChildren(TreeNode(tree, l - 1, LeftChild(l, count)), hash[l - 1])
    IN  [node \in {<<l, CompletedIndex(l, count)>> : l \in CompletedLevels(count)} |->
            hash[node[1]]]

(* require_subtree_cache_raw: the root of every maximal complete subtree   *)
(* of n leaves, above the leaves, is stored.                               *)
MaximalBlocks(n) ==
    {<<l, 2 * (n \div Width[l + 1])>> : l \in {m \in 1 .. n : (n \div Width[m]) % 2 = 1}}
SubtreeCachePresent(tree, n) == MaximalBlocks(n) \subseteq DOMAIN tree.roots

-----------------------------------------------------------------------------
(* Opening a span.                                                         *)

(* with_tree_nodes around atl_core's compute_subtree_root, which asks for  *)
(* every perfect subtree and descends where it gets none.  A complete node *)
(* asked for in vain makes the whole answer a refusal; reads counts the    *)
(* nodes obtained.                                                         *)
(* Mutant: a missing node is always recomputed from what lies below it.    *)
NeverRequired(level, index, bound) == bound < 0
MustBeStored(level, index, bound) == NodeIsComplete(level, index, bound)
Open(tree, offset, size) ==
    LET open[s \in Nat \ {0}] == [o \in Nat |->
            LET perfect == IsPerfect(o, s)
                at == NodeAt(o, s)
                k == LargestPowerOf2LessThan(s)
                left == open[k][o]
                right == open[s - k][o + k]
            IN  IF perfect /\ HasNode(tree, at[1], at[2])
                THEN [ok |-> TRUE, hash |-> TreeNode(tree, at[1], at[2]), reads |-> 1]
                ELSE IF s = 1 THEN [ok |-> FALSE, hash |-> NoHash, reads |-> 0]
                ELSE [ ok |-> /\ ~(perfect /\ MustBeStored(at[1], at[2], offset + size))
                              /\ left.ok /\ right.ok,
                       hash |-> HashChildren(left.hash, right.hash),
                       reads |-> left.reads + right.reads ]]
    IN  open[size][offset]

(* A sequence of spans opened one after the other.                         *)
OpenAll(tree, spans) == [j \in DOMAIN spans |-> Open(tree, spans[j][1], spans[j][2])]
AllOpened(opened) == \A j \in DOMAIN opened : opened[j].ok
Hashes(opened) == [j \in DOMAIN opened |-> opened[j].hash]

(* u64::count_ones.                                                        *)
CountOnes(size) == Cardinality({l \in 0 .. size : (size \div Width[l]) % 2 = 1})
=============================================================================
