-------------------------- MODULE TreeStore_proofs --------------------------
(***************************************************************************)
(* The tree material is the log's in every state, of a log of any length   *)
(* and through any deaths of the process: no row is ever wrong, a store    *)
(* that came up and lost no row since holds every complete subtree, and a  *)
(* promotion stores each one it completes.  What is served from it is      *)
(* right or refused: inclusion and consistency paths, ranges, and a range  *)
(* response whatever happened to it on its way.                            *)
(***************************************************************************)
EXTENDS TreeStore, FiniteSetTheorems, TLAPS

-----------------------------------------------------------------------------
(* The widths of the levels.                                               *)

WidthValue(p, f, l) == IF l = 0 THEN 1 ELSE 2 * f[l - 1]
Order == INSTANCE Order_proofs WITH Value <- WidthValue

(* The widths are the powers of two.                                       *)
LEMMA WidthIsDoubled ==
    Width[0] = 1 /\ \A l \in Nat : Width[l] \in Nat \ {0} /\ Width[l + 1] = 2 * Width[l]
<1> DEFINE Doubles(f) == f = [l \in Nat |-> WidthValue(0, f, l)]
<1>1. \E f : Doubles(f)
  <2>1. Order!LooksBelow(0, Nat)
    BY DEF Order!LooksBelow, WidthValue
  <2> QED BY <2>1, Order!RecursiveFunction DEF Order!IsRecursive
<1>2. Doubles(Width)
  <2>1. Width = CHOOSE f : Doubles(f)
    BY DEF Width, WidthValue
  <2> QED BY <1>1, <2>1
<1>3. Width[0] = 1 /\ \A l \in Nat : Width[l + 1] = 2 * Width[l]
  BY <1>2 DEF WidthValue
<1> DEFINE S == {l \in Nat : Width[l] \in Nat \ {0}}
<1>4. \A l \in Nat : l \in S
  <2>1. 0 \in S /\ \A l \in S : l + 1 \in S
    BY <1>3
  <2>2. S \in SUBSET Nat
    OBVIOUS
  <2> HIDE DEF S
  <2> QED BY <2>1, <2>2, Order!EveryNatural
<1> QED BY <1>3, <1>4

LEMMA WidthGrows ==
    /\ \A l \in Nat : l < Width[l]
    /\ \A l, m \in Nat : l < m => 2 * Width[l] <= Width[m]
<1> DEFINE S == {l \in Nat : l < Width[l]}
           T == {m \in Nat : \A l \in 0 .. m - 1 : 2 * Width[l] <= Width[m]}
<1>1. \A l \in Nat : l \in S
  <2>1. 0 \in S /\ \A l \in S : l + 1 \in S
    BY WidthIsDoubled
  <2>2. S \in SUBSET Nat
    OBVIOUS
  <2> HIDE DEF S
  <2> QED BY <2>1, <2>2, Order!EveryNatural
<1>2. \A m \in Nat : m \in T
  <2>1. 0 \in T
    OBVIOUS
  <2>2. ASSUME NEW m \in T PROVE m + 1 \in T
    <3> SUFFICES ASSUME NEW l \in 0 .. m PROVE 2 * Width[l] <= Width[m + 1]
      OBVIOUS
    <3>1. Width[m + 1] = 2 * Width[m] /\ Width[m] \in Nat /\ Width[l] \in Nat
      BY WidthIsDoubled
    <3>2. CASE l = m
      BY <3>1, <3>2
    <3>3. CASE l # m
      <4>1. 2 * Width[l] <= Width[m]
        BY <3>3
      <4> HIDE DEF T
      <4> QED BY <4>1, <3>1
    <3> QED BY <3>2, <3>3
  <2>3. T \in SUBSET Nat
    OBVIOUS
  <2> HIDE DEF T
  <2> QED BY <2>1, <2>2, <2>3, Order!EveryNatural
<1> QED BY <1>1, <1>2

(* Where a tree of two leaves or more is cut.                              *)
LEMMA TheCutIsAWidth ==
    ASSUME NEW s \in Nat, s >= 2
    PROVE  \E l \in Nat : /\ LargestPowerOf2LessThan(s) = Width[l]
                          /\ Width[l] < s /\ s <= Width[l + 1]
<1> DEFINE enough == {l \in Nat : s <= Width[l]}
<1>1. s \in enough
  BY WidthGrows, WidthIsDoubled
<1>2. PICK m \in enough : \A l \in enough : m <= l
  <2>1. enough \in SUBSET Nat
    OBVIOUS
  <2> QED BY <1>1, <2>1, Order!LeastNatural
<1>3. m # 0
  BY WidthIsDoubled
<1>4. m - 1 \in 0 .. s /\ m - 1 \notin enough /\ (m - 1) + 1 = m /\ s <= Width[m]
  BY <1>1, <1>2, <1>3
<1>5. Width[m - 1] < s /\ s <= Width[(m - 1) + 1]
  BY <1>4, WidthIsDoubled
<1> DEFINE l == CHOOSE l \in 0 .. s : Width[l] < s /\ s <= Width[l + 1]
<1>6. l \in 0 .. s /\ Width[l] < s /\ s <= Width[l + 1]
  BY <1>4, <1>5
<1>7. LargestPowerOf2LessThan(s) = Width[l]
  BY DEF LargestPowerOf2LessThan
<1> HIDE DEF l
<1> QED BY <1>6, <1>7

LEMMA TheCutIsAt ==
    ASSUME NEW l \in Nat, NEW s \in Nat, Width[l] < s, s <= Width[l + 1]
    PROVE  LargestPowerOf2LessThan(s) = Width[l]
<1> DEFINE Cut(c) == Width[c] < s /\ s <= Width[c + 1]
<1>1. Width[l] \in Nat \ {0} /\ Width[l + 1] = 2 * Width[l] /\ l \in 0 .. s
  BY WidthIsDoubled, WidthGrows
<1>2. ASSUME NEW c \in 0 .. s, Cut(c) PROVE c = l
  <2>1. c \in Nat /\ c + 1 \in Nat /\ Width[c] \in Nat /\ Width[c + 1] = 2 * Width[c]
    BY <1>1, WidthIsDoubled
  <2>2. ~ (c < l)
    <3> SUFFICES ASSUME c < l PROVE FALSE
      OBVIOUS
    <3>1. 2 * Width[c] <= Width[l]
      BY <2>1, WidthGrows
    <3> QED BY <3>1, <2>1, <1>1, <1>2
  <2>3. ~ (l < c)
    <3> SUFFICES ASSUME l < c PROVE FALSE
      OBVIOUS
    <3>1. 2 * Width[l] <= Width[c]
      BY <2>1, WidthGrows
    <3> QED BY <3>1, <2>1, <1>1, <1>2
  <2> QED BY <2>1, <2>2, <2>3
<1>3. LargestPowerOf2LessThan(s) = Width[CHOOSE c \in 0 .. s : Cut(c)]
  BY DEF LargestPowerOf2LessThan
<1>4. (CHOOSE c \in 0 .. s : Cut(c)) = l
  <2>1. Cut(l)
    OBVIOUS
  <2> HIDE DEF Cut
  <2> QED BY <1>1, <1>2, <2>1
<1> QED BY <1>3, <1>4

LEMMA TheTwoParts ==
    ASSUME NEW s \in Nat \ {0}, s # 1
    PROVE  LET k == LargestPowerOf2LessThan(s)
           IN  k \in Nat \ {0} /\ s - k \in Nat \ {0} /\ k < s /\ s - k < s
<1>1. PICK l \in Nat : LargestPowerOf2LessThan(s) = Width[l] /\ Width[l] < s
  BY TheCutIsAWidth
<1> QED BY <1>1, WidthIsDoubled

LEMMA FullTreesAreHalved ==
    ASSUME NEW l \in Nat
    PROVE  LargestPowerOf2LessThan(Width[l + 1]) = Width[l]
<1>1. Width[l] < Width[l + 1] /\ Width[l + 1] \in Nat
  BY WidthIsDoubled
<1> QED BY <1>1, TheCutIsAt

(* Induction along the cuts.                                               *)
LEMMA EverySize ==
    ASSUME NEW S \in SUBSET (Nat \ {0}), 1 \in S,
           \A s \in Nat \ {0} :
               s # 1 /\ LargestPowerOf2LessThan(s) \in S /\ s - LargestPowerOf2LessThan(s) \in S
                   => s \in S
    PROVE  \A s \in Nat \ {0} : s \in S
<1> DEFINE T == {n \in Nat : \A s \in Nat \ {0} : s <= n => s \in S}
<1>1. 0 \in T
  OBVIOUS
<1>2. ASSUME NEW n \in T PROVE n + 1 \in T
  <2> SUFFICES ASSUME NEW s \in Nat \ {0}, s <= n + 1, s # 1 PROVE s \in S
    OBVIOUS
  <2> DEFINE k == LargestPowerOf2LessThan(s)
  <2>1. k \in Nat \ {0} /\ s - k \in Nat \ {0} /\ k < s /\ s - k < s
    BY TheTwoParts
  <2> HIDE DEF k
  <2>2. k \in S /\ s - k \in S
    BY <2>1
  <2> QED BY <2>2 DEF k
<1>3. \A n \in Nat : n \in T
  <2>1. T \in SUBSET Nat
    OBVIOUS
  <2> HIDE DEF T
  <2> QED BY <1>1, <1>2, <2>1, Order!EveryNatural
<1> QED BY <1>3

-----------------------------------------------------------------------------
(* The roots of the log, by size and offset.                               *)

RootAt(f, size, offset) ==
    IF size = 1 THEN LeafHash(offset)
    ELSE LET k == LargestPowerOf2LessThan(size)
         IN  HashChildren(f[k][offset], f[size - k][offset + k])
RootsValue(p, f, size) == [offset \in Nat |-> RootAt(f, size, offset)]
RootsOrder == INSTANCE Order_proofs WITH Value <- RootsValue

LEMMA RootsBySize ==
    \A size \in Nat \ {0}, offset \in Nat : Roots[size][offset] = RootAt(Roots, size, offset)
<1> DEFINE All(f) == f = [size \in Nat \ {0} |-> RootsValue(0, f, size)]
<1>1. \E f : All(f)
  <2>1. RootsOrder!LooksBelow(0, Nat \ {0})
    <3> SUFFICES ASSUME NEW size \in Nat \ {0}, NEW f, NEW g,
                        \A m \in Nat \ {0} : m < size => f[m] = g[m]
                 PROVE  RootsValue(0, f, size) = RootsValue(0, g, size)
      BY DEF RootsOrder!LooksBelow
    <3>1. size = 1 \/ LET k == LargestPowerOf2LessThan(size) IN f[k] = g[k] /\ f[size - k] = g[size - k]
      BY TheTwoParts
    <3> QED BY <3>1 DEF RootsValue, RootAt
  <2> QED BY <2>1, RootsOrder!RecursiveFunction DEF RootsOrder!IsRecursive
<1>2. Roots = CHOOSE f : All(f)
  BY DEF Roots, RootsValue, RootAt
<1>3. All(Roots)
  <2> HIDE DEF All
  <2> QED BY <1>1, <1>2
<1> QED BY <1>3 DEF RootsValue

LEMMA RootOfALeaf ==
    ASSUME NEW offset \in Nat
    PROVE  Merkle(offset, 1) = LeafHash(offset)
<1>1. Merkle(offset, 1) = RootAt(Roots, 1, offset)
  BY RootsBySize DEF Merkle
<1> QED BY <1>1 DEF RootAt

LEMMA RootOfTwoTrees ==
    ASSUME NEW offset \in Nat, NEW size \in Nat, size >= 2
    PROVE  LET k == LargestPowerOf2LessThan(size)
           IN  Merkle(offset, size) = HashChildren(Merkle(offset, k), Merkle(offset + k, size - k))
<1>1. Merkle(offset, size) = RootAt(Roots, size, offset)
  BY RootsBySize DEF Merkle
<1> QED BY <1>1 DEF RootAt, Merkle

LEMMA RootOfANode ==
    ASSUME NEW offset \in Nat, NEW l \in Nat
    PROVE  Merkle(offset, Width[l + 1])
               = HashChildren(Merkle(offset, Width[l]), Merkle(offset + Width[l], Width[l]))
<1>1. Width[l + 1] \in Nat /\ Width[l + 1] >= 2 /\ Width[l + 1] - Width[l] = Width[l]
  BY WidthIsDoubled
<1>2. LargestPowerOf2LessThan(Width[l + 1]) = Width[l]
  BY FullTreesAreHalved
<1> QED BY <1>1, <1>2, RootOfTwoTrees

-----------------------------------------------------------------------------
(* The climb over what an entry completes, and the counts of the levels.   *)

ClimbValue(p, f, l) ==
    IF l = 0 THEN LeafHash(p.count - 1)
    ELSE HashChildren(TreeNode(p.tree, l - 1, LeftChild(l, p.count)), f[l - 1])
ClimbOrder == INSTANCE Order_proofs WITH Value <- ClimbValue

LEMMA ClimbExists ==
    ASSUME NEW tree, NEW count
    PROVE  \E f : f = [l \in Nat |->
                IF l = 0 THEN LeafHash(count - 1)
                ELSE HashChildren(TreeNode(tree, l - 1, LeftChild(l, count)), f[l - 1])]
<1> DEFINE p == [tree |-> tree, count |-> count]
<1>1. p.tree = tree /\ p.count = count
  OBVIOUS
<1> HIDE DEF p
<1>2. ClimbOrder!LooksBelow(p, Nat)
  BY DEF ClimbOrder!LooksBelow, ClimbValue
<1>3. \E f : ClimbOrder!IsRecursive(p, Nat, f)
  BY <1>2, ClimbOrder!RecursiveFunction
<1> QED BY <1>1, <1>3 DEF ClimbOrder!IsRecursive, ClimbValue

PopulationValue(n, f, l) == IF l = 0 THEN 0 ELSE f[l - 1] + n \div Width[l]
CountOrder == INSTANCE Order_proofs WITH Value <- PopulationValue

LEMMA CountsExist ==
    ASSUME NEW n
    PROVE  \E f : f = [l \in Nat |-> IF l = 0 THEN 0 ELSE f[l - 1] + n \div Width[l]]
<1>1. CountOrder!LooksBelow(n, Nat)
  BY DEF CountOrder!LooksBelow, PopulationValue
<1> QED BY <1>1, CountOrder!RecursiveFunction DEF CountOrder!IsRecursive, PopulationValue

-----------------------------------------------------------------------------
(* Arithmetic of the nodes.                                                *)

LEMMA DivideByWidth ==
    ASSUME NEW n \in Nat, NEW w \in Nat \ {0}
    PROVE  /\ n \div w \in Nat /\ n % w \in 0 .. w - 1
           /\ n = w * (n \div w) + (n % w)
OBVIOUS

LEMMA ExactMultiple ==
    ASSUME NEW n \in Nat, NEW w \in Nat \ {0}, NEW q \in Nat, n = q * w
    PROVE  n \div w = q /\ n % w = 0
<1>1. n \div w = q
  OBVIOUS
<1> QED BY <1>1, DivideByWidth

LEMMA CompleteIfBelow ==
    ASSUME NEW n \in Nat, NEW l \in Nat, NEW i \in Nat
    PROVE  NodeIsComplete(l, i, n) <=> i < n \div Width[l]
<1> DEFINE w == Width[l]
<1>1. w \in Nat \ {0}
  BY WidthIsDoubled
<1> HIDE DEF w
<1>2. (i + 1) * w <= n <=> i < n \div w
  BY <1>1
<1> QED BY <1>2 DEF NodeIsComplete, w

LEMMA CompleteNode ==
    ASSUME NEW n \in Nat, NEW l \in Nat \ {0}, NEW i \in Nat
    PROVE  <<l, i>> \in CompleteNodes(n) <=> NodeIsComplete(l, i, n)
<1> DEFINE w == Width[l]
<1>1. w \in Nat \ {0} /\ l < w
  BY WidthIsDoubled, WidthGrows
<1> HIDE DEF w
<1>2. ASSUME (i + 1) * w <= n PROVE l \in 1 .. n /\ i \in 0 .. n
  <2>1. w <= (i + 1) * w /\ i + 1 <= (i + 1) * w
    BY <1>1
  <2> QED BY <2>1, <1>1, <1>2
<1> QED BY <1>2 DEF CompleteNodes, NodeIsComplete, w

LEMMA NodesArePairs ==
    ASSUME NEW n \in Nat, NEW node \in CompleteNodes(n)
    PROVE  /\ node = <<node[1], node[2]>>
           /\ node[1] \in Nat \ {0} /\ node[2] \in Nat
           /\ NodeIsComplete(node[1], node[2], n)
BY DEF CompleteNodes

(* What one more entry completes, and nothing else.                        *)
LEMMA LastOfItsNode ==
    ASSUME NEW n \in Nat, NEW l \in CompletedLevels(n + 1)
    PROVE  /\ l \in Nat \ {0} /\ CompletedIndex(l, n + 1) \in Nat
           /\ (CompletedIndex(l, n + 1) + 1) * Width[l] = n + 1
<1> DEFINE w == Width[l]
<1>1. l \in Nat \ {0} /\ w \in Nat \ {0} /\ (n + 1) % w = 0
  BY WidthIsDoubled DEF CompletedLevels
<1>2. CompletedIndex(l, n + 1) = (n + 1) \div w - 1
  BY DEF CompletedIndex
<1> HIDE DEF w
<1> DEFINE count == n + 1
           q == count \div w
<1>3. count \in Nat /\ count > 0 /\ count % w = 0
  BY <1>1
<1>4. q \in Nat /\ count = w * q
  <2> HIDE DEF count
  <2>1. q \in Nat /\ count = w * q + (count % w)
    BY <1>1, <1>3, DivideByWidth
  <2> HIDE DEF q
  <2> QED BY <2>1, <1>1, <1>3
<1> HIDE DEF q
<1>5. q # 0
  BY <1>1, <1>4
<1>6. (q - 1) \in Nat /\ ((q - 1) + 1) * w = n + 1
  BY <1>1, <1>4, <1>5
<1>7. CompletedIndex(l, n + 1) = q - 1
  BY <1>2 DEF q
<1> QED BY <1>1, <1>6, <1>7 DEF w

LEMMA OneMoreCompletes ==
    ASSUME NEW n \in Nat
    PROVE  CompleteNodes(n + 1) = CompleteNodes(n) \cup
               {<<l, CompletedIndex(l, n + 1)>> : l \in CompletedLevels(n + 1)}
<1> DEFINE New == {<<l, CompletedIndex(l, n + 1)>> : l \in CompletedLevels(n + 1)}
<1>1. ASSUME NEW node \in CompleteNodes(n + 1), node \notin CompleteNodes(n)
      PROVE  node \in New
  <2> DEFINE l == node[1]
             i == node[2]
             w == Width[l]
  <2>1. l \in Nat \ {0} /\ i \in Nat /\ node = <<l, i>> /\ (i + 1) * w <= n + 1 /\ l \in 1 .. n + 1
    BY NodesArePairs DEF NodeIsComplete, CompleteNodes
  <2>2. ~ ((i + 1) * w <= n)
    BY <1>1, <2>1, CompleteNode DEF NodeIsComplete
  <2>3. w \in Nat \ {0}
    BY <2>1, WidthIsDoubled
  <2> HIDE DEF l, i, w
  <2>4. (i + 1) * w = n + 1
    <3> DEFINE p == (i + 1) * w
    <3>1. p \in Nat
      BY <2>1, <2>3
    <3>2. p <= n + 1 /\ ~ (p <= n)
      BY <2>1, <2>2
    <3> HIDE DEF p
    <3>3. p = n + 1
      BY <3>1, <3>2
    <3> QED BY <3>3 DEF p
  <2>5. (n + 1) \div w = i + 1 /\ (n + 1) % w = 0
    <3> DEFINE count == n + 1
               q == i + 1
    <3>1. count \in Nat /\ q \in Nat /\ count = q * w
      BY <2>1, <2>4
    <3> HIDE DEF count, q
    <3>2. count \div w = q /\ count % w = 0
      BY <2>3, <3>1, ExactMultiple
    <3> QED BY <3>2 DEF count, q
  <2>6. l \in CompletedLevels(n + 1)
    BY <2>1, <2>5 DEF CompletedLevels, w
  <2>7. CompletedIndex(l, n + 1) = i
    <3>1. CompletedIndex(l, n + 1) = (n + 1) \div w - 1
      BY DEF CompletedIndex, w
    <3> QED BY <3>1, <2>1, <2>5
  <2> QED BY <2>1, <2>6, <2>7
<1>2. ASSUME NEW node \in New PROVE node \in CompleteNodes(n + 1)
  <2>1. PICK l \in CompletedLevels(n + 1) : node = <<l, CompletedIndex(l, n + 1)>>
    OBVIOUS
  <2> DEFINE i == CompletedIndex(l, n + 1)
  <2>2. l \in Nat \ {0} /\ i \in Nat /\ (i + 1) * Width[l] = n + 1
    BY LastOfItsNode
  <2> HIDE DEF i
  <2>3. NodeIsComplete(l, i, n + 1)
    BY <2>2 DEF NodeIsComplete
  <2> QED BY <2>1, <2>2, <2>3, CompleteNode DEF i
<1>3. ASSUME NEW node \in CompleteNodes(n) PROVE node \in CompleteNodes(n + 1)
  <2> DEFINE l == node[1]
             i == node[2]
             p == (i + 1) * Width[l]
  <2>1. l \in Nat \ {0} /\ i \in Nat /\ node = <<l, i>> /\ p <= n
    BY NodesArePairs DEF NodeIsComplete
  <2>2. p \in Nat
    BY <2>1, WidthIsDoubled
  <2> HIDE DEF l, i, p
  <2>3. p <= n + 1
    BY <2>1, <2>2
  <2>4. NodeIsComplete(l, i, n + 1)
    BY <2>3 DEF NodeIsComplete, p
  <2> QED BY <2>1, <2>4, CompleteNode
<1> QED BY <1>1, <1>2, <1>3

-----------------------------------------------------------------------------
(* What is stored is the log's, and what is made of it then is too.        *)

RowsRight(tree) ==
    /\ \A i \in DOMAIN tree.leaf : tree.leaf[i] \in {NoHash, LeafHash(i)}
    /\ \A node \in DOMAIN tree.roots : tree.roots[node] = Hash(node[1], node[2])

LEMMA StoredNodesAreRight ==
    ASSUME NEW tree, RowsRight(tree), NEW l \in Nat, NEW i \in Nat, HasNode(tree, l, i)
    PROVE  TreeNode(tree, l, i) = Hash(l, i)
<1>1. CASE l = 0
  <2>1. TreeNode(tree, l, i) = LeafHash(i)
    BY <1>1 DEF RowsRight, HasNode, TreeNode
  <2>2. Hash(l, i) = Merkle(i, 1)
    <3>1. i * 1 = i
      OBVIOUS
    <3> QED BY <1>1, <3>1, WidthIsDoubled DEF Hash
  <2> QED BY <2>1, <2>2, RootOfALeaf
<1>2. CASE l # 0
  <2>1. <<l, i>> \in DOMAIN tree.roots /\ TreeNode(tree, l, i) = tree.roots[<<l, i>>]
    BY <1>2 DEF HasNode, TreeNode
  <2> QED BY <2>1 DEF RowsRight
<1> QED BY <1>1, <1>2

LEMMA BelowACompletedNode ==
    ASSUME NEW n \in Nat, NEW l \in Nat, l + 1 \in CompletedLevels(n + 1)
    PROVE  /\ l = 0 \/ l \in CompletedLevels(n + 1)
           /\ LeftChild(l + 1, n + 1) \in Nat
           /\ LeftChild(l + 1, n + 1) * Width[l] = (n + 1) - Width[l + 1]
           /\ (n + 1) - Width[l + 1] \in Nat
<1> DEFINE i == CompletedIndex(l + 1, n + 1)
           w == Width[l]
           count == n + 1
<1>1. i \in Nat /\ (i + 1) * Width[l + 1] = n + 1
  BY LastOfItsNode
<1>2. w \in Nat \ {0} /\ Width[l + 1] = 2 * w
  BY WidthIsDoubled
<1>3. LeftChild(l + 1, n + 1) = 2 * i
  BY DEF LeftChild
<1> HIDE DEF i, w
<1>4. (i + 1) * (2 * w) = count /\ count \in Nat
  BY <1>1, <1>2
<1> HIDE DEF count
<1>5. 2 * i * w = count - 2 * w /\ count - 2 * w \in Nat
  BY <1>1, <1>2, <1>4
<1>6. count % w = 0
  <2> DEFINE q == 2 * (i + 1)
  <2>1. q \in Nat /\ count = q * w
    BY <1>1, <1>2, <1>4
  <2> HIDE DEF q
  <2> QED BY <2>1, <1>2, <1>4, ExactMultiple
<1>7. l = 0 \/ l \in CompletedLevels(n + 1)
  <2>1. l + 1 \in 1 .. n + 1
    BY DEF CompletedLevels
  <2>2. l = 0 \/ l \in 1 .. n + 1
    BY <2>1
  <2>3. (n + 1) % Width[l] = 0
    BY <1>6 DEF count, w
  <2> QED BY <2>2, <2>3 DEF CompletedLevels
<1>8. (n + 1) - Width[l + 1] = count - 2 * w
  BY <1>2 DEF count
<1> QED BY <1>1, <1>3, <1>5, <1>7, <1>8 DEF w

LEMMA CompletedRootsAreRight ==
    ASSUME NEW tree, RowsRight(tree), NEW n \in Nat, ChildrenStored(tree, n + 1)
    PROVE  /\ CompletedRoots(tree, n + 1)
                = [node \in {<<l, CompletedIndex(l, n + 1)>> : l \in CompletedLevels(n + 1)} |->
                      CompletedRoots(tree, n + 1)[node]]
           /\ \A l \in CompletedLevels(n + 1) :
                  CompletedRoots(tree, n + 1)[<<l, CompletedIndex(l, n + 1)>>]
                      = Hash(l, CompletedIndex(l, n + 1))
<1> DEFINE count == n + 1
           Climb(f) == f = [l \in Nat |->
                IF l = 0 THEN LeafHash(count - 1)
                ELSE HashChildren(TreeNode(tree, l - 1, LeftChild(l, count)), f[l - 1])]
           hash == CHOOSE f : Climb(f)
           New == {<<l, CompletedIndex(l, count)>> : l \in CompletedLevels(count)}
<1>1. Climb(hash)
  BY ClimbExists
<1>2. CompletedRoots(tree, count) = [node \in New |-> hash[node[1]]]
  BY DEF CompletedRoots
<1>3. hash[0] = LeafHash(n) /\ \A l \in Nat :
          hash[l + 1] = HashChildren(TreeNode(tree, l, LeftChild(l + 1, count)), hash[l])
  <2>1. \A f : Climb(f) => /\ f[0] = LeafHash(count - 1)
                           /\ \A l \in Nat : f[l + 1] = HashChildren(TreeNode(tree, (l + 1) - 1,
                                                             LeftChild(l + 1, count)), f[(l + 1) - 1])
    OBVIOUS
  <2>2. count - 1 = n /\ \A l \in Nat : (l + 1) - 1 = l
    OBVIOUS
  <2> HIDE DEF Climb, count
  <2> QED BY <1>1, <2>1, <2>2
<1> HIDE DEF hash, Climb
<1> DEFINE S == {l \in Nat : l = 0 \/ l \in CompletedLevels(count)
                                 => hash[l] = Merkle(count - Width[l], Width[l])}
<1>4. \A l \in Nat : l \in S
  <2>1. 0 \in S
    <3>1. count - Width[0] = n /\ Width[0] = 1
      BY WidthIsDoubled
    <3> QED BY <1>3, <3>1, RootOfALeaf
  <2>2. ASSUME NEW l \in S PROVE l + 1 \in S
    <3> SUFFICES ASSUME l + 1 \in CompletedLevels(count)
                 PROVE  hash[l + 1] = Merkle(count - Width[l + 1], Width[l + 1])
      OBVIOUS
    <3> DEFINE i == LeftChild(l + 1, count)
               o == count - Width[l + 1]
    <3>0. l \in Nat
      OBVIOUS
    <3>1. /\ l \in Nat /\ (l = 0 \/ l \in CompletedLevels(count))
          /\ i \in Nat /\ i * Width[l] = o /\ o \in Nat
      <4> HIDE DEF S
      <4>1. /\ l = 0 \/ l \in CompletedLevels(n + 1)
            /\ LeftChild(l + 1, n + 1) \in Nat
            /\ LeftChild(l + 1, n + 1) * Width[l] = (n + 1) - Width[l + 1]
            /\ (n + 1) - Width[l + 1] \in Nat
        BY <3>0, BelowACompletedNode, Zenon
      <4> QED BY <3>0, <4>1
    <3>2. hash[l] = Merkle(count - Width[l], Width[l])
      BY <3>1
    <3>3. HasNode(tree, l, i)
      <4>1. (l + 1) - 1 = l
        BY <3>1
      <4> HIDE DEF S
      <4> QED BY <4>1 DEF ChildrenStored
    <3> HIDE DEF S
    <3>4. TreeNode(tree, l, i) = Merkle(o, Width[l])
      BY <3>1, <3>3, StoredNodesAreRight DEF Hash
    <3>5. count - Width[l] = o + Width[l]
      BY <3>1, WidthIsDoubled
    <3>6. hash[l + 1] = HashChildren(Merkle(o, Width[l]), Merkle(o + Width[l], Width[l]))
      BY <1>3, <3>1, <3>2, <3>4, <3>5
    <3>7. Merkle(o, Width[l + 1]) = HashChildren(Merkle(o, Width[l]), Merkle(o + Width[l], Width[l]))
      BY <3>1, RootOfANode
    <3> QED BY <3>6, <3>7
  <2>3. S \in SUBSET Nat
    OBVIOUS
  <2> HIDE DEF S
  <2> QED BY <2>1, <2>2, <2>3, Order!EveryNatural
<1>5. ASSUME NEW l \in CompletedLevels(count)
      PROVE  hash[l] = Hash(l, CompletedIndex(l, count))
  <2> DEFINE i == CompletedIndex(l, count)
  <2>1. l \in Nat /\ i \in Nat /\ (i + 1) * Width[l] = count /\ Width[l] \in Nat
    BY LastOfItsNode, WidthIsDoubled
  <2>2. hash[l] = Merkle(count - Width[l], Width[l])
    BY <1>4, <2>1
  <2>3. count - Width[l] = i * Width[l]
    <3> DEFINE w == Width[l]
    <3>1. i \in Nat /\ w \in Nat /\ (i + 1) * w = count
      BY <2>1
    <3> HIDE DEF i, S, w, count
    <3>2. count - w = i * w
      BY <3>1
    <3> QED BY <3>2 DEF w
  <2> HIDE DEF i, S
  <2> QED BY <2>2, <2>3 DEF Hash, i
<1>6. \A l \in CompletedLevels(count) :
          CompletedRoots(tree, count)[<<l, CompletedIndex(l, count)>>] = hash[l]
  BY <1>2
<1>7. CompletedRoots(tree, count) = [node \in New |-> CompletedRoots(tree, count)[node]]
  BY <1>2
<1> QED BY <1>5, <1>6, <1>7

-----------------------------------------------------------------------------
(* The population the open counts on is that of the complete nodes.        *)

Pairs(l, count) == {<<l, i>> : i \in 0 .. count - 1}

LEMMA PairsCounted ==
    ASSUME NEW l \in Nat, NEW count \in Nat
    PROVE  IsFiniteSet(Pairs(l, count)) /\ Cardinality(Pairs(l, count)) = count
<1> DEFINE f == [i \in 0 .. count - 1 |-> <<l, i>>]
<1>1. f \in Bijection(0 .. count - 1, Pairs(l, count))
  BY DEF Pairs, Bijection, Injection, Surjection, IsInjective
<1> HIDE DEF f
<1>2. ExistsBijection(0 .. count - 1, Pairs(l, count))
  BY <1>1 DEF ExistsBijection
<1>3. IsFiniteSet(0 .. count - 1) /\ Cardinality(0 .. count - 1) = count
  <2>1. /\ IsFiniteSet(0 .. count - 1)
        /\ Cardinality(0 .. count - 1) = IF 0 > count - 1 THEN 0 ELSE (count - 1) - 0 + 1
    <3>1. 0 \in Int /\ count - 1 \in Int
      OBVIOUS
    <3> QED BY ONLY <3>1, FS_Interval
  <2> QED BY <2>1
<1> QED BY <1>2, <1>3, FS_Bijection

LEMMA PopulationIsExact ==
    ASSUME NEW n \in Nat
    PROVE  /\ IsFiniteSet(CompleteNodes(n))
           /\ Cardinality(CompleteNodes(n)) = Population(n)
<1> DEFINE Sum(f) == f = [l \in Nat |-> IF l = 0 THEN 0 ELSE f[l - 1] + n \div Width[l]]
           upTo == CHOOSE f : Sum(f)
           Low(k) == {node \in CompleteNodes(n) : node[1] <= k}
<1>1. \A l \in Nat : n \div Width[l] \in Nat
  <2>1. ASSUME NEW l \in Nat PROVE n \div Width[l] \in Nat
    <3> DEFINE w == Width[l]
    <3>1. w \in Nat \ {0}
      BY WidthIsDoubled
    <3> HIDE DEF w
    <3>2. n \div w \in Nat
      BY <3>1, DivideByWidth
    <3> QED BY <3>2 DEF w
  <2> QED BY <2>1
<1>2. Sum(upTo)
  BY CountsExist
<1>3. upTo[0] = 0 /\ \A l \in Nat : upTo[l + 1] = upTo[l] + n \div Width[l + 1]
  <2>1. \A f : Sum(f) => /\ f[0] = 0
                         /\ \A l \in Nat : f[l + 1] = f[(l + 1) - 1] + n \div Width[l + 1]
    OBVIOUS
  <2>2. \A l \in Nat : (l + 1) - 1 = l
    OBVIOUS
  <2> HIDE DEF Sum, upTo
  <2> QED BY <1>2, <2>1, <2>2
<1>4. Population(n) = upTo[n]
  BY DEF Population
<1> HIDE DEF upTo, Sum
<1> DEFINE S == {k \in Nat : IsFiniteSet(Low(k)) /\ Cardinality(Low(k)) = upTo[k]}
<1>5. \A k \in Nat : k \in S
  <2>1. 0 \in S
    <3>1. Low(0) = {}
      BY NodesArePairs
    <3> QED BY <3>1, <1>3, FS_EmptySet
  <2>2. ASSUME NEW k \in S PROVE k + 1 \in S
    <3> DEFINE count == n \div Width[k + 1]
               level == Pairs(k + 1, count)
    <3>1. k \in Nat /\ k + 1 \in Nat /\ count \in Nat
      BY <1>1
    <3>2. IsFiniteSet(level) /\ Cardinality(level) = count
      <4> HIDE DEF count
      <4> QED BY <3>1, PairsCounted
    <3>3. Low(k + 1) = Low(k) \cup level
      <4>1. ASSUME NEW node \in Low(k + 1), node \notin Low(k) PROVE node \in level
        <5>1. /\ node = <<k + 1, node[2]>> /\ node[2] \in Nat
              /\ NodeIsComplete(k + 1, node[2], n)
          BY <3>1, <4>1, NodesArePairs
        <5>2. node[2] < count
          BY <3>1, <5>1, CompleteIfBelow
        <5> HIDE DEF count
        <5>3. node[2] \in 0 .. count - 1
          BY <3>1, <5>1, <5>2
        <5> QED BY <5>1, <5>3 DEF Pairs
      <4>2. ASSUME NEW node \in level PROVE node \in Low(k + 1)
        <5>1. PICK i \in 0 .. count - 1 : node = <<k + 1, i>>
          BY DEF Pairs
        <5>2. i \in Nat /\ i < count
          BY <3>1
        <5>3. NodeIsComplete(k + 1, i, n)
          BY <3>1, <5>2, CompleteIfBelow
        <5>4. node \in CompleteNodes(n)
          BY <3>1, <5>1, <5>2, <5>3, CompleteNode
        <5> QED BY <5>1, <5>4, <3>1
      <4>3. Low(k) \subseteq Low(k + 1)
        <5>1. \A node \in CompleteNodes(n) : node[1] \in Nat
          BY NodesArePairs
        <5> QED BY <3>1, <5>1
      <4> HIDE DEF Low, level
      <4> QED BY <4>1, <4>2, <4>3
    <3>4. Low(k) \cap level = {}
      BY <3>1 DEF Pairs
    <3>5. IsFiniteSet(Low(k)) /\ Cardinality(Low(k)) = upTo[k] /\ upTo[k] \in Nat
      BY FS_CardinalityType
    <3> HIDE DEF S, Low, level, count
    <3>6. /\ IsFiniteSet(Low(k) \cup level)
          /\ Cardinality(Low(k) \cup level)
                 = Cardinality(Low(k)) + Cardinality(level) - Cardinality(Low(k) \cap level)
      BY <3>2, <3>5, FS_Union
    <3>7. Cardinality(Low(k) \cup level) = upTo[k] + count
      <4>1. Cardinality(Low(k) \cap level) = 0
        BY <3>4, FS_EmptySet
      <4> QED BY ONLY <4>1, <3>1, <3>2, <3>5, <3>6
    <3>8. Cardinality(Low(k + 1)) = upTo[k + 1]
      BY <3>1, <3>3, <3>7, <1>3 DEF count
    <3> QED BY <3>1, <3>3, <3>6, <3>8 DEF S
  <2>3. S \in SUBSET Nat
    OBVIOUS
  <2> HIDE DEF S
  <2> QED BY <2>1, <2>2, <2>3, Order!EveryNatural
<1>6. Low(n) = CompleteNodes(n)
  BY DEF CompleteNodes
<1>7. IsFiniteSet(Low(n)) /\ Cardinality(Low(n)) = upTo[n]
  BY <1>5
<1> HIDE DEF Low, S
<1> QED BY <1>4, <1>6, <1>7

-----------------------------------------------------------------------------
(* The inductive invariant.                                                *)

NodeHash == {Merkle(offset, size) : offset \in Nat, size \in Nat \ {0}}

(* The log has no gap, and every stored row is right.                      *)
LogShape == Entries \in Nat /\ DOMAIN leaf = 0 .. Entries - 1

(* What the process has in memory where; no leaf hash is missing once the  *)
(* backfill is over.                                                       *)
PhaseShape ==
    /\ phase \in {"down", "backfill", "check", "rebuild", "up"}
    /\ batch \subseteq DOMAIN leaf
    /\ phase # "backfill" => batch = {}
    /\ phase # "rebuild" => fold = NoFold
    /\ phase \in {"check", "rebuild", "up"} => Missing = {}

(* The rebuild holds the nodes one level down, and has stored the levels   *)
(* below and the beginning of its own; it has a pair left to insert.       *)
Lower(n, level) == {node \in CompleteNodes(n) : node[1] < level}
FoldedTo(f, n, held) ==
    /\ f \in [level : Nat \ {0}, current : Seq(NodeHash), next : Seq(NodeHash)]
    /\ Len(f.current) = n \div Width[f.level - 1]
    /\ 2 * (Len(f.next) + 1) <= Len(f.current)
    /\ \A j \in 1 .. Len(f.current) : f.current[j] = Hash(f.level - 1, j - 1)
    /\ \A j \in 1 .. Len(f.next) : f.next[j] = Hash(f.level, j - 1)
    /\ held = Lower(n, f.level) \cup Pairs(f.level, Len(f.next))
FoldSound == fold # NoFold => FoldedTo(fold, Entries, DOMAIN roots)

UndamagedComplete ==
    phase = "up" /\ ~damaged => DOMAIN roots = CompleteNodes(Entries)

TreeInv ==
    /\ LogShape /\ RowsAreTheLogs /\ PhaseShape /\ FoldSound /\ UndamagedComplete

LEMMA CountOfInterval ==
    ASSUME NEW n \in Nat
    PROVE  Cardinality(0 .. n - 1) = n
<1>1. Cardinality(0 .. n - 1) = IF 0 > n - 1 THEN 0 ELSE (n - 1) - 0 + 1
  <2>1. 0 \in Int /\ n - 1 \in Int
    OBVIOUS
  <2> QED BY ONLY <2>1, FS_Interval
<1> QED BY <1>1

LEMMA HashesOfNodes ==
    ASSUME NEW l \in Nat, NEW i \in Nat
    PROVE  /\ Hash(l, i) \in NodeHash
           /\ Hash(0, i) = LeafHash(i)
           /\ Hash(l + 1, i) = HashChildren(Hash(l, 2 * i), Hash(l, 2 * i + 1))
<1> DEFINE w == Width[l]
<1>1. w \in Nat \ {0} /\ Width[l + 1] = 2 * w /\ Width[0] = 1
  BY WidthIsDoubled
<1>2. Hash(l, i) \in NodeHash
  <2>1. i * w \in Nat
    BY <1>1
  <2> HIDE DEF w
  <2> QED BY <1>1, <2>1 DEF Hash, NodeHash, w
<1>3. Hash(0, i) = LeafHash(i)
  <2>1. Hash(0, i) = Merkle(i, 1)
    <3>1. i * 1 = i
      OBVIOUS
    <3> QED BY <3>1, <1>1 DEF Hash
  <2> QED BY <2>1, RootOfALeaf
<1>4. Hash(l + 1, i) = HashChildren(Hash(l, 2 * i), Hash(l, 2 * i + 1))
  <2> DEFINE o == i * Width[l + 1]
  <2>1. o \in Nat /\ o = 2 * i * w /\ o + w = (2 * i + 1) * w
    <3>1. o = i * (2 * w)
      BY <1>1
    <3> HIDE DEF w, o
    <3> QED BY <3>1, <1>1
  <2> HIDE DEF o
  <2>2. Merkle(o, Width[l + 1]) = HashChildren(Merkle(o, w), Merkle(o + w, w))
    BY <2>1, RootOfANode
  <2> QED BY <2>1, <2>2 DEF Hash, o
<1> QED BY <1>2, <1>3, <1>4

LEMMA InitHasInv == Init => TreeInv
<1> SUFFICES ASSUME Init PROVE TreeInv
  OBVIOUS
<1>1. PICK n \in 0 .. MaxEntries : leaf = [i \in 0 .. n - 1 |-> NoHash]
  BY DEF Init
<1>2. n \in Nat /\ DOMAIN leaf = 0 .. n - 1
  BY <1>1, TreeStoreAssumption
<1>3. Entries = n
  BY <1>2, CountOfInterval DEF Entries
<1>4. LogShape
  BY <1>2, <1>3 DEF LogShape
<1>5. RowsAreTheLogs
  BY <1>1 DEF Init, RowsAreTheLogs
<1>6. PhaseShape /\ FoldSound /\ UndamagedComplete
  BY DEF Init, PhaseShape, FoldSound, UndamagedComplete
<1> QED BY <1>4, <1>5, <1>6 DEF TreeInv

(* A step that leaves the log and its material alone.                      *)
LEMMA OpenKeepsInv ==
    ASSUME TreeInv, OpenStore
    PROVE  TreeInv'
<1>1. UNCHANGED <<leaf, roots, batch, fold, damaged>> /\ phase = "down" /\ phase' = "backfill"
  BY DEF OpenStore
<1>2. LogShape' /\ RowsAreTheLogs'
  BY <1>1 DEF TreeInv, LogShape, RowsAreTheLogs, Entries
<1>3. PhaseShape' /\ UndamagedComplete'
  BY <1>1 DEF TreeInv, PhaseShape, UndamagedComplete
<1>4. FoldSound'
  BY <1>1 DEF TreeInv, PhaseShape, FoldSound
<1> QED BY <1>2, <1>3, <1>4 DEF TreeInv

LEMMA CrashKeepsInv ==
    ASSUME TreeInv, Crash
    PROVE  TreeInv'
<1>1. UNCHANGED <<leaf, roots, damaged>> /\ phase' = "down" /\ batch' = {} /\ fold' = NoFold
  BY DEF Crash
<1>2. LogShape' /\ RowsAreTheLogs'
  BY <1>1 DEF TreeInv, LogShape, RowsAreTheLogs, Entries
<1>3. PhaseShape' /\ UndamagedComplete' /\ FoldSound'
  BY <1>1 DEF PhaseShape, UndamagedComplete, FoldSound, NoFold
<1> QED BY <1>2, <1>3 DEF TreeInv

LEMMA LoseRowKeepsInv ==
    ASSUME TreeInv, LoseRow
    PROVE  TreeInv'
<1>1. /\ UNCHANGED <<leaf, phase, batch, fold>> /\ phase \in {"up", "down"} /\ damaged' = TRUE
      /\ DOMAIN roots' \subseteq DOMAIN roots /\ \A node \in DOMAIN roots' : roots'[node] = roots[node]
  BY DEF LoseRow
<1>2. LogShape' /\ RowsAreTheLogs'
  BY <1>1 DEF TreeInv, LogShape, RowsAreTheLogs, Entries
<1>3. PhaseShape' /\ UndamagedComplete' /\ FoldSound'
  BY <1>1 DEF TreeInv, PhaseShape, UndamagedComplete, FoldSound, Missing
<1> QED BY <1>2, <1>3 DEF TreeInv

(* An empty batch is the end of the backfill.                              *)
LEMMA EmptyBatchMeansDone ==
    ASSUME LogShape, FirstRows(Missing) = {}
    PROVE  Missing = {}
<1> SUFFICES ASSUME NEW s \in Missing PROVE FALSE
  OBVIOUS
<1>1. Missing \in SUBSET Nat
  BY DEF LogShape, Missing
<1>2. PICK least \in Missing : \A m \in Missing : least <= m
  BY <1>1, Order!LeastNatural
<1>3. {j \in Missing : j < least} = {}
  <2>1. \A j \in Missing : j \in Nat /\ least <= j /\ least \in Nat
    BY <1>1, <1>2
  <2>2. \A j \in Missing : ~ (j < least)
    BY <2>1
  <2> QED BY <2>2
<1>4. Cardinality({j \in Missing : j < least}) < BackfillBatch
  BY <1>3, FS_EmptySet, TreeStoreAssumption
<1> QED BY <1>2, <1>4 DEF FirstRows

LEMMA SelectKeepsInv ==
    ASSUME TreeInv, SelectBatch
    PROVE  TreeInv'
<1>1. /\ UNCHANGED <<leaf, roots, fold, damaged>> /\ phase = "backfill"
      /\ batch' = FirstRows(Missing)
      /\ phase' = IF batch' = {} THEN "check" ELSE "backfill"
  BY DEF SelectBatch
<1>2. LogShape' /\ RowsAreTheLogs'
  BY <1>1 DEF TreeInv, LogShape, RowsAreTheLogs, Entries
<1>3. batch' = {} => Missing = {}
  BY <1>1, EmptyBatchMeansDone DEF TreeInv
<1>4. batch' \subseteq DOMAIN leaf
  BY <1>1 DEF FirstRows, Missing
<1>5. PhaseShape' /\ UndamagedComplete' /\ FoldSound'
  BY <1>1, <1>3, <1>4 DEF TreeInv, PhaseShape, UndamagedComplete, FoldSound, Missing
<1> QED BY <1>2, <1>5 DEF TreeInv

LEMMA BackfillKeepsInv ==
    ASSUME TreeInv, BackfillRow
    PROVE  TreeInv'
<1> DEFINE i == CHOOSE i \in batch : \A j \in batch : i <= j
<1>1. /\ UNCHANGED <<roots, phase, fold, damaged>> /\ phase = "backfill" /\ batch # {}
      /\ leaf' = [leaf EXCEPT ![i] = LeafHash(i)] /\ batch' = batch \ {i}
  BY DEF BackfillRow
<1>2. i \in batch
  <2>1. batch \in SUBSET Nat
    BY DEF TreeInv, LogShape, PhaseShape
  <2>2. \E m \in batch : \A j \in batch : m <= j
    BY <1>1, <2>1, Order!LeastNatural
  <2> QED BY <2>2
<1> HIDE DEF i
<1>3. DOMAIN leaf' = DOMAIN leaf /\ \A j \in DOMAIN leaf : leaf'[j] \in {leaf[j], LeafHash(j)}
  BY <1>1
<1>4. LogShape' /\ RowsAreTheLogs'
  BY <1>1, <1>3 DEF TreeInv, LogShape, RowsAreTheLogs, Entries
<1>5. PhaseShape' /\ UndamagedComplete' /\ FoldSound'
  BY <1>1, <1>3 DEF TreeInv, PhaseShape, UndamagedComplete, FoldSound
<1> QED BY <1>4, <1>5 DEF TreeInv

LEMMA CheckKeepsInv ==
    ASSUME TreeInv, CheckCache
    PROVE  TreeInv'
<1>1. /\ UNCHANGED <<leaf, roots, batch, fold>> /\ phase = "check"
      /\ \/ CacheComplete(Tree, Entries) /\ phase' = "up"
         \/ phase' = "rebuild"
  BY DEF CheckCache
<1>2. LogShape' /\ RowsAreTheLogs'
  BY <1>1 DEF TreeInv, LogShape, RowsAreTheLogs, Entries
<1>3. ASSUME phase' = "up"
      PROVE  DOMAIN roots = CompleteNodes(Entries)
  <2>1. Entries \in Nat /\ DOMAIN roots \in SUBSET CompleteNodes(Entries)
    BY DEF TreeInv, LogShape, RowsAreTheLogs
  <2>2. Cardinality(DOMAIN roots) = Population(Entries)
    BY <1>1, <1>3 DEF CacheComplete, Tree
  <2> QED BY <2>1, <2>2, PopulationIsExact, FS_Subset
<1>4. UndamagedComplete'
  BY <1>1, <1>3 DEF UndamagedComplete, Entries
<1>5. PhaseShape' /\ FoldSound'
  BY <1>1 DEF TreeInv, PhaseShape, FoldSound, Missing
<1> QED BY <1>2, <1>4, <1>5 DEF TreeInv

LEMMA DeleteKeepsInv ==
    ASSUME TreeInv, DeleteRoots
    PROVE  TreeInv'
<1> DEFINE n == Entries
           started == [level |-> 1, current |-> LeafHashes, next |-> <<>>]
<1>1. /\ UNCHANGED <<leaf, batch>> /\ phase = "rebuild" /\ fold = NoFold
      /\ roots' = [node \in {} |-> NoHash]
      /\ \/ n >= 2 /\ fold' = started /\ UNCHANGED <<phase, damaged>>
         \/ ~ (n >= 2) /\ phase' = "up" /\ UNCHANGED fold
  BY DEF DeleteRoots
<1>2. n \in Nat /\ n' = n /\ DOMAIN leaf = 0 .. n - 1
  BY <1>1 DEF TreeInv, LogShape, Entries
<1>3. LogShape' /\ RowsAreTheLogs'
  BY <1>1 DEF TreeInv, LogShape, RowsAreTheLogs, Entries
<1>4. PhaseShape'
  BY <1>1 DEF TreeInv, PhaseShape, Missing
<1>5. UndamagedComplete'
  <2> SUFFICES ASSUME phase' = "up" PROVE CompleteNodes(n) = {}
    BY <1>1, <1>2 DEF UndamagedComplete
  <2>1. n < 2
    BY <1>1, <1>2
  <2> SUFFICES ASSUME NEW node \in CompleteNodes(n) PROVE FALSE
    OBVIOUS
  <2>2. node[1] \in Nat \ {0} /\ node[2] \in Nat /\ (node[2] + 1) * Width[node[1]] <= n
    BY <1>2, NodesArePairs DEF NodeIsComplete
  <2> DEFINE w == Width[node[1]]
             i == node[2]
  <2>3. w \in Nat /\ w >= 2 /\ i \in Nat /\ (i + 1) * w <= n
    BY <2>2, WidthGrows, WidthIsDoubled
  <2> HIDE DEF w, i, n
  <2>4. w <= (i + 1) * w
    BY <2>3
  <2> QED BY <2>1, <2>3, <2>4, <1>2
<1>6. FoldSound'
  <2> SUFFICES ASSUME n >= 2, fold' = started PROVE FoldSound'
    BY <1>1 DEF FoldSound
  <2>1. \A j \in 1 .. n : leaf[j - 1] = Hash(0, j - 1) /\ leaf[j - 1] \in NodeHash
    <3> TAKE j \in 1 .. n
    <3>1. j - 1 \in DOMAIN leaf /\ j - 1 \in Nat
      BY <1>2
    <3>2. leaf[j - 1] = LeafHash(j - 1)
      BY <3>1, <1>1 DEF TreeInv, RowsAreTheLogs, PhaseShape, Missing
    <3> QED BY <3>1, <3>2, HashesOfNodes
  <2>2. /\ LeafHashes \in Seq(NodeHash) /\ Len(LeafHashes) = n
        /\ \A j \in 1 .. n : LeafHashes[j] = Hash(0, j - 1)
    BY <1>2, <2>1 DEF LeafHashes
  <2> HIDE DEF n
  <2>3. started.level = 1 /\ started.current = LeafHashes /\ started.next = <<>> /\ 1 - 1 = 0
    OBVIOUS
  <2>4. started \in [level : Nat \ {0}, current : Seq(NodeHash), next : Seq(NodeHash)]
    BY <2>2
  <2>5. n \div Width[0] = n
    BY <1>2, WidthIsDoubled
  <2>6. Lower(n, 1) \cup Pairs(1, 0) = {}
    BY <1>2, NodesArePairs DEF Lower, Pairs
  <2>7. Len(started.next) = 0
    BY <2>3
  <2> HIDE DEF started
  <2>8. Len(started.current) = n \div Width[started.level - 1]
    BY <2>2, <2>3, <2>5
  <2>9. 2 * (Len(started.next) + 1) <= Len(started.current)
    BY <2>2, <2>3, <2>7, <1>2
  <2>10. \A j \in 1 .. Len(started.current) : started.current[j] = Hash(started.level - 1, j - 1)
    BY <2>2, <2>3
  <2>11. \A j \in 1 .. Len(started.next) : started.next[j] = Hash(started.level, j - 1)
    BY <2>7
  <2>12. FoldedTo(started, n, {})
    BY <2>3, <2>4, <2>6, <2>7, <2>8, <2>9, <2>10, <2>11 DEF FoldedTo
  <2>13. DOMAIN roots' = {}
    BY <1>1
  <2> QED BY <1>2, <2>12, <2>13 DEF FoldSound, n
<1> QED BY <1>3, <1>4, <1>5, <1>6 DEF TreeInv

(* Each level has half as many complete nodes as the one below, and a level *)
(* with one of them is the last.                                           *)
LEMMA HalfAsMany ==
    ASSUME NEW n \in Nat, NEW l \in Nat
    PROVE  /\ n \div Width[l] \in Nat
           /\ n \div Width[l + 1] = (n \div Width[l]) \div 2
<1> DEFINE w == Width[l]
<1>1. w \in Nat \ {0} /\ Width[l + 1] = 2 * w
  BY WidthIsDoubled
<1> HIDE DEF w
<1>2. n \div w \in Nat /\ n \div (2 * w) = (n \div w) \div 2
  BY <1>1
<1> QED BY <1>1, <1>2 DEF w

LEMMA LevelFilled ==
    ASSUME NEW n \in Nat, NEW l \in Nat \ {0}
    PROVE  Lower(n, l + 1) = Lower(n, l) \cup Pairs(l, n \div Width[l])
<1> DEFINE count == n \div Width[l]
<1>1. count \in Nat
  BY HalfAsMany
<1>2. ASSUME NEW node \in Lower(n, l + 1), node \notin Lower(n, l)
      PROVE  node \in Pairs(l, count)
  <2>1. node = <<l, node[2]>> /\ node[2] \in Nat /\ NodeIsComplete(l, node[2], n)
    BY <1>2, NodesArePairs DEF Lower
  <2>2. node[2] < count
    BY <2>1, CompleteIfBelow
  <2> HIDE DEF count
  <2>3. node[2] \in 0 .. count - 1
    BY <1>1, <2>1, <2>2
  <2> QED BY <2>1, <2>3 DEF Pairs
<1>3. ASSUME NEW node \in Pairs(l, count) PROVE node \in Lower(n, l + 1)
  <2>1. PICK i \in 0 .. count - 1 : node = <<l, i>>
    BY DEF Pairs
  <2>2. i \in Nat /\ i < count
    BY <1>1
  <2>3. node \in CompleteNodes(n)
    BY <2>1, <2>2, CompleteIfBelow, CompleteNode
  <2>4. node[1] = l
    BY <2>1
  <2> QED BY <2>3, <2>4 DEF Lower
<1>4. Lower(n, l) \subseteq Lower(n, l + 1)
  BY NodesArePairs DEF Lower
<1> QED BY <1>2, <1>3, <1>4

LEMMA NothingAbove ==
    ASSUME NEW n \in Nat, NEW l \in Nat, n \div Width[l] <= 1
    PROVE  CompleteNodes(n) = Lower(n, l + 1)
<1> SUFFICES ASSUME NEW node \in CompleteNodes(n), node[1] > l PROVE FALSE
  BY NodesArePairs DEF Lower
<1> DEFINE w == Width[l]
           v == Width[node[1]]
           i == node[2]
<1>1. w \in Nat \ {0} /\ v \in Nat /\ 2 * w <= v
  BY NodesArePairs, WidthIsDoubled, WidthGrows
<1>2. i \in Nat /\ (i + 1) * v <= n
  BY NodesArePairs DEF NodeIsComplete
<1>3. n \div w <= 1
  OBVIOUS
<1> HIDE DEF w, v, i
<1>4. v <= (i + 1) * v
  BY <1>1, <1>2
<1>5. 2 * w <= n
  BY <1>1, <1>2, <1>4
<1>6. n < 2 * w
  BY <1>1, <1>3
<1> QED BY <1>1, <1>5, <1>6

LEMMA InsertKeepsInv ==
    ASSUME TreeInv, InsertRoot
    PROVE  TreeInv'
<1> DEFINE n == Entries
           l == fold.level
           c == Len(fold.current)
           m == Len(fold.next)
           grown == Append(fold.next, Pair(fold))
           levelDone == 2 * (Len(grown) + 1) > c
<1>1. /\ UNCHANGED <<leaf, batch>> /\ phase = "rebuild" /\ fold # NoFold
      /\ roots' = Upsert(roots, [x \in {<<l, m>>} |-> Pair(fold)])
      /\ \/ ~levelDone /\ fold' = [fold EXCEPT !.next = grown] /\ UNCHANGED <<phase, damaged>>
         \/ /\ levelDone /\ Len(grown) >= 2
            /\ fold' = [level |-> l + 1, current |-> grown, next |-> <<>>]
            /\ UNCHANGED <<phase, damaged>>
         \/ levelDone /\ ~ (Len(grown) >= 2) /\ fold' = NoFold /\ phase' = "up"
  BY DEF InsertRoot
<1>2. n \in Nat /\ n' = n
  BY <1>1 DEF TreeInv, LogShape, Entries
<1>3. FoldedTo(fold, n, DOMAIN roots)
  BY <1>1 DEF TreeInv, FoldSound
<1>4. /\ l \in Nat \ {0} /\ fold.current \in Seq(NodeHash) /\ fold.next \in Seq(NodeHash)
      /\ c \in Nat /\ m \in Nat /\ 2 * (m + 1) <= c
      /\ c = n \div Width[l - 1]
  BY <1>3 DEF FoldedTo
<1>5. \A j \in 1 .. c : fold.current[j] = Hash(l - 1, j - 1)
  BY <1>3 DEF FoldedTo
<1>6. \A j \in 1 .. m : fold.next[j] = Hash(l, j - 1)
  BY <1>3 DEF FoldedTo
<1>7. DOMAIN roots = Lower(n, l) \cup Pairs(l, m)
  BY <1>3 DEF FoldedTo
<1>8. fold = [level |-> l, current |-> fold.current, next |-> fold.next]
  BY <1>3 DEF FoldedTo
<1>9. n \div Width[l] = c \div 2
  <2>1. l - 1 \in Nat /\ (l - 1) + 1 = l
    BY <1>4
  <2> HIDE DEF l, c
  <2> QED BY <2>1, <1>2, <1>4, HalfAsMany
<1>10. Pair(fold) = Hash(l, m) /\ Pair(fold) \in NodeHash
  <2>1. 2 * m + 1 \in 1 .. c /\ 2 * m + 2 \in 1 .. c /\ (2 * m + 1) - 1 = 2 * m /\ (2 * m + 2) - 1 = 2 * m + 1
    BY <1>4
  <2>2. fold.current[2 * m + 1] = Hash(l - 1, 2 * m) /\ fold.current[2 * m + 2] = Hash(l - 1, 2 * m + 1)
    BY <1>5, <2>1
  <2>3. Pair(fold) = HashChildren(Hash(l - 1, 2 * m), Hash(l - 1, 2 * m + 1))
    BY <2>2 DEF Pair
  <2>4. l - 1 \in Nat /\ (l - 1) + 1 = l
    BY <1>4
  <2> HIDE DEF l, m, c
  <2>5. Hash((l - 1) + 1, m) = HashChildren(Hash(l - 1, 2 * m), Hash(l - 1, 2 * m + 1))
    BY <2>4, <1>4, HashesOfNodes
  <2>6. Hash(l, m) \in NodeHash
    BY <1>4, HashesOfNodes
  <2> QED BY <2>3, <2>4, <2>5, <2>6
<1>11. /\ grown \in Seq(NodeHash) /\ Len(grown) = m + 1
       /\ \A j \in 1 .. m + 1 : grown[j] = Hash(l, j - 1)
  BY <1>4, <1>6, <1>10
<1> DEFINE node == <<l, m>>
<1>12. DOMAIN roots' = DOMAIN roots \cup {node} /\ roots'[node] = Hash(l, m)
       /\ \A x \in DOMAIN roots : x # node => roots'[x] = roots[x]
  BY <1>1, <1>10 DEF Upsert
<1>13. DOMAIN roots' = Lower(n, l) \cup Pairs(l, m + 1)
  BY <1>4, <1>7, <1>12 DEF Pairs
<1>14. LogShape'
  BY <1>1 DEF TreeInv, LogShape, Entries
<1>15. RowsAreTheLogs'
  <2>1. node \in CompleteNodes(n)
    <3>1. m < n \div Width[l]
      BY <1>4, <1>9
    <3> HIDE DEF l, m, n
    <3> QED BY <1>2, <1>4, <3>1, CompleteIfBelow, CompleteNode
  <2>2. /\ \A i \in DOMAIN leaf : leaf[i] \in {NoHash, LeafHash(i)}
        /\ DOMAIN roots \subseteq CompleteNodes(n)
        /\ \A x \in DOMAIN roots : roots[x] = Hash(x[1], x[2])
    BY DEF TreeInv, RowsAreTheLogs
  <2>3. DOMAIN roots' \subseteq CompleteNodes(n)
    BY <2>1, <2>2, <1>12
  <2>4. \A x \in DOMAIN roots' : roots'[x] = Hash(x[1], x[2])
    <3>1. node[1] = l /\ node[2] = m
      OBVIOUS
    <3> HIDE DEF node, l, m
    <3> QED BY <2>2, <3>1, <1>12
  <2>5. leaf' = leaf
    BY <1>1
  <2> HIDE DEF n
  <2> QED BY <1>2, <2>2, <2>3, <2>4, <2>5 DEF RowsAreTheLogs, n
<1>16. PhaseShape'
  BY <1>1 DEF TreeInv, PhaseShape, Missing
<1>17. ASSUME levelDone PROVE m + 1 = n \div Width[l]
  BY <1>4, <1>9, <1>11, <1>17
<1>18. ASSUME levelDone PROVE DOMAIN roots' = Lower(n, l + 1)
  <2> HIDE DEF l, m, n, levelDone
  <2> QED BY <1>2, <1>4, <1>13, <1>17, <1>18, LevelFilled
<1> HIDE DEF n, c, m, grown, node
<1>19. FoldSound'
  <2>1. CASE ~levelDone /\ fold' = [fold EXCEPT !.next = grown]
    <3> DEFINE f == [fold EXCEPT !.next = grown]
    <3>1. f.level = l /\ f.current = fold.current /\ f.next = grown
          /\ f \in [level : Nat \ {0}, current : Seq(NodeHash), next : Seq(NodeHash)]
      BY <1>3, <1>11 DEF FoldedTo
    <3> HIDE DEF f, l
    <3>2. 2 * (Len(f.next) + 1) <= Len(f.current)
      BY <2>1, <3>1, <1>4, <1>11 DEF c
    <3>3. Len(f.current) = n \div Width[f.level - 1]
      BY <3>1, <1>4 DEF c
    <3>4. \A j \in 1 .. Len(f.current) : f.current[j] = Hash(f.level - 1, j - 1)
      BY <3>1, <1>5 DEF c
    <3>5. \A j \in 1 .. Len(f.next) : f.next[j] = Hash(f.level, j - 1)
      BY <3>1, <1>11
    <3>6. FoldedTo(f, n, DOMAIN roots')
      BY <3>1, <3>2, <3>3, <3>4, <3>5, <1>11, <1>13 DEF FoldedTo
    <3> QED BY <2>1, <3>6, <1>2 DEF FoldSound, f, n
  <2>2. CASE levelDone /\ Len(grown) >= 2 /\ fold' = [level |-> l + 1, current |-> grown, next |-> <<>>]
    <3> DEFINE f == [level |-> l + 1, current |-> grown, next |-> <<>>]
    <3>1. f.level = l + 1 /\ f.current = grown /\ f.next = <<>> /\ Len(f.next) = 0
          /\ (l + 1) - 1 = l
          /\ f \in [level : Nat \ {0}, current : Seq(NodeHash), next : Seq(NodeHash)]
      BY <1>4, <1>11
    <3> HIDE DEF f, l
    <3>2. 2 * (Len(f.next) + 1) <= Len(f.current)
      BY <2>2, <3>1, <1>4, <1>11
    <3>3. Len(f.current) = n \div Width[f.level - 1]
      BY <2>2, <3>1, <1>11, <1>17
    <3>4. \A j \in 1 .. Len(f.current) : f.current[j] = Hash(f.level - 1, j - 1)
      BY <3>1, <1>11
    <3>5. \A j \in 1 .. Len(f.next) : f.next[j] = Hash(f.level, j - 1)
      BY <3>1
    <3>6. Pairs(f.level, Len(f.next)) = {}
      BY <3>1 DEF Pairs
    <3>7. DOMAIN roots' = Lower(n, f.level) \cup Pairs(f.level, Len(f.next))
      BY <2>2, <3>1, <3>6, <1>18
    <3>8. FoldedTo(f, n, DOMAIN roots')
      BY <3>1, <3>2, <3>3, <3>4, <3>5, <3>7 DEF FoldedTo
    <3> QED BY <2>2, <3>8, <1>2 DEF FoldSound, f, n
  <2>3. CASE fold' = NoFold
    BY <2>3 DEF FoldSound, NoFold
  <2> HIDE DEF levelDone, l
  <2> QED BY <1>1, <2>1, <2>2, <2>3
<1>20. UndamagedComplete'
  <2> SUFFICES ASSUME phase' = "up" PROVE DOMAIN roots' = CompleteNodes(n)
    BY <1>2 DEF UndamagedComplete, n
  <2>1. levelDone /\ ~ (Len(grown) >= 2)
    BY <1>1
  <2>2. n \div Width[l] <= 1
    BY <2>1, <1>4, <1>11, <1>17
  <2> HIDE DEF levelDone, l
  <2>3. CompleteNodes(n) = Lower(n, l + 1)
    BY <1>2, <1>4, <2>2, NothingAbove
  <2> QED BY <2>1, <2>3, <1>18
<1> QED BY <1>14, <1>15, <1>16, <1>19, <1>20 DEF TreeInv

(* A promotion stores what its entry completes, and stores it right.       *)
LEMMA PromotionFacts ==
    ASSUME TreeInv, Promote
    PROVE  LET n == Entries
               new == {<<l, CompletedIndex(l, n + 1)>> : l \in CompletedLevels(n + 1)}
           IN  /\ UNCHANGED <<phase, batch, fold, damaged>> /\ phase = "up"
               /\ n \in Nat /\ Entries' = n + 1
               /\ DOMAIN leaf' = 0 .. n /\ leaf'[n] = LeafHash(n)
               /\ \A i \in DOMAIN leaf : leaf'[i] = leaf[i]
               /\ DOMAIN roots' = DOMAIN roots \cup new
               /\ CompleteNodes(n + 1) = CompleteNodes(n) \cup new
               /\ \A node \in DOMAIN roots' : roots'[node] = Hash(node[1], node[2])
<1> DEFINE n == Entries
           new == {<<l, CompletedIndex(l, n + 1)>> : l \in CompletedLevels(n + 1)}
           tree == [Tree EXCEPT !.leaf = Appended]
           added == CompletedRoots(tree, n + 1)
<1>1. /\ UNCHANGED <<phase, batch, fold, damaged>> /\ phase = "up"
      /\ ChildrenStored(tree, n + 1)
      /\ leaf' = Appended /\ roots' = Upsert(roots, added)
  BY DEF Promote
<1>2. n \in Nat /\ DOMAIN leaf = 0 .. n - 1
  BY DEF TreeInv, LogShape
<1>3. tree.leaf = Appended /\ tree.roots = roots
  BY DEF Tree
<1>4. /\ DOMAIN Appended = 0 .. n /\ Appended[n] = LeafHash(n)
      /\ \A i \in DOMAIN leaf : Appended[i] = leaf[i]
  BY <1>2 DEF Appended, Upsert
<1> HIDE DEF tree
<1>5. RowsRight(tree)
  <2>1. \A i \in DOMAIN Appended : Appended[i] \in {NoHash, LeafHash(i)}
    <3> TAKE i \in DOMAIN Appended
    <3>1. i = n \/ i \in DOMAIN leaf
      BY <1>2, <1>4
    <3> QED BY <3>1, <1>4 DEF TreeInv, RowsAreTheLogs
  <2>2. \A node \in DOMAIN roots : roots[node] = Hash(node[1], node[2])
    BY DEF TreeInv, RowsAreTheLogs
  <2> QED BY <2>1, <2>2, <1>3 DEF RowsRight
<1>6. /\ added = [node \in new |-> added[node]]
      /\ \A l \in CompletedLevels(n + 1) :
             added[<<l, CompletedIndex(l, n + 1)>>] = Hash(l, CompletedIndex(l, n + 1))
  <2> HIDE DEF n
  <2> QED BY <1>1, <1>2, <1>5, CompletedRootsAreRight
<1>7. Entries' = n + 1
  <2>1. DOMAIN leaf' = 0 .. (n + 1) - 1
    BY <1>1, <1>2, <1>4
  <2>2. Cardinality(0 .. (n + 1) - 1) = n + 1
    <3>1. n + 1 \in Nat
      BY <1>2
    <3> HIDE DEF n
    <3> QED BY <3>1, CountOfInterval
  <2> QED BY <2>1, <2>2 DEF Entries
<1>8. CompleteNodes(n + 1) = CompleteNodes(n) \cup new
  <2> HIDE DEF n
  <2> QED BY <1>2, OneMoreCompletes
<1>9. \A node \in new : added[node] = Hash(node[1], node[2])
  BY <1>6
<1> HIDE DEF n, new, added
<1>10. DOMAIN added = new
  BY <1>6
<1>11. DOMAIN roots' = DOMAIN roots \cup new
  BY <1>1, <1>10 DEF Upsert
<1>12. \A node \in DOMAIN roots' : roots'[node] = Hash(node[1], node[2])
  <2> TAKE node \in DOMAIN roots'
  <2>1. CASE node \in new
    BY <2>1, <1>1, <1>9, <1>10 DEF Upsert
  <2>2. CASE node \notin new
    BY <2>2, <1>1, <1>10, <1>11 DEF Upsert, TreeInv, RowsAreTheLogs
  <2> QED BY <2>1, <2>2
<1> QED BY <1>1, <1>2, <1>4, <1>7, <1>8, <1>11, <1>12 DEF n, new

LEMMA PromoteKeepsInv ==
    ASSUME TreeInv, Promote
    PROVE  TreeInv'
<1> DEFINE n == Entries
           new == {<<l, CompletedIndex(l, n + 1)>> : l \in CompletedLevels(n + 1)}
<1>1. /\ UNCHANGED <<phase, batch, fold, damaged>> /\ phase = "up"
      /\ n \in Nat /\ Entries' = n + 1
      /\ DOMAIN leaf' = 0 .. n /\ leaf'[n] = LeafHash(n)
      /\ \A i \in DOMAIN leaf : leaf'[i] = leaf[i]
      /\ DOMAIN roots' = DOMAIN roots \cup new
      /\ CompleteNodes(n + 1) = CompleteNodes(n) \cup new
      /\ \A node \in DOMAIN roots' : roots'[node] = Hash(node[1], node[2])
  BY PromotionFacts
<1>2. DOMAIN leaf = 0 .. n - 1
  BY DEF TreeInv, LogShape
<1> HIDE DEF n, new
<1>3. LogShape'
  <2>1. (n + 1) - 1 = n /\ n + 1 \in Nat
    BY <1>1
  <2> QED BY <1>1, <2>1 DEF LogShape
<1>4. \A i \in DOMAIN leaf' : i = n \/ i \in DOMAIN leaf
  BY <1>1, <1>2
<1>5. RowsAreTheLogs'
  <2>1. \A i \in DOMAIN leaf' : leaf'[i] \in {NoHash, LeafHash(i)}
    BY <1>1, <1>4 DEF TreeInv, RowsAreTheLogs
  <2>2. DOMAIN roots' \subseteq CompleteNodes(n + 1)
    BY <1>1 DEF TreeInv, RowsAreTheLogs, n
  <2> QED BY <2>1, <2>2, <1>1 DEF RowsAreTheLogs
<1>6. Missing' = {}
  <2>1. \A i \in DOMAIN leaf : leaf[i] # NoHash
    BY <1>1 DEF TreeInv, PhaseShape, Missing
  <2>2. \A i \in DOMAIN leaf' : leaf'[i] # NoHash
    BY <2>1, <1>1, <1>4 DEF LeafHash, NoHash
  <2> QED BY <2>2 DEF Missing
<1>7. PhaseShape' /\ FoldSound'
  BY <1>1, <1>6 DEF TreeInv, PhaseShape, FoldSound
<1>8. UndamagedComplete'
  <2>1. ~damaged => DOMAIN roots = CompleteNodes(n)
    BY <1>1 DEF TreeInv, UndamagedComplete, n
  <2> QED BY <2>1, <1>1 DEF UndamagedComplete
<1> QED BY <1>3, <1>5, <1>7, <1>8 DEF TreeInv

-----------------------------------------------------------------------------
(* The invariant holds in every state.                                     *)
LEMMA NextKeepsInv == TreeInv /\ [Next]_vars => TreeInv'
<1> SUFFICES ASSUME TreeInv, [Next]_vars PROVE TreeInv'
  OBVIOUS
<1>1. CASE OpenStore
  BY <1>1, OpenKeepsInv
<1>2. CASE SelectBatch
  BY <1>2, SelectKeepsInv
<1>3. CASE BackfillRow
  BY <1>3, BackfillKeepsInv
<1>4. CASE CheckCache
  BY <1>4, CheckKeepsInv
<1>5. CASE DeleteRoots
  BY <1>5, DeleteKeepsInv
<1>6. CASE InsertRoot
  BY <1>6, InsertKeepsInv
<1>7. CASE Promote
  BY <1>7, PromoteKeepsInv
<1>8. CASE LoseRow
  BY <1>8, LoseRowKeepsInv
<1>9. CASE Crash
  BY <1>9, CrashKeepsInv
<1>10. CASE UNCHANGED vars
  BY <1>10 DEF vars, TreeInv, LogShape, RowsAreTheLogs, Entries, PhaseShape, Missing,
               FoldSound, UndamagedComplete
<1> QED BY <1>1, <1>2, <1>3, <1>4, <1>5, <1>6, <1>7, <1>8, <1>9, <1>10 DEF Next, Migrate

LEMMA TreeInvAlways == Spec => []TreeInv
<1>1. Init => TreeInv
  BY InitHasInv
<1>2. TreeInv /\ [Next]_vars => TreeInv'
  BY NextKeepsInv
<1> QED BY <1>1, <1>2, PTL DEF Spec

(* No row of the tree material is ever wrong, wherever a backfill, a       *)
(* rebuild or the life of the process was cut short.                       *)
THEOREM RowsAreAlwaysTheLogs == Spec => []RowsAreTheLogs
<1>1. TreeInv => RowsAreTheLogs
  BY DEF TreeInv
<1> QED BY <1>1, TreeInvAlways, PTL

(* A store that is up has every leaf hash, and every complete subtree      *)
(* unless it lost a row since: the migration lets no other one up, and     *)
(* promotions keep it so.                                                  *)
THEOREM OpensComplete == Spec => []OpenedComplete
<1>1. TreeInv => OpenedComplete
  BY DEF TreeInv, PhaseShape, UndamagedComplete, OpenedComplete
<1> QED BY <1>1, TreeInvAlways, PTL

(* An entry becomes canonical only together with every subtree it          *)
(* completes, also over a log that lost a row.                             *)
THEOREM PromotionsAreWhole == Spec => PromotionIsWhole
<1> DEFINE Whole == Entries' > Entries =>
               CompleteNodes(Entries') \ CompleteNodes(Entries) \subseteq DOMAIN roots'
<1>1. TreeInv /\ [Next]_vars => [Whole]_vars
  <2> SUFFICES ASSUME TreeInv, Next PROVE Whole
    OBVIOUS
  <2>1. CASE Promote
    <3>1. CompleteNodes(Entries + 1) \ CompleteNodes(Entries) \subseteq DOMAIN roots' /\ Entries' = Entries + 1
      BY <2>1, PromotionFacts
    <3> QED BY <3>1
  <2>2. CASE ~Promote
    <3>1. DOMAIN leaf' = DOMAIN leaf
      BY <2>2 DEF Next, Migrate, OpenStore, SelectBatch, BackfillRow, CheckCache, DeleteRoots,
                  InsertRoot, LoseRow, Crash
    <3>2. Entries' = Entries /\ Entries \in Nat
      BY <3>1 DEF Entries, TreeInv, LogShape
    <3> QED BY <3>2
  <2> QED BY <2>1, <2>2
<1>2. PromotionIsWhole <=> [][Whole]_vars
  BY DEF PromotionIsWhole
<1> HIDE DEF Whole
<1> QED BY <1>1, <1>2, TreeInvAlways, PTL DEF Spec

-----------------------------------------------------------------------------
(* Opening a span.                                                         *)

(* f opens the span (o, s), given how it opens smaller ones.               *)
OpenAt(tree, bound, f, s, o) ==
    LET perfect == IsPerfect(o, s)
        at == NodeAt(o, s)
        k == LargestPowerOf2LessThan(s)
        left == f[k][o]
        right == f[s - k][o + k]
    IN  IF perfect /\ HasNode(tree, at[1], at[2])
        THEN [ok |-> TRUE, hash |-> TreeNode(tree, at[1], at[2]), reads |-> 1]
        ELSE IF s = 1 THEN [ok |-> FALSE, hash |-> NoHash, reads |-> 0]
        ELSE [ ok |-> /\ ~(perfect /\ MustBeStored(at[1], at[2], bound))
                      /\ left.ok /\ right.ok,
               hash |-> HashChildren(left.hash, right.hash),
               reads |-> left.reads + right.reads ]
OpenValue(p, f, s) == [o \in Nat |-> OpenAt(p.tree, p.bound, f, s, o)]
OpenOrder == INSTANCE Order_proofs WITH Value <- OpenValue

Opens(tree, bound, f) ==
    \A s \in Nat \ {0}, o \in Nat : f[s][o] = OpenAt(tree, bound, f, s, o)

LEMMA OpenIsRecursive ==
    ASSUME NEW tree, NEW offset, NEW size
    PROVE  \E f : Opens(tree, offset + size, f) /\ Open(tree, offset, size) = f[size][offset]
<1> DEFINE bound == offset + size
           p == [tree |-> tree, bound |-> bound]
           All(f) == f = [s \in Nat \ {0} |-> [o \in Nat |-> OpenAt(tree, bound, f, s, o)]]
           open == CHOOSE f : All(f)
<1>1. p.tree = tree /\ p.bound = bound
  OBVIOUS
<1>2. Open(tree, offset, size) = open[size][offset]
  BY DEF Open, OpenAt
<1> HIDE DEF p, bound
<1>3. \E f : All(f)
  <2>1. OpenOrder!LooksBelow(p, Nat \ {0})
    <3> SUFFICES ASSUME NEW s \in Nat \ {0}, NEW f, NEW g,
                        \A m \in Nat \ {0} : m < s => f[m] = g[m]
                 PROVE  OpenValue(p, f, s) = OpenValue(p, g, s)
      BY DEF OpenOrder!LooksBelow
    <3>1. s = 1 \/ LET k == LargestPowerOf2LessThan(s) IN f[k] = g[k] /\ f[s - k] = g[s - k]
      BY TheTwoParts
    <3> QED BY <3>1 DEF OpenValue, OpenAt
  <2>2. \E f : OpenOrder!IsRecursive(p, Nat \ {0}, f)
    BY <2>1, OpenOrder!RecursiveFunction
  <2> QED BY <1>1, <2>2 DEF OpenOrder!IsRecursive, OpenValue
<1>4. All(open)
  <2> HIDE DEF All
  <2> QED BY <1>3
<1>5. Opens(tree, bound, open)
  <2>1. \A f : All(f) => Opens(tree, bound, f)
    BY DEF Opens
  <2> HIDE DEF All
  <2> QED BY <1>4, <2>1
<1> QED BY <1>2, <1>5 DEF bound

(* A perfect span is that of a node.                                       *)
LEMMA PerfectIsANode ==
    ASSUME NEW o \in Nat, NEW s \in Nat \ {0}, IsPerfect(o, s)
    PROVE  \E l \in Nat, i \in Nat : s = Width[l] /\ o = i * Width[l] /\ NodeAt(o, s) = <<l, i>>
<1> DEFINE l == CHOOSE l \in 0 .. s : Width[l] = s
           i == o \div s
<1>1. l \in Nat /\ Width[l] = s
  BY DEF IsPerfect
<1>2. o = i * s /\ i \in Nat
  BY DEF IsPerfect
<1>3. NodeAt(o, s) = <<l, i>>
  BY DEF NodeAt
<1> HIDE DEF l, i
<1> QED BY <1>1, <1>2, <1>3

(* What is opened is the root of the span.                                 *)
LEMMA OpenedIsRight ==
    ASSUME NEW tree, RowsRight(tree), NEW bound, NEW f, Opens(tree, bound, f)
    PROVE  \A s \in Nat \ {0} : \A o \in Nat : f[s][o].ok => f[s][o].hash = Merkle(o, s)
<1> DEFINE Right(s, o) == f[s][o].ok => f[s][o].hash = Merkle(o, s)
           S == {s \in Nat \ {0} : \A o \in Nat : Right(s, o)}
<1>1. ASSUME NEW s \in Nat \ {0}, NEW o \in Nat, IsPerfect(o, s),
             LET at == NodeAt(o, s) IN HasNode(tree, at[1], at[2])
      PROVE  Right(s, o)
  <2>1. PICK l \in Nat, i \in Nat : s = Width[l] /\ o = i * Width[l] /\ NodeAt(o, s) = <<l, i>>
    BY <1>1, PerfectIsANode
  <2>2. HasNode(tree, l, i) /\ f[s][o].hash = TreeNode(tree, l, i)
    <3>1. HasNode(tree, l, i)
      BY <1>1, <2>1
    <3>2. f[s][o] = OpenAt(tree, bound, f, s, o)
      BY DEF Opens
    <3>3. NodeAt(o, s)[1] = l /\ NodeAt(o, s)[2] = i /\ IsPerfect(o, s)
      BY <1>1, <2>1
    <3>4. OpenAt(tree, bound, f, s, o) = [ok |-> TRUE, hash |-> TreeNode(tree, l, i), reads |-> 1]
      BY ONLY <3>1, <3>3 DEF OpenAt
    <3> QED BY <3>1, <3>2, <3>4
  <2>3. TreeNode(tree, l, i) = Merkle(i * Width[l], Width[l])
    BY <2>2, StoredNodesAreRight DEF Hash
  <2> QED BY <2>1, <2>2, <2>3
<1>2. 1 \in S
  <2> SUFFICES ASSUME NEW o \in Nat PROVE Right(1, o)
    OBVIOUS
  <2>1. CASE IsPerfect(o, 1) /\ LET at == NodeAt(o, 1) IN HasNode(tree, at[1], at[2])
    BY <1>1, <2>1
  <2>2. CASE ~ (IsPerfect(o, 1) /\ LET at == NodeAt(o, 1) IN HasNode(tree, at[1], at[2]))
    <3>1. f[1][o] = OpenAt(tree, bound, f, 1, o)
      BY DEF Opens
    <3>2. ~ f[1][o].ok
      BY <2>2, <3>1 DEF OpenAt
    <3> QED BY <3>2
  <2> QED BY <2>1, <2>2
<1>3. ASSUME NEW s \in Nat \ {0}, s # 1,
             LargestPowerOf2LessThan(s) \in S, s - LargestPowerOf2LessThan(s) \in S
      PROVE  s \in S
  <2> SUFFICES ASSUME NEW o \in Nat PROVE Right(s, o)
    OBVIOUS
  <2> DEFINE k == LargestPowerOf2LessThan(s)
             left == f[k][o]
             right == f[s - k][o + k]
  <2>1. k \in Nat \ {0} /\ s - k \in Nat \ {0} /\ s >= 2 /\ o + k \in Nat
    BY <1>3, TheTwoParts
  <2>2. (left.ok => left.hash = Merkle(o, k)) /\ (right.ok => right.hash = Merkle(o + k, s - k))
    BY <1>3, <2>1
  <2>3. Merkle(o, s) = HashChildren(Merkle(o, k), Merkle(o + k, s - k))
    BY <2>1, RootOfTwoTrees
  <2>4. CASE IsPerfect(o, s) /\ LET at == NodeAt(o, s) IN HasNode(tree, at[1], at[2])
    BY <1>1, <2>4
  <2>5. CASE ~ (IsPerfect(o, s) /\ LET at == NodeAt(o, s) IN HasNode(tree, at[1], at[2]))
    <3>1. f[s][o] = OpenAt(tree, bound, f, s, o)
      BY DEF Opens
    <3>2. f[s][o].hash = HashChildren(left.hash, right.hash) /\ (f[s][o].ok => left.ok /\ right.ok)
      BY <1>3, <2>5, <3>1 DEF OpenAt
    <3> HIDE DEF S, left, right, k
    <3> QED BY <2>2, <2>3, <3>2
  <2> QED BY <2>4, <2>5
<1>4. \A s \in Nat \ {0} : s \in S
  <2>1. S \in SUBSET (Nat \ {0})
    OBVIOUS
  <2> HIDE DEF S
  <2> QED BY <1>2, <1>3, <2>1, EverySize
<1> QED BY <1>4

LEMMA NoHashIsNoHash ==
    ASSUME NEW a, NEW b
    PROVE  LeafHash(a) # NoHash /\ HashChildren(a, b) # NoHash
<1>1. Len(<<a>>) = 1 /\ Len(<<a, b>>) = 2 /\ Len(<<>>) = 0
  OBVIOUS
<1>2. <<a>> # <<>> /\ <<a, b>> # <<>>
  BY <1>1
<1> QED BY <1>2 DEF LeafHash, HashChildren, NoHash

(* The tree has every node that is complete under n entries.               *)
Whole(tree, n) ==
    /\ \A i \in 0 .. n - 1 : i \in DOMAIN tree.leaf /\ tree.leaf[i] = LeafHash(i)
    /\ CompleteNodes(n) \subseteq DOMAIN tree.roots

LEMMA WholeHasNodes ==
    ASSUME NEW tree, NEW n \in Nat, RowsRight(tree), Whole(tree, n),
           NEW l \in Nat, NEW i \in Nat, (i + 1) * Width[l] <= n
    PROVE  HasNode(tree, l, i)
<1>1. CASE l = 0
  <2>1. i \in 0 .. n - 1
    BY <1>1, WidthIsDoubled
  <2>2. TreeNode(tree, l, i) = LeafHash(i)
    BY <1>1, <2>1 DEF Whole, TreeNode
  <2> QED BY <2>2, NoHashIsNoHash DEF HasNode
<1>2. CASE l # 0
  <2>1. <<l, i>> \in CompleteNodes(n)
    BY <1>2, CompleteNode DEF NodeIsComplete
  <2>2. TreeNode(tree, l, i) = Hash(l, i)
    BY <1>2, <2>1 DEF Whole, TreeNode, RowsRight
  <2>3. l - 1 \in Nat /\ (l - 1) + 1 = l
    BY <1>2
  <2>4. \E a, b : Hash(l, i) = HashChildren(a, b)
    <3>1. Hash((l - 1) + 1, i) = HashChildren(Hash(l - 1, 2 * i), Hash(l - 1, 2 * i + 1))
      BY <2>3, HashesOfNodes
    <3> QED BY <3>1, <2>3
  <2> QED BY <2>2, <2>4, NoHashIsNoHash DEF HasNode
<1> QED BY <1>1, <1>2

(* A whole tree opens every span of its entries.                           *)
LEMMA WholeTreesOpen ==
    ASSUME NEW tree, NEW n \in Nat, RowsRight(tree), Whole(tree, n),
           NEW bound, NEW f, Opens(tree, bound, f)
    PROVE  \A s \in Nat \ {0} : \A o \in Nat : o + s <= n => f[s][o].ok
<1> DEFINE S == {s \in Nat \ {0} : \A o \in Nat : o + s <= n => f[s][o].ok}
           Stored(s, o) == IsPerfect(o, s) /\ LET at == NodeAt(o, s) IN HasNode(tree, at[1], at[2])
<1>1. ASSUME NEW s \in Nat \ {0}, NEW o \in Nat, o + s <= n, IsPerfect(o, s)
      PROVE  Stored(s, o)
  <2>1. PICK l \in Nat, i \in Nat : s = Width[l] /\ o = i * Width[l] /\ NodeAt(o, s) = <<l, i>>
    BY <1>1, PerfectIsANode
  <2>2. (i + 1) * Width[l] <= n
    <3>1. (i + 1) * s = i * s + s
      OBVIOUS
    <3> QED BY <1>1, <2>1, <3>1
  <2>3. HasNode(tree, l, i)
    BY <2>2, WholeHasNodes
  <2> QED BY <1>1, <2>1, <2>3
<1>2. ASSUME NEW s \in Nat \ {0}, NEW o \in Nat, Stored(s, o) PROVE f[s][o].ok
  <2>1. f[s][o] = OpenAt(tree, bound, f, s, o)
    BY DEF Opens
  <2> QED BY <1>2, <2>1 DEF OpenAt
<1>3. 1 \in S
  <2>1. ASSUME NEW o \in Nat PROVE IsPerfect(o, 1)
    BY WidthIsDoubled DEF IsPerfect
  <2>2. ASSUME NEW o \in Nat, o + 1 <= n PROVE f[1][o].ok
    <3>1. Stored(1, o)
      BY <1>1, <2>1, <2>2
    <3> HIDE DEF Stored
    <3> QED BY <1>2, <3>1
  <2> HIDE DEF Stored
  <2> QED BY <2>2
<1>4. ASSUME NEW s \in Nat \ {0}, s # 1,
             LargestPowerOf2LessThan(s) \in S, s - LargestPowerOf2LessThan(s) \in S
      PROVE  s \in S
  <2> SUFFICES ASSUME NEW o \in Nat, o + s <= n PROVE f[s][o].ok
    OBVIOUS
  <2> DEFINE k == LargestPowerOf2LessThan(s)
             left == f[k][o]
             right == f[s - k][o + k]
  <2>1. k \in Nat \ {0} /\ s - k \in Nat \ {0} /\ o + k \in Nat
    BY <1>4, TheTwoParts
  <2>2. o + k <= n /\ (o + k) + (s - k) <= n
    <3> HIDE DEF k
    <3> QED BY <2>1
  <2>3. left.ok /\ right.ok
    BY <1>4, <2>1, <2>2
  <2>4. CASE IsPerfect(o, s)
    <3> HIDE DEF S, Stored
    <3> QED BY <1>1, <1>2, <2>4
  <2>5. CASE ~IsPerfect(o, s)
    <3>1. f[s][o] = OpenAt(tree, bound, f, s, o)
      BY DEF Opens
    <3> HIDE DEF S, Stored
    <3> QED BY <1>4, <2>3, <2>5, <3>1 DEF OpenAt
  <2> QED BY <2>4, <2>5
<1>5. \A s \in Nat \ {0} : s \in S
  <2>1. S \in SUBSET (Nat \ {0})
    OBVIOUS
  <2> HIDE DEF S
  <2> QED BY <1>3, <1>4, <2>1, EverySize
<1> QED BY <1>5

(* The one bits of a size.                                                 *)
Bit(s, l) == (s \div Width[l]) % 2 = 1
Bits(s) == {l \in Nat : Bit(s, l)}

LEMMA BitsCounted ==
    ASSUME NEW s \in Nat \ {0}
    PROVE  IsFiniteSet(Bits(s)) /\ CountOnes(s) = Cardinality(Bits(s))
<1>1. ASSUME NEW l \in Nat, Bit(s, l) PROVE l \in 0 .. s
  <2> DEFINE w == Width[l]
  <2>1. w \in Nat \ {0} /\ l < w
    BY WidthIsDoubled, WidthGrows
  <2>2. (s \div w) % 2 = 1
    BY <1>1 DEF Bit
  <2> HIDE DEF w
  <2>3. ~ (s < w)
    BY <2>1, <2>2
  <2> QED BY <2>1, <2>3
<1>2. Bits(s) = {l \in 0 .. s : (s \div Width[l]) % 2 = 1}
  BY <1>1 DEF Bits, Bit
<1>3. IsFiniteSet(0 .. s)
  BY FS_Interval
<1>4. IsFiniteSet(Bits(s))
  BY <1>2, <1>3, FS_Subset
<1> QED BY <1>2, <1>4 DEF CountOnes

LEMMA WidthDivides ==
    \A m, l \in Nat : m < l => \E q \in Nat : Width[l] = q * (2 * Width[m])
<1> SUFFICES ASSUME NEW m \in Nat
             PROVE  \A l \in Nat : m < l => \E q \in Nat : Width[l] = q * (2 * Width[m])
  OBVIOUS
<1> DEFINE S == {l \in Nat : m < l => \E q \in Nat : Width[l] = q * (2 * Width[m])}
<1>1. 0 \in S
  OBVIOUS
<1>2. ASSUME NEW l \in S PROVE l + 1 \in S
  <2> SUFFICES ASSUME m < l + 1 PROVE \E q \in Nat : Width[l + 1] = q * (2 * Width[m])
    OBVIOUS
  <2> DEFINE w == 2 * Width[m]
  <2>1. w \in Nat /\ Width[l + 1] = 2 * Width[l]
    BY WidthIsDoubled
  <2>2. CASE l = m
    <3>1. w = 1 * w
      BY <2>1
    <3> QED BY <2>1, <2>2, <3>1
  <2>3. CASE l # m
    <3>1. PICK q \in Nat : Width[l] = q * w
      BY <2>3
    <3> HIDE DEF w
    <3>2. Width[l + 1] = (2 * q) * w /\ 2 * q \in Nat
      BY <2>1, <3>1
    <3> QED BY <3>2 DEF w
  <2> QED BY <2>2, <2>3
<1>3. \A l \in Nat : l \in S
  <2>1. S \in SUBSET Nat
    OBVIOUS
  <2> HIDE DEF S
  <2> QED BY <1>1, <1>2, <2>1, Order!EveryNatural
<1> QED BY <1>3

(* A width has its one bit, and what is cut off a size keeps the others.   *)
LEMMA BitsOfAWidth ==
    ASSUME NEW l \in Nat
    PROVE  Bits(Width[l]) = {l}
<1>1. ASSUME NEW m \in Nat PROVE Bit(Width[l], m) <=> m = l
  <2> DEFINE v == Width[l]
             w == Width[m]
  <2>1. v \in Nat \ {0} /\ w \in Nat \ {0}
    BY WidthIsDoubled
  <2>2. CASE m < l
    <3>1. PICK q \in Nat : v = q * (2 * w)
      BY <2>2, WidthDivides
    <3> HIDE DEF v, w
    <3>2. v = (2 * q) * w
      BY <2>1, <3>1
    <3>3. v \div w = 2 * q
      BY <2>1, <3>2, ExactMultiple
    <3> QED BY <2>2, <3>3 DEF Bit, v, w
  <2>3. CASE m = l
    <3>1. v \div w = 1
      BY <2>1, <2>3
    <3> QED BY <2>3, <3>1 DEF Bit
  <2>4. CASE l < m
    <3>1. v < w
      BY <2>1, <2>4, WidthGrows
    <3> HIDE DEF v, w
    <3>2. v \div w = 0
      BY <2>1, <3>1
    <3> QED BY <2>4, <3>2 DEF Bit, v, w
  <2> QED BY <2>2, <2>3, <2>4
<1> QED BY <1>1 DEF Bits

LEMMA BitsOfACut ==
    ASSUME NEW l \in Nat, NEW s \in Nat, Width[l] < s, s < 2 * Width[l]
    PROVE  Bits(s) = Bits(s - Width[l]) \cup {l} /\ l \notin Bits(s - Width[l])
<1> DEFINE v == Width[l]
           r == s - v
<1>1. v \in Nat \ {0} /\ r \in Nat \ {0} /\ r < v /\ s = r + v
  BY WidthIsDoubled
<1> HIDE DEF r
<1>2. ASSUME NEW m \in Nat
      PROVE  Bit(s, m) <=> Bit(r, m) \/ m = l
  <2> DEFINE w == Width[m]
  <2>1. w \in Nat \ {0}
    BY WidthIsDoubled
  <2>2. CASE m < l
    <3>1. PICK q \in Nat : v = q * (2 * w)
      BY <2>2, WidthDivides
    <3> HIDE DEF v, w
    <3>2. s = r + (2 * q) * w
      BY <1>1, <2>1, <3>1
    <3>3. s \div w = r \div w + 2 * q
      BY <1>1, <2>1, <3>2
    <3>4. r \div w \in Nat
      BY <1>1, <2>1, DivideByWidth
    <3>5. (s \div w) % 2 = (r \div w) % 2
      BY <3>3, <3>4
    <3> QED BY <2>2, <3>5 DEF Bit, v, w
  <2>3. CASE m = l
    <3>1. s \div v = 1
      BY <1>1
    <3> QED BY <2>3, <3>1 DEF Bit
  <2>4. CASE l < m
    <3>1. s < w /\ r < w
      BY <1>1, <2>1, <2>4, WidthGrows
    <3> HIDE DEF v, w
    <3>2. s \div w = 0 /\ r \div w = 0
      BY <1>1, <2>1, <3>1
    <3> QED BY <2>4, <3>2 DEF Bit, v, w
  <2> QED BY <2>2, <2>3, <2>4
<1>3. ~ Bit(r, l)
  <2> HIDE DEF v
  <2>1. r \div v = 0
    BY <1>1
  <2> QED BY <2>1 DEF Bit, v
<1> QED BY <1>2, <1>3 DEF Bits, r

LEMMA OnesOfACut ==
    ASSUME NEW l \in Nat
    PROVE  /\ CountOnes(Width[l]) = 1
           /\ \A s \in Nat : Width[l] < s /\ s < 2 * Width[l] =>
                  CountOnes(s) = 1 + CountOnes(s - Width[l])
<1>1. CountOnes(Width[l]) = 1
  <2>1. Width[l] \in Nat \ {0}
    BY WidthIsDoubled
  <2>2. Cardinality({l}) = 1
    BY FS_Singleton
  <2> QED BY <2>1, <2>2, BitsCounted, BitsOfAWidth
<1>2. ASSUME NEW s \in Nat, Width[l] < s, s < 2 * Width[l]
      PROVE  CountOnes(s) = 1 + CountOnes(s - Width[l])
  <2> DEFINE r == s - Width[l]
  <2>1. r \in Nat \ {0} /\ s \in Nat \ {0}
    BY <1>2, WidthIsDoubled
  <2>2. Bits(s) = Bits(r) \cup {l} /\ l \notin Bits(r)
    BY <1>2, BitsOfACut
  <2> HIDE DEF r
  <2>3. IsFiniteSet(Bits(r)) /\ CountOnes(r) = Cardinality(Bits(r))
        /\ CountOnes(s) = Cardinality(Bits(s))
    BY <2>1, BitsCounted
  <2>4. Cardinality(Bits(r) \cup {l}) = Cardinality(Bits(r)) + 1
    BY <2>2, <2>3, FS_AddElement
  <2>5. Cardinality(Bits(r)) \in Nat
    BY <2>3, FS_CardinalityType
  <2> QED BY <2>2, <2>3, <2>4, <2>5 DEF r
<1> QED BY <1>1, <1>2

(* A span that begins where a node as large as it may begin, and the two   *)
(* parts it is cut into.                                                   *)
Aligned(o, s) == \E l \in Nat, i \in Nat : s <= Width[l] /\ o = i * Width[l]

LEMMA WidthsOfTheCut ==
    ASSUME NEW m \in Nat, NEW l \in Nat, NEW i \in Nat, m <= l
    PROVE  \E j \in Nat : i * Width[l] = j * Width[m]
<1>1. CASE m = l
  BY <1>1
<1>2. CASE m # l
  <2> DEFINE v == Width[l]
             w == Width[m]
  <2>1. PICK q \in Nat : v = q * (2 * w)
    BY <1>2, WidthDivides
  <2>2. w \in Nat
    BY WidthIsDoubled
  <2> HIDE DEF v, w
  <2>3. i * v = (2 * i * q) * w /\ 2 * i * q \in Nat
    BY <2>1, <2>2
  <2> QED BY <2>3 DEF v, w
<1> QED BY <1>1, <1>2

LEMMA PartsAreAligned ==
    ASSUME NEW s \in Nat \ {0}, s # 1, NEW o \in Nat, Aligned(o, s)
    PROVE  LET k == LargestPowerOf2LessThan(s) IN Aligned(o, k) /\ Aligned(o + k, s - k)
<1>1. PICK m \in Nat : LargestPowerOf2LessThan(s) = Width[m] /\ Width[m] < s /\ s <= Width[m + 1]
  BY TheCutIsAWidth
<1>2. PICK l \in Nat, i \in Nat : s <= Width[l] /\ o = i * Width[l]
  BY DEF Aligned
<1> DEFINE k == Width[m]
<1>3. k \in Nat \ {0} /\ Width[m + 1] = 2 * k
  BY WidthIsDoubled
<1>4. m <= l
  <2> SUFFICES ASSUME l < m PROVE FALSE
    OBVIOUS
  <2>1. 2 * Width[l] <= Width[m] /\ Width[l] \in Nat
    BY WidthGrows, WidthIsDoubled
  <2> QED BY <2>1, <1>1, <1>2, <1>3
<1>5. PICK j \in Nat : o = j * k
  <2>1. \E j \in Nat : i * Width[l] = j * Width[m]
    BY <1>4, WidthsOfTheCut
  <2> QED BY <1>2, <2>1
<1>6. o + k = (j + 1) * k /\ s - k <= k
  <2> HIDE DEF k
  <2>1. s <= 2 * k
    BY <1>1, <1>3
  <2> QED BY <1>3, <1>5, <2>1
<1>7. Aligned(o, k) /\ Aligned(o + k, s - k)
  BY <1>3, <1>5, <1>6 DEF Aligned
<1> QED BY <1>1, <1>7

LEMMA WidthsArePerfect ==
    ASSUME NEW l \in Nat, NEW o \in Nat, Aligned(o, Width[l])
    PROVE  IsPerfect(o, Width[l])
<1>1. PICK m \in Nat, i \in Nat : Width[l] <= Width[m] /\ o = i * Width[m]
  BY DEF Aligned
<1>2. l <= m
  <2> SUFFICES ASSUME m < l PROVE FALSE
    OBVIOUS
  <2>1. 2 * Width[m] <= Width[l] /\ Width[m] \in Nat \ {0} /\ Width[l] \in Nat
    BY WidthGrows, WidthIsDoubled
  <2>2. Width[l] <= Width[m]
    BY <1>1
  <2> QED BY ONLY <2>1, <2>2
<1>3. PICK j \in Nat : o = j * Width[l]
  <2>1. \E j \in Nat : i * Width[m] = j * Width[l]
    BY <1>2, WidthsOfTheCut
  <2> QED BY <1>1, <2>1
<1>4. Width[l] \in Nat \ {0} /\ l \in 0 .. Width[l]
  BY WidthIsDoubled, WidthGrows
<1>5. o % Width[l] = 0
  BY <1>3, <1>4, ExactMultiple
<1> QED BY <1>4, <1>5 DEF IsPerfect

(* What is opened costs a node for each one bit of its size.               *)
LEMMA OpenedCostsItsBits ==
    ASSUME NEW tree, NEW bound \in Nat, NEW f, Opens(tree, bound, f)
    PROVE  \A s \in Nat \ {0} : \A o \in Nat :
               Aligned(o, s) /\ o + s <= bound /\ f[s][o].ok => f[s][o].reads = CountOnes(s)
<1> DEFINE Cost(s, o) ==
               Aligned(o, s) /\ o + s <= bound /\ f[s][o].ok => f[s][o].reads = CountOnes(s)
           S == {s \in Nat \ {0} : \A o \in Nat : Cost(s, o)}
           Stored(s, o) == LET at == NodeAt(o, s) IN HasNode(tree, at[1], at[2])
<1>1. ASSUME NEW s \in Nat \ {0}, NEW o \in Nat, IsPerfect(o, s), Stored(s, o)
      PROVE  Cost(s, o)
  <2>1. PICK l \in Nat : s = Width[l]
    BY <1>1, PerfectIsANode
  <2>2. f[s][o] = OpenAt(tree, bound, f, s, o)
    BY DEF Opens
  <2>3. f[s][o].reads = 1
    BY <1>1, <2>2 DEF OpenAt
  <2> QED BY <2>1, <2>3, OnesOfACut
<1>2. ASSUME NEW s \in Nat \ {0}, NEW o \in Nat, IsPerfect(o, s), ~Stored(s, o),
             o + s <= bound
      PROVE  ~f[s][o].ok
  <2>1. PICK l \in Nat, i \in Nat : s = Width[l] /\ o = i * Width[l] /\ NodeAt(o, s) = <<l, i>>
    BY <1>2, PerfectIsANode
  <2>2. f[s][o] = OpenAt(tree, bound, f, s, o)
    BY DEF Opens
  <2>3. MustBeStored(l, i, bound)
    <3>1. (i + 1) * s = i * s + s
      OBVIOUS
    <3> QED BY <1>2, <2>1, <3>1 DEF MustBeStored, NodeIsComplete
  <2>4. LET at == NodeAt(o, s) IN MustBeStored(at[1], at[2], bound)
    BY <2>1, <2>3
  <2> QED BY ONLY <1>2, <2>2, <2>4 DEF OpenAt
<1>3. 1 \in S
  <2>1. ASSUME NEW o \in Nat PROVE Cost(1, o)
    <3>1. IsPerfect(o, 1)
      BY WidthIsDoubled DEF IsPerfect
    <3>2. CASE Stored(1, o)
      <4> HIDE DEF Stored, Cost
      <4> QED BY <1>1, <3>1, <3>2
    <3>3. CASE ~Stored(1, o)
      <4> HIDE DEF Stored
      <4> QED BY <1>2, <3>1, <3>3
    <3> QED BY <3>2, <3>3
  <2> HIDE DEF Cost
  <2> QED BY <2>1
<1>4. ASSUME NEW s \in Nat \ {0}, s # 1,
             LargestPowerOf2LessThan(s) \in S, s - LargestPowerOf2LessThan(s) \in S
      PROVE  s \in S
  <2> SUFFICES ASSUME NEW o \in Nat, Aligned(o, s), o + s <= bound, f[s][o].ok
               PROVE  f[s][o].reads = CountOnes(s)
    OBVIOUS
  <2>1. PICK l \in Nat : LargestPowerOf2LessThan(s) = Width[l] /\ Width[l] < s /\ s <= Width[l + 1]
    BY <1>4, TheCutIsAWidth
  <2> DEFINE k == Width[l]
             left == f[k][o]
             right == f[s - k][o + k]
  <2>2. /\ k \in Nat \ {0} /\ s - k \in Nat \ {0} /\ o + k \in Nat
        /\ o + k <= bound /\ (o + k) + (s - k) <= bound
    BY <2>1, WidthIsDoubled
  <2>3. Aligned(o, k) /\ Aligned(o + k, s - k)
    BY <1>4, <2>1, PartsAreAligned
  <2>4. CASE IsPerfect(o, s)
    <3>1. Stored(s, o)
      <4> HIDE DEF Stored
      <4> QED BY <1>2, <2>4
    <3>2. Cost(s, o)
      <4> HIDE DEF Stored, Cost
      <4> QED BY <1>1, <2>4, <3>1
    <3> QED BY <3>2
  <2>5. CASE ~IsPerfect(o, s)
    <3>1. s < 2 * k
      <4>1. s # Width[l + 1]
        BY <2>5, WidthsArePerfect
      <4>2. Width[l + 1] = 2 * k
        BY WidthIsDoubled
      <4>3. s <= 2 * k /\ s # 2 * k /\ k \in Nat
        BY <2>1, <2>2, <4>1, <4>2
      <4> HIDE DEF k
      <4> QED BY ONLY <4>3, s \in Nat \ {0}
    <3>2. f[s][o] = OpenAt(tree, bound, f, s, o)
      BY DEF Opens
    <3>3. left.ok /\ right.ok /\ f[s][o].reads = left.reads + right.reads
      <4> HIDE DEF S, Stored
      <4> QED BY <1>4, <2>1, <2>5, <3>2 DEF OpenAt
    <3>4. left.reads = CountOnes(k) /\ right.reads = CountOnes(s - k)
      BY <1>4, <2>1, <2>2, <2>3, <3>3
    <3>5. CountOnes(k) = 1 /\ CountOnes(s) = 1 + CountOnes(s - k)
      BY <2>1, <3>1, OnesOfACut
    <3> QED BY <3>3, <3>4, <3>5
  <2> QED BY <2>4, <2>5
<1>5. \A s \in Nat \ {0} : s \in S
  <2>1. S \in SUBSET (Nat \ {0})
    OBVIOUS
  <2> HIDE DEF S
  <2> QED BY <1>3, <1>4, <2>1, EverySize
<1> QED BY <1>5

LEMMA OpenIsRight ==
    ASSUME NEW tree, RowsRight(tree), NEW o \in Nat, NEW s \in Nat \ {0}
    PROVE  LET opened == Open(tree, o, s)
           IN  /\ opened.ok => opened.hash = Merkle(o, s)
               /\ opened.ok /\ Aligned(o, s) => opened.reads = CountOnes(s)
               /\ \A n \in Nat : Whole(tree, n) /\ o + s <= n => opened.ok
<1> DEFINE bound == o + s
<1>1. PICK f : Opens(tree, bound, f) /\ Open(tree, o, s) = f[s][o]
  BY OpenIsRecursive
<1>2. bound \in Nat /\ o + s <= bound
  OBVIOUS
<1> HIDE DEF bound
<1>3. f[s][o].ok => f[s][o].hash = Merkle(o, s)
  BY <1>1, OpenedIsRight
<1>4. f[s][o].ok /\ Aligned(o, s) => f[s][o].reads = CountOnes(s)
  <2>1. \A size \in Nat \ {0} : \A offset \in Nat :
            Aligned(offset, size) /\ offset + size <= bound /\ f[size][offset].ok
                => f[size][offset].reads = CountOnes(size)
    BY <1>1, <1>2, OpenedCostsItsBits
  <2> QED BY <1>2, <2>1
<1>5. ASSUME NEW n \in Nat, Whole(tree, n), o + s <= n PROVE f[s][o].ok
  BY <1>1, <1>5, WholeTreesOpen
<1> QED BY <1>1, <1>3, <1>4, <1>5

-----------------------------------------------------------------------------
(* Lists of spans.                                                         *)

Span == Nat \X (Nat \ {0})
SpansBelow(spans, n) ==
    spans \in Seq(Span) /\ \A j \in 1 .. Len(spans) : spans[j][1] + spans[j][2] <= n
(* From the place after used on, nodes has the roots of the spans.         *)
Carries(nodes, used, spans) ==
    \A j \in 1 .. Len(spans) : nodes[used + j] = Merkle(spans[j][1], spans[j][2])

(* A list of spans, and one more after it.                                *)
OneMore(more, spans, o, s, n) ==
    /\ SpansBelow(more, n) /\ Len(more) = Len(spans) + 1 /\ Len(spans) \in Nat
    /\ \A nodes : Carries(nodes, 0, more) =>
           Carries(nodes, 0, spans) /\ nodes[Len(spans) + 1] = Merkle(o, s)

LEMMA OneMoreSpan ==
    ASSUME NEW m \in Nat, NEW n \in Nat, m <= n, NEW spans, SpansBelow(spans, m),
           NEW o \in Nat, NEW s \in Nat \ {0}, o + s <= n,
           NEW more, more = Append(spans, <<o, s>>)
    PROVE  OneMore(more, spans, o, s, n)
<1> DEFINE len == Len(spans)
<1>1. spans \in Seq(Span) /\ len \in Nat /\ <<o, s>> \in Span
  BY DEF SpansBelow, Span
<1>2. /\ more \in Seq(Span) /\ Len(more) = len + 1 /\ more[len + 1] = <<o, s>>
      /\ \A j \in 1 .. len : more[j] = spans[j]
  BY <1>1
<1> HIDE DEF len
<1>3. ASSUME NEW j \in 1 .. len + 1 PROVE more[j][1] + more[j][2] <= n
  <2>1. CASE j = len + 1
    BY <1>2, <2>1
  <2>2. CASE j # len + 1
    <3>1. j \in 1 .. len
      BY <1>1, <2>2
    <3>2. spans[j][1] + spans[j][2] <= m /\ spans[j] \in Span
      BY <1>1, <3>1 DEF SpansBelow, len
    <3>3. spans[j][1] \in Nat /\ spans[j][2] \in Nat
      BY <3>2 DEF Span
    <3> QED BY <1>2, <3>1, <3>2, <3>3
  <2> QED BY <2>1, <2>2
<1>4. SpansBelow(more, n)
  BY <1>1, <1>2, <1>3 DEF SpansBelow
<1>5. ASSUME NEW nodes, Carries(nodes, 0, more)
      PROVE  Carries(nodes, 0, spans) /\ nodes[len + 1] = Merkle(o, s)
  <2>1. \A j \in 1 .. len + 1 : nodes[0 + j] = Merkle(more[j][1], more[j][2])
    BY <1>2, <1>5 DEF Carries
  <2>2. nodes[len + 1] = Merkle(o, s)
    <3>1. len + 1 \in 1 .. len + 1 /\ 0 + (len + 1) = len + 1
      BY <1>1
    <3>2. nodes[len + 1] = Merkle(more[len + 1][1], more[len + 1][2])
      BY <2>1, <3>1
    <3> QED BY <1>2, <3>2
  <2>3. \A j \in 1 .. len : j \in 1 .. len + 1
    BY <1>1
  <2>4. \A j \in 1 .. len : nodes[0 + j] = Merkle(spans[j][1], spans[j][2])
    BY <1>2, <2>1, <2>3
  <2> QED BY <2>2, <2>4 DEF Carries, len
<1> QED BY <1>1, <1>2, <1>4, <1>5 DEF OneMore, len

LEMMA FollowedByAPart ==
    ASSUME NEW o \in Nat, NEW k \in Nat \ {0}, NEW s \in Nat, k < s, NEW part, NEW more
    PROVE  /\ SpansBelow(part, o + k) /\ more = Append(part, <<o + k, s - k>>)
                  => OneMore(more, part, o + k, s - k, o + s)
           /\ SpansBelow(part, (o + k) + (s - k)) /\ more = Append(part, <<o, k>>)
                  => OneMore(more, part, o, k, o + s)
<1>1. /\ o + k \in Nat /\ o + s \in Nat /\ s - k \in Nat \ {0} /\ (o + k) + (s - k) = o + s
      /\ o + k <= o + s
  OBVIOUS
<1>2. ASSUME SpansBelow(part, o + k), more = Append(part, <<o + k, s - k>>)
      PROVE  OneMore(more, part, o + k, s - k, o + s)
  <2> DEFINE n == o + s
             at == o + k
             width == s - k
  <2>1. n \in Nat /\ at \in Nat /\ at <= n /\ width \in Nat \ {0} /\ at + width <= n
    BY <1>1
  <2>2. SpansBelow(part, at) /\ more = Append(part, <<at, width>>)
    BY <1>2
  <2> HIDE DEF n, at, width
  <2>3. OneMore(more, part, at, width, n)
    BY <2>1, <2>2, OneMoreSpan
  <2> QED BY <2>3 DEF n, at, width
<1>3. ASSUME SpansBelow(part, (o + k) + (s - k)), more = Append(part, <<o, k>>)
      PROVE  OneMore(more, part, o, k, o + s)
  <2> DEFINE n == o + s
  <2>1. n \in Nat /\ n <= n /\ o + k <= n
    BY <1>1
  <2>2. SpansBelow(part, n) /\ more = Append(part, <<o, k>>)
    BY <1>1, <1>3
  <2> HIDE DEF n
  <2>3. OneMore(more, part, o, k, n)
    BY <2>1, <2>2, OneMoreSpan
  <2> QED BY <2>3 DEF n
<1> QED BY <1>2, <1>3

(* What opening a list of spans gives.                                     *)
LEMMA OpenedSpansCarry ==
    ASSUME NEW tree, RowsRight(tree), NEW n \in Nat, NEW spans, SpansBelow(spans, n)
    PROVE  LET opened == OpenAll(tree, spans)
               nodes == Hashes(opened)
           IN  /\ DOMAIN opened = 1 .. Len(spans)
               /\ nodes \in [1 .. Len(spans) -> {nodes[j] : j \in 1 .. Len(spans)}]
               /\ Len(nodes) = Len(spans) /\ Len(spans) \in Nat
               /\ AllOpened(opened) => Carries(nodes, 0, spans)
               /\ Whole(tree, n) => AllOpened(opened)
<1> DEFINE opened == OpenAll(tree, spans)
           nodes == Hashes(opened)
           len == Len(spans)
<1>1. len \in Nat /\ DOMAIN spans = 1 .. len /\ spans \in Seq(Span)
  BY DEF SpansBelow
<1>2. \A j \in 1 .. len :
          /\ spans[j] \in Span /\ spans[j][1] \in Nat /\ spans[j][2] \in Nat \ {0}
          /\ spans[j][1] + spans[j][2] <= n
  BY <1>1 DEF Span, SpansBelow
<1>3. opened = [j \in 1 .. len |-> Open(tree, spans[j][1], spans[j][2])]
  BY <1>1 DEF OpenAll
<1>4. nodes = [j \in 1 .. len |-> opened[j].hash]
  BY <1>3 DEF Hashes
<1>5. Len(nodes) = len
  BY <1>1, <1>4
<1> HIDE DEF opened, nodes, len
<1>6. ASSUME AllOpened(opened) PROVE Carries(nodes, 0, spans)
  <2> SUFFICES ASSUME NEW j \in 1 .. len
               PROVE  nodes[0 + j] = Merkle(spans[j][1], spans[j][2])
    BY DEF Carries, len
  <2>1. opened[j].ok /\ opened[j] = Open(tree, spans[j][1], spans[j][2])
    BY <1>3, <1>6 DEF AllOpened
  <2>2. opened[j].hash = Merkle(spans[j][1], spans[j][2])
    BY <1>2, <2>1, OpenIsRight
  <2> QED BY <1>1, <1>4, <2>2
<1>7. ASSUME Whole(tree, n) PROVE AllOpened(opened)
  <2> SUFFICES ASSUME NEW j \in 1 .. len PROVE opened[j].ok
    BY <1>3 DEF AllOpened
  <2>1. Open(tree, spans[j][1], spans[j][2]).ok
    BY <1>2, <1>7, OpenIsRight
  <2> QED BY <1>3, <2>1
<1>8. DOMAIN opened = 1 .. len /\ nodes \in [1 .. len -> {nodes[j] : j \in 1 .. len}]
  BY <1>3, <1>4
<1> QED BY <1>1, <1>5, <1>6, <1>7, <1>8 DEF opened, nodes, len

-----------------------------------------------------------------------------
(* Inclusion paths.                                                        *)

PathAt(i, f, s, o) ==
    LET k == LargestPowerOf2LessThan(s)
    IN  IF s = 1 THEN <<>>
        ELSE IF i < o + k THEN Append(f[k][o], <<o + k, s - k>>)
        ELSE Append(f[s - k][o + k], <<o, k>>)
PathValue(i, f, s) == [o \in Nat |-> PathAt(i, f, s, o)]
PathOrder == INSTANCE Order_proofs WITH Value <- PathValue

Paths(i, f) == \A s \in Nat \ {0}, o \in Nat : f[s][o] = PathAt(i, f, s, o)

LEMMA PathIsRecursive ==
    ASSUME NEW i, NEW n
    PROVE  \E f : Paths(i, f) /\ PathSpans(i, n) = f[n][0]
<1> DEFINE All(f) == f = [s \in Nat \ {0} |-> PathValue(i, f, s)]
           path == CHOOSE f : All(f)
<1>1. PathSpans(i, n) = path[n][0]
  BY DEF PathSpans, PathValue, PathAt
<1>2. \E f : All(f)
  <2>1. PathOrder!LooksBelow(i, Nat \ {0})
    <3> SUFFICES ASSUME NEW s \in Nat \ {0}, NEW f, NEW g,
                        \A m \in Nat \ {0} : m < s => f[m] = g[m]
                 PROVE  PathValue(i, f, s) = PathValue(i, g, s)
      BY DEF PathOrder!LooksBelow
    <3>1. s = 1 \/ LET k == LargestPowerOf2LessThan(s) IN f[k] = g[k] /\ f[s - k] = g[s - k]
      BY TheTwoParts
    <3> QED BY <3>1 DEF PathValue, PathAt
  <2> QED BY <2>1, PathOrder!RecursiveFunction DEF PathOrder!IsRecursive
<1>3. All(path)
  <2> HIDE DEF All
  <2> QED BY <1>2
<1>4. \A f : All(f) => Paths(i, f)
  BY DEF Paths, PathValue
<1> HIDE DEF All
<1> QED BY <1>1, <1>3, <1>4

UpAt(i, nodes, f, s, o, used) ==
    LET k == LargestPowerOf2LessThan(s)
    IN  IF s = 1 THEN LeafHash(i)
        ELSE IF i < o + k THEN HashChildren(f[k][o][used - 1], nodes[used])
        ELSE HashChildren(nodes[used], f[s - k][o + k][used - 1])
UpValue(p, f, s) == [o \in Nat |-> [used \in Nat |-> UpAt(p.i, p.nodes, f, s, o, used)]]
UpOrder == INSTANCE Order_proofs WITH Value <- UpValue

Ups(i, nodes, f) ==
    \A s \in Nat \ {0}, o \in Nat, used \in Nat :
        f[s][o][used] = UpAt(i, nodes, f, s, o, used)

LEMMA UpIsRecursive ==
    ASSUME NEW i, NEW n, NEW nodes
    PROVE  \E f : Ups(i, nodes, f) /\ RootOfPath(i, n, nodes) = f[n][0][Len(nodes)]
<1> DEFINE p == [i |-> i, nodes |-> nodes]
           All(f) == f = [s \in Nat \ {0} |->
                             [o \in Nat |-> [used \in Nat |-> UpAt(i, nodes, f, s, o, used)]]]
           up == CHOOSE f : All(f)
<1>1. p.i = i /\ p.nodes = nodes
  OBVIOUS
<1> HIDE DEF p
<1>2. RootOfPath(i, n, nodes) = up[n][0][Len(nodes)]
  BY DEF RootOfPath, UpAt
<1>3. \E f : All(f)
  <2>1. UpOrder!LooksBelow(p, Nat \ {0})
    <3> SUFFICES ASSUME NEW s \in Nat \ {0}, NEW f, NEW g,
                        \A m \in Nat \ {0} : m < s => f[m] = g[m]
                 PROVE  UpValue(p, f, s) = UpValue(p, g, s)
      BY DEF UpOrder!LooksBelow
    <3>1. s = 1 \/ LET k == LargestPowerOf2LessThan(s) IN f[k] = g[k] /\ f[s - k] = g[s - k]
      BY TheTwoParts
    <3> QED BY <3>1 DEF UpValue, UpAt
  <2>2. \E f : UpOrder!IsRecursive(p, Nat \ {0}, f)
    BY <2>1, UpOrder!RecursiveFunction
  <2> QED BY <1>1, <2>2 DEF UpOrder!IsRecursive, UpValue
<1>4. All(up)
  <2> HIDE DEF All
  <2> QED BY <1>3
<1>5. ASSUME NEW f, All(f) PROVE Ups(i, nodes, f)
  <2> SUFFICES ASSUME NEW s \in Nat \ {0}, NEW o \in Nat, NEW used \in Nat
               PROVE  f[s][o][used] = UpAt(i, nodes, f, s, o, used)
    BY DEF Ups
  <2>1. f[s] = [a \in Nat |-> [b \in Nat |-> UpAt(i, nodes, f, s, a, b)]]
    BY <1>5
  <2> QED BY <2>1
<1> HIDE DEF All
<1> QED BY <1>2, <1>4, <1>5

(* A path of the right nodes leads from its leaf to the root.              *)
PathLeads(nodes, spans, up, o, s) ==
    /\ SpansBelow(spans, o + s)
    /\ Carries(nodes, 0, spans) => up[Len(spans)] = Merkle(o, s)

LEMMA PathsLeadUp ==
    ASSUME NEW i \in Nat, NEW nodes, NEW f, Paths(i, f), NEW g, Ups(i, nodes, g)
    PROVE  \A s \in Nat \ {0} : \A o \in Nat :
               o <= i /\ i < o + s => PathLeads(nodes, f[s][o], g[s][o], o, s)
<1> DEFINE Leads(s, o) ==
               /\ SpansBelow(f[s][o], o + s)
               /\ Carries(nodes, 0, f[s][o]) => g[s][o][Len(f[s][o])] = Merkle(o, s)
           S == {s \in Nat \ {0} : \A o \in Nat : o <= i /\ i < o + s => Leads(s, o)}
<1>1. 1 \in S
  <2> SUFFICES ASSUME NEW o \in Nat, o <= i, i < o + 1 PROVE Leads(1, o)
    OBVIOUS
  <2>1. f[1][o] = <<>>
    <3>1. f[1][o] = PathAt(i, f, 1, o)
      BY DEF Paths
    <3>2. PathAt(i, f, 1, o) = <<>>
      BY DEF PathAt
    <3> QED BY <3>1, <3>2
  <2>2. g[1][o][0] = LeafHash(i)
    BY DEF Ups, UpAt
  <2>3. <<>> \in Seq(Span) /\ Len(<<>>) = 0 /\ o = i
    OBVIOUS
  <2>4. Merkle(o, 1) = LeafHash(o)
    BY RootOfALeaf
  <2> QED BY <2>1, <2>2, <2>3, <2>4 DEF SpansBelow
<1>2. ASSUME NEW s \in Nat \ {0}, s # 1,
             LargestPowerOf2LessThan(s) \in S, s - LargestPowerOf2LessThan(s) \in S
      PROVE  s \in S
  <2> SUFFICES ASSUME NEW o \in Nat, o <= i, i < o + s PROVE Leads(s, o)
    OBVIOUS
  <2> DEFINE k == LargestPowerOf2LessThan(s)
             up(used) == g[s][o][used]
  <2>1. k \in Nat \ {0} /\ s - k \in Nat \ {0} /\ k < s /\ s >= 2 /\ o + k \in Nat
    BY <1>2, TheTwoParts
  <2>2. Merkle(o, s) = HashChildren(Merkle(o, k), Merkle(o + k, s - k))
    BY <2>1, RootOfTwoTrees
  <2>3. f[s][o] = PathAt(i, f, s, o)
    BY DEF Paths
  <2>4. ASSUME NEW used \in Nat PROVE g[s][o][used] = UpAt(i, nodes, g, s, o, used)
    BY DEF Ups
  <2>5. CASE i < o + k
    <3> DEFINE part == f[k][o]
               span == <<o + k, s - k>>
    <3>1. Leads(k, o)
      BY <1>2, <2>1, <2>5
    <3>2. f[s][o] = Append(part, span)
      BY <1>2, <2>3, <2>5 DEF PathAt
    <3> HIDE DEF S, k, part
    <3>4. /\ SpansBelow(f[s][o], o + s)
          /\ Len(f[s][o]) = Len(part) + 1 /\ Len(part) \in Nat
          /\ Carries(nodes, 0, f[s][o]) =>
                Carries(nodes, 0, part) /\ nodes[Len(part) + 1] = Merkle(o + k, s - k)
      <4>1. SpansBelow(part, o + k) /\ f[s][o] = Append(part, <<o + k, s - k>>)
        BY <3>1, <3>2 DEF part
      <4>2. OneMore(f[s][o], part, o + k, s - k, o + s)
        BY <2>1, <4>1, FollowedByAPart
      <4> QED BY <4>2 DEF OneMore
    <3>5. g[s][o][Len(part) + 1] = HashChildren(g[k][o][Len(part)], nodes[Len(part) + 1])
      <4>1. Len(part) + 1 \in Nat /\ (Len(part) + 1) - 1 = Len(part)
        BY <3>4
      <4> QED BY <1>2, <2>4, <2>5, <4>1 DEF UpAt, k
    <3> QED BY <2>2, <3>1, <3>4, <3>5 DEF part
  <2>6. CASE ~ (i < o + k)
    <3> DEFINE part == f[s - k][o + k]
               span == <<o, k>>
    <3>1. Leads(s - k, o + k)
      <4>1. o + k <= i /\ i < (o + k) + (s - k)
        BY <2>1, <2>6
      <4> QED BY <1>2, <2>1, <4>1
    <3>2. f[s][o] = Append(part, span)
      BY <1>2, <2>3, <2>6 DEF PathAt
    <3> HIDE DEF S, k, part
    <3>4. /\ SpansBelow(f[s][o], o + s)
          /\ Len(f[s][o]) = Len(part) + 1 /\ Len(part) \in Nat
          /\ Carries(nodes, 0, f[s][o]) =>
                Carries(nodes, 0, part) /\ nodes[Len(part) + 1] = Merkle(o, k)
      <4>1. SpansBelow(part, (o + k) + (s - k)) /\ f[s][o] = Append(part, <<o, k>>)
        BY <3>1, <3>2 DEF part
      <4>2. OneMore(f[s][o], part, o, k, o + s)
        BY <2>1, <4>1, FollowedByAPart
      <4> QED BY <4>2 DEF OneMore
    <3>5. g[s][o][Len(part) + 1] = HashChildren(nodes[Len(part) + 1], g[s - k][o + k][Len(part)])
      <4>1. Len(part) + 1 \in Nat /\ (Len(part) + 1) - 1 = Len(part)
        BY <3>4
      <4> QED BY <1>2, <2>4, <2>6, <4>1 DEF UpAt, k
    <3> QED BY <2>2, <3>1, <3>4, <3>5 DEF part
  <2> QED BY <2>5, <2>6
<1>3. \A s \in Nat \ {0} : s \in S
  <2>1. S \in SUBSET (Nat \ {0})
    OBVIOUS
  <2> HIDE DEF S
  <2> QED BY <1>1, <1>2, <2>1, EverySize
<1> QED BY <1>3 DEF PathLeads

-----------------------------------------------------------------------------
(* Consistency paths.                                                      *)

SubAt(f, s, o, m) ==
    LET k == LargestPowerOf2LessThan(s)
    IN  IF m = s THEN IF o = 0 THEN <<>> ELSE <<<<o, s>>>>
        ELSE IF m <= k THEN Append(f[k][o][m], <<o + k, s - k>>)
        ELSE Append(f[s - k][o + k][m - k], <<o, k>>)
SubValue(p, f, s) == [o \in Nat |-> [m \in 1 .. s |-> SubAt(f, s, o, m)]]
SubOrder == INSTANCE Order_proofs WITH Value <- SubValue

Subs(f) == \A s \in Nat \ {0}, o \in Nat : \A m \in 1 .. s : f[s][o][m] = SubAt(f, s, o, m)

LEMMA OneIsWhole ==
    ASSUME NEW s \in Nat \ {0}, NEW m \in 1 .. s, s = 1
    PROVE  m = s
OBVIOUS

LEMMA SubIsRecursive ==
    ASSUME NEW from, NEW n
    PROVE  \E f : Subs(f) /\ SubproofSpans(from, n) = f[n][0][from]
<1> DEFINE All(f) == f = [s \in Nat \ {0} |-> [o \in Nat |-> [m \in 1 .. s |-> SubAt(f, s, o, m)]]]
           sub == CHOOSE f : All(f)
<1>1. SubproofSpans(from, n) = sub[n][0][from]
  BY DEF SubproofSpans, SubAt
<1>2. \E f : All(f)
  <2>1. SubOrder!LooksBelow(0, Nat \ {0})
    <3> SUFFICES ASSUME NEW s \in Nat \ {0}, NEW f, NEW g,
                        \A m \in Nat \ {0} : m < s => f[m] = g[m]
                 PROVE  SubValue(0, f, s) = SubValue(0, g, s)
      BY DEF SubOrder!LooksBelow
    <3>1. s = 1 \/ LET k == LargestPowerOf2LessThan(s) IN f[k] = g[k] /\ f[s - k] = g[s - k]
      BY TheTwoParts
    <3>2. ASSUME NEW o \in Nat, NEW m \in 1 .. s PROVE SubAt(f, s, o, m) = SubAt(g, s, o, m)
      BY <3>1, OneIsWhole DEF SubAt
    <3> QED BY <3>2 DEF SubValue
  <2>2. \E f : SubOrder!IsRecursive(0, Nat \ {0}, f)
    BY <2>1, SubOrder!RecursiveFunction
  <2> QED BY <2>2 DEF SubOrder!IsRecursive, SubValue
<1>3. All(sub)
  <2> HIDE DEF All
  <2> QED BY <1>2
<1>4. ASSUME NEW f, All(f) PROVE Subs(f)
  <2> SUFFICES ASSUME NEW s \in Nat \ {0}, NEW o \in Nat, NEW m \in 1 .. s
               PROVE  f[s][o][m] = SubAt(f, s, o, m)
    BY DEF Subs
  <2>1. f[s] = [a \in Nat |-> [b \in 1 .. s |-> SubAt(f, s, a, b)]]
    BY <1>4
  <2> QED BY <2>1
<1> HIDE DEF All
<1> QED BY <1>1, <1>3, <1>4

GrowAt(p, f, s, o, m, used) ==
    LET k == LargestPowerOf2LessThan(s)
        left == f[k][o][m][used - 1]
        right == f[s - k][o + k][m - k][used - 1]
    IN  IF m = s THEN IF o = 0 THEN <<p.earlier, p.earlier>> ELSE <<p.nodes[1], p.nodes[1]>>
        ELSE IF m <= k THEN <<left[1], HashChildren(left[2], p.nodes[used])>>
        ELSE <<HashChildren(p.nodes[used], right[1]), HashChildren(p.nodes[used], right[2])>>
GrowValue(p, f, s) ==
    [o \in Nat |-> [m \in 1 .. s |-> [used \in Nat |-> GrowAt(p, f, s, o, m, used)]]]
GrowOrder == INSTANCE Order_proofs WITH Value <- GrowValue

Grows(p, f) ==
    \A s \in Nat \ {0}, o \in Nat : \A m \in 1 .. s : \A used \in Nat :
        f[s][o][m][used] = GrowAt(p, f, s, o, m, used)

LEMMA GrowIsRecursive ==
    ASSUME NEW from, NEW n, NEW p
    PROVE  \E f : Grows(p, f)
                  /\ RootsOfSubproof(from, n, p.nodes, p.earlier) = f[n][0][from][Len(p.nodes)]
<1> DEFINE All(f) == f = [s \in Nat \ {0} |-> [o \in Nat |-> [m \in 1 .. s |->
                             [used \in Nat |-> GrowAt(p, f, s, o, m, used)]]]]
           up == CHOOSE f : All(f)
<1>2. RootsOfSubproof(from, n, p.nodes, p.earlier) = up[n][0][from][Len(p.nodes)]
  BY DEF RootsOfSubproof, GrowAt
<1>3. \E f : All(f)
  <2>1. GrowOrder!LooksBelow(p, Nat \ {0})
    <3> SUFFICES ASSUME NEW s \in Nat \ {0}, NEW f, NEW g,
                        \A m \in Nat \ {0} : m < s => f[m] = g[m]
                 PROVE  GrowValue(p, f, s) = GrowValue(p, g, s)
      BY DEF GrowOrder!LooksBelow
    <3>1. s = 1 \/ LET k == LargestPowerOf2LessThan(s) IN f[k] = g[k] /\ f[s - k] = g[s - k]
      BY TheTwoParts
    <3>2. ASSUME NEW o \in Nat, NEW m \in 1 .. s, NEW used \in Nat
          PROVE  GrowAt(p, f, s, o, m, used) = GrowAt(p, g, s, o, m, used)
      BY <3>1, OneIsWhole DEF GrowAt
    <3> QED BY <3>2 DEF GrowValue
  <2> QED BY <2>1, GrowOrder!RecursiveFunction DEF GrowOrder!IsRecursive, GrowValue
<1>4. All(up)
  <2> HIDE DEF All
  <2> QED BY <1>3
<1>5. ASSUME NEW f, All(f) PROVE Grows(p, f)
  <2> SUFFICES ASSUME NEW s \in Nat \ {0}, NEW o \in Nat, NEW m \in 1 .. s, NEW used \in Nat
               PROVE  f[s][o][m][used] = GrowAt(p, f, s, o, m, used)
    BY DEF Grows
  <2>1. f[s] = [a \in Nat |-> [b \in 1 .. s |-> [c \in Nat |-> GrowAt(p, f, s, a, b, c)]]]
    BY <1>5
  <2>2. f[s][o] = [b \in 1 .. s |-> [c \in Nat |-> GrowAt(p, f, s, o, b, c)]]
    BY <2>1
  <2> QED BY <2>2
<1> HIDE DEF All
<1> QED BY <1>2, <1>4, <1>5

(* A path of the right nodes leads from the earlier root to the later one. *)
SubproofLeads(nodes, spans, up, o, m, s) ==
    /\ SpansBelow(spans, o + s)
    /\ Carries(nodes, 0, spans) => up[Len(spans)] = <<Merkle(o, m), Merkle(o, s)>>

LEMMA SubproofsLeadUp ==
    ASSUME NEW from \in Nat \ {0}, NEW p, p.earlier = Merkle(0, from),
           NEW f, Subs(f), NEW g, Grows(p, g)
    PROVE  \A s \in Nat \ {0} : \A o \in Nat : \A m \in 1 .. s :
               (o = 0 => m = from) => SubproofLeads(p.nodes, f[s][o][m], g[s][o][m], o, m, s)
<1> DEFINE nodes == p.nodes
           Leads(s, o, m) ==
               /\ SpansBelow(f[s][o][m], o + s)
               /\ Carries(nodes, 0, f[s][o][m]) =>
                      g[s][o][m][Len(f[s][o][m])] = <<Merkle(o, m), Merkle(o, s)>>
           S == {s \in Nat \ {0} : \A o \in Nat : \A m \in 1 .. s : (o = 0 => m = from) => Leads(s, o, m)}
<1>1. ASSUME NEW s \in Nat \ {0}, NEW o \in Nat, NEW m \in 1 .. s, m = s, o = 0 => m = from
      PROVE  Leads(s, o, m)
  <2>1. f[s][o][m] = SubAt(f, s, o, m)
    BY DEF Subs
  <2>2. ASSUME NEW used \in Nat PROVE g[s][o][m][used] = GrowAt(p, g, s, o, m, used)
    BY DEF Grows
  <2>3. CASE o = 0
    <3>1. f[s][o][m] = <<>>
      BY <1>1, <2>1, <2>3 DEF SubAt
    <3>2. g[s][o][m][0] = <<p.earlier, p.earlier>>
      BY <1>1, <2>2, <2>3 DEF GrowAt
    <3>3. <<>> \in Seq(Span) /\ Len(<<>>) = 0
      OBVIOUS
    <3> QED BY <1>1, <2>3, <3>1, <3>2, <3>3 DEF SpansBelow
  <2>4. CASE o # 0
    <3> DEFINE one == <<<<o, s>>>>
    <3>1. f[s][o][m] = one
      BY <1>1, <2>1, <2>4 DEF SubAt
    <3>2. g[s][o][m][1] = <<nodes[1], nodes[1]>>
      BY <1>1, <2>2, <2>4 DEF GrowAt
    <3>3. one \in Seq(Span) /\ Len(one) = 1 /\ one[1] = <<o, s>>
      BY DEF Span
    <3>4. SpansBelow(one, o + s)
      <4> HIDE DEF one
      <4>1. \A j \in 1 .. Len(one) : one[j] = <<o, s>>
        BY <3>3
      <4> QED BY <3>3, <4>1 DEF SpansBelow
    <3>5. ASSUME Carries(nodes, 0, one) PROVE nodes[1] = Merkle(o, s)
      <4> HIDE DEF one
      <4>1. 1 \in 1 .. Len(one) /\ 0 + 1 = 1
        BY <3>3
      <4>2. nodes[0 + 1] = Merkle(one[1][1], one[1][2])
        BY <3>5, <4>1 DEF Carries
      <4> QED BY <3>3, <4>1, <4>2
    <3> HIDE DEF one
    <3> QED BY <1>1, <3>1, <3>2, <3>3, <3>4, <3>5
  <2> QED BY <2>3, <2>4
<1>2. 1 \in S
  <2> HIDE DEF Leads
  <2> QED BY <1>1
<1>3. ASSUME NEW s \in Nat \ {0}, s # 1,
             LargestPowerOf2LessThan(s) \in S, s - LargestPowerOf2LessThan(s) \in S
      PROVE  s \in S
  <2> SUFFICES ASSUME NEW o \in Nat, NEW m \in 1 .. s, o = 0 => m = from PROVE Leads(s, o, m)
    OBVIOUS
  <2>1. PICK l \in Nat : LargestPowerOf2LessThan(s) = Width[l] /\ Width[l] < s /\ s <= Width[l + 1]
    BY <1>3, TheCutIsAWidth, SMTT(30)
  <2> DEFINE k == Width[l]
  <2>2. /\ k \in Nat \ {0} /\ s - k \in Nat \ {0} /\ k < s /\ s >= 2 /\ o + k \in Nat
        /\ o + k # 0
    BY <2>1, WidthIsDoubled
  <2>3. Merkle(o, s) = HashChildren(Merkle(o, k), Merkle(o + k, s - k))
    BY <2>1, <2>2, RootOfTwoTrees
  <2>4. f[s][o][m] = SubAt(f, s, o, m)
    BY DEF Subs
  <2>5. ASSUME NEW used \in Nat PROVE g[s][o][m][used] = GrowAt(p, g, s, o, m, used)
    BY DEF Grows
  <2>6. CASE m = s
    <3> HIDE DEF Leads
    <3> QED BY <1>1, <2>6
  <2>7. CASE m # s /\ m <= k
    <3> DEFINE part == f[k][o][m]
    <3>1. Leads(k, o, m)
      <4>1. m \in 1 .. k
        BY <2>7, <2>2
      <4> HIDE DEF Leads
      <4> QED BY <1>3, <2>1, <2>2, <4>1
    <3>2. f[s][o][m] = Append(part, <<o + k, s - k>>)
      BY <2>1, <2>4, <2>7 DEF SubAt
    <3> HIDE DEF S, k, part
    <3>4. /\ SpansBelow(f[s][o][m], o + s)
          /\ Len(f[s][o][m]) = Len(part) + 1 /\ Len(part) \in Nat
          /\ Carries(nodes, 0, f[s][o][m]) =>
                Carries(nodes, 0, part) /\ nodes[Len(part) + 1] = Merkle(o + k, s - k)
      <4>1. SpansBelow(part, o + k) /\ f[s][o][m] = Append(part, <<o + k, s - k>>)
        BY <3>1, <3>2 DEF part
      <4>2. OneMore(f[s][o][m], part, o + k, s - k, o + s)
        BY <2>2, <4>1, FollowedByAPart
      <4> QED BY <4>2 DEF OneMore
    <3>5. g[s][o][m][Len(part) + 1]
              = <<g[k][o][m][Len(part)][1], HashChildren(g[k][o][m][Len(part)][2], nodes[Len(part) + 1])>>
      <4> DEFINE used == Len(part) + 1
      <4>1. used \in Nat /\ used - 1 = Len(part)
        BY <3>4
      <4>2. g[s][o][m][used] = GrowAt(p, g, s, o, m, used)
        BY <2>5, <4>1
      <4> HIDE DEF used
      <4> QED BY ONLY <2>1, <2>7, <4>1, <4>2 DEF GrowAt, k, used
    <3>6. ASSUME Carries(nodes, 0, f[s][o][m])
          PROVE  g[s][o][m][Len(part) + 1] = <<Merkle(o, m), Merkle(o, s)>>
      <4>1. g[k][o][m][Len(part)] = <<Merkle(o, m), Merkle(o, k)>>
        BY <3>1, <3>4, <3>6 DEF part
      <4>2. nodes[Len(part) + 1] = Merkle(o + k, s - k)
        BY <3>4, <3>6
      <4> QED BY ONLY <2>3, <3>5, <4>1, <4>2
    <3> QED BY <3>4, <3>6
  <2>8. CASE m # s /\ ~ (m <= k)
    <3> DEFINE part == f[s - k][o + k][m - k]
    <3>1. Leads(s - k, o + k, m - k)
      <4>1. m - k \in 1 .. s - k
        BY <2>8, <2>2
      <4> HIDE DEF Leads
      <4> QED BY <1>3, <2>1, <2>2, <4>1
    <3>2. f[s][o][m] = Append(part, <<o, k>>)
      BY <2>1, <2>4, <2>8 DEF SubAt
    <3>4. Merkle(o, m) = HashChildren(Merkle(o, k), Merkle(o + k, m - k))
      <4>1. k < m /\ m <= Width[l + 1] /\ m \in Nat /\ m >= 2
        BY <2>1, <2>2, <2>8, WidthIsDoubled
      <4>2. LargestPowerOf2LessThan(m) = k
        BY <4>1, TheCutIsAt
      <4> QED BY <4>1, <4>2, RootOfTwoTrees
    <3> HIDE DEF S, k, part
    <3>5. /\ SpansBelow(f[s][o][m], o + s)
          /\ Len(f[s][o][m]) = Len(part) + 1 /\ Len(part) \in Nat
          /\ Carries(nodes, 0, f[s][o][m]) =>
                Carries(nodes, 0, part) /\ nodes[Len(part) + 1] = Merkle(o, k)
      <4>1. SpansBelow(part, (o + k) + (s - k)) /\ f[s][o][m] = Append(part, <<o, k>>)
        BY <3>1, <3>2 DEF part
      <4>2. OneMore(f[s][o][m], part, o, k, o + s)
        BY <2>2, <4>1, FollowedByAPart
      <4> QED BY <4>2 DEF OneMore
    <3>6. LET right == g[s - k][o + k][m - k][Len(part)]
              node == nodes[Len(part) + 1]
          IN  g[s][o][m][Len(part) + 1] = <<HashChildren(node, right[1]), HashChildren(node, right[2])>>
      <4> DEFINE used == Len(part) + 1
      <4>1. used \in Nat /\ used - 1 = Len(part)
        BY <3>5
      <4>2. g[s][o][m][used] = GrowAt(p, g, s, o, m, used)
        BY <2>5, <4>1
      <4> HIDE DEF used
      <4> QED BY ONLY <2>1, <2>8, <4>1, <4>2 DEF GrowAt, k, used
    <3>7. ASSUME Carries(nodes, 0, f[s][o][m])
          PROVE  g[s][o][m][Len(part) + 1] = <<Merkle(o, m), Merkle(o, s)>>
      <4>1. g[s - k][o + k][m - k][Len(part)]
                = <<Merkle(o + k, m - k), Merkle(o + k, s - k)>>
        <5>1. (o + k) + (s - k) = o + s
          BY <2>2
        <5> QED BY <3>1, <3>5, <3>7 DEF part
      <4>2. nodes[Len(part) + 1] = Merkle(o, k)
        BY <3>5, <3>7
      <4> QED BY ONLY <2>3, <3>4, <3>6, <4>1, <4>2
    <3> QED BY <3>5, <3>7
  <2> QED BY <2>6, <2>7, <2>8
<1>4. \A s \in Nat \ {0} : s \in S
  <2>1. S \in SUBSET (Nat \ {0})
    OBVIOUS
  <2> HIDE DEF S
  <2> QED BY <1>2, <1>3, <2>1, EverySize
<1> QED BY <1>4 DEF SubproofLeads

-----------------------------------------------------------------------------
(* What is served from a tree whose rows are right.                        *)

LEMMA SpansBelowMore ==
    ASSUME NEW n \in Nat, NEW m \in Nat, n <= m, NEW spans, SpansBelow(spans, n)
    PROVE  SpansBelow(spans, m)
<1>1. spans \in Seq(Span)
  BY DEF SpansBelow
<1>2. ASSUME NEW j \in 1 .. Len(spans) PROVE spans[j][1] + spans[j][2] <= m
  <2>1. spans[j] \in Span /\ spans[j][1] + spans[j][2] <= n
    BY <1>1 DEF SpansBelow
  <2>2. spans[j][1] \in Nat /\ spans[j][2] \in Nat
    BY <2>1 DEF Span
  <2> QED BY <2>1, <2>2
<1> QED BY <1>1, <1>2 DEF SpansBelow

LEMMA InclusionIsRight ==
    ASSUME NEW tree, RowsRight(tree), NEW n \in Nat \ {0}, NEW i \in 0 .. n - 1
    PROVE  LET served == InclusionProof(tree, i, n)
           IN  /\ served.ok => RootOfPath(i, n, served.nodes) = Merkle(0, n)
               /\ \A m \in Nat : n <= m /\ Whole(tree, m) => served.ok
<1> DEFINE spans == PathSpans(i, n)
           opened == OpenAll(tree, spans)
           nodes == Hashes(opened)
           served == InclusionProof(tree, i, n)
<1>1. served.ok = AllOpened(opened) /\ served.nodes = nodes
  BY DEF InclusionProof
<1>2. PICK f : Paths(i, f) /\ spans = f[n][0]
  BY PathIsRecursive
<1>3. PICK g : Ups(i, nodes, g) /\ RootOfPath(i, n, nodes) = g[n][0][Len(nodes)]
  BY UpIsRecursive
<1>4. i \in Nat /\ 0 <= i /\ i < 0 + n /\ 0 + n = n
  OBVIOUS
<1> HIDE DEF spans, nodes, opened, served
<1>5. /\ SpansBelow(spans, n)
      /\ Carries(nodes, 0, spans) => g[n][0][Len(spans)] = Merkle(0, n)
  <2>1. /\ SpansBelow(f[n][0], 0 + n)
        /\ Carries(nodes, 0, f[n][0]) => g[n][0][Len(f[n][0])] = Merkle(0, n)
    <3>1. PathLeads(nodes, f[n][0], g[n][0], 0, n)
      BY <1>2, <1>3, <1>4, PathsLeadUp
    <3> QED BY <3>1 DEF PathLeads
  <2> QED BY <1>2, <1>4, <2>1
<1>6. Len(nodes) = Len(spans) /\ (AllOpened(opened) => Carries(nodes, 0, spans))
  BY <1>5, OpenedSpansCarry DEF opened, nodes
<1>7. ASSUME NEW m \in Nat, n <= m, Whole(tree, m) PROVE AllOpened(opened)
  <2>1. SpansBelow(spans, m)
    BY <1>5, <1>7, SpansBelowMore
  <2> QED BY <1>7, <2>1, OpenedSpansCarry DEF opened
<1>8. served.ok => RootOfPath(i, n, served.nodes) = Merkle(0, n)
  BY <1>1, <1>3, <1>5, <1>6
<1>9. \A m \in Nat : n <= m /\ Whole(tree, m) => served.ok
  BY <1>1, <1>7
<1> QED BY <1>8, <1>9 DEF served

LEMMA ConsistencyIsRight ==
    ASSUME NEW tree, RowsRight(tree), NEW n \in Nat \ {0}, NEW m \in 1 .. n
    PROVE  LET served == ConsistencyProof(tree, m, n)
           IN  /\ served.ok => RootsOfSubproof(m, n, served.nodes, Merkle(0, m))
                                   = <<Merkle(0, m), Merkle(0, n)>>
               /\ \A k \in Nat : n <= k /\ Whole(tree, k) /\ HoldsEntries(tree, n) => served.ok
<1> DEFINE spans == SubproofSpans(m, n)
           opened == OpenAll(tree, spans)
           nodes == Hashes(opened)
           served == ConsistencyProof(tree, m, n)
           p == [nodes |-> nodes, earlier |-> Merkle(0, m)]
<1>1. /\ served.ok = (HoldsEntries(tree, n) /\ AllOpened(opened))
      /\ served.nodes = nodes
  BY DEF ConsistencyProof
<1>2. PICK f : Subs(f) /\ spans = f[n][0][m]
  BY SubIsRecursive
<1>3. p.nodes = nodes /\ p.earlier = Merkle(0, m)
  OBVIOUS
<1> HIDE DEF spans, nodes, opened, served, p
<1>4. PICK g : /\ Grows(p, g)
               /\ RootsOfSubproof(m, n, p.nodes, p.earlier) = g[n][0][m][Len(p.nodes)]
  BY GrowIsRecursive
<1>5. /\ SpansBelow(spans, n)
      /\ Carries(nodes, 0, spans) => g[n][0][m][Len(spans)] = <<Merkle(0, m), Merkle(0, n)>>
  <2>1. m \in Nat \ {0} /\ 0 + n = n
    OBVIOUS
  <2>2. /\ SpansBelow(f[n][0][m], 0 + n)
        /\ Carries(p.nodes, 0, f[n][0][m]) =>
               g[n][0][m][Len(f[n][0][m])] = <<Merkle(0, m), Merkle(0, n)>>
    <3>1. SubproofLeads(p.nodes, f[n][0][m], g[n][0][m], 0, m, n)
      BY <1>2, <1>3, <1>4, <2>1, SubproofsLeadUp
    <3> QED BY <3>1 DEF SubproofLeads
  <2> QED BY <1>2, <1>3, <2>1, <2>2
<1>6. Len(nodes) = Len(spans) /\ (AllOpened(opened) => Carries(nodes, 0, spans))
  BY <1>5, OpenedSpansCarry DEF opened, nodes
<1>7. ASSUME NEW k \in Nat, n <= k, Whole(tree, k) PROVE AllOpened(opened)
  <2>1. SpansBelow(spans, k)
    BY <1>5, <1>7, SpansBelowMore
  <2> QED BY <1>7, <2>1, OpenedSpansCarry DEF opened
<1>8. served.ok => RootsOfSubproof(m, n, served.nodes, Merkle(0, m)) = <<Merkle(0, m), Merkle(0, n)>>
  BY <1>1, <1>3, <1>4, <1>5, <1>6
<1>9. \A k \in Nat : n <= k /\ Whole(tree, k) /\ HoldsEntries(tree, n) => served.ok
  BY <1>1, <1>7
<1> QED BY <1>8, <1>9 DEF served

(* The tree of a store, and the spans it opens from the first leaf on.     *)
LEMMA TreeOfTheStore ==
    ASSUME TreeInv
    PROVE  /\ RowsRight(Tree)
           /\ phase = "up" /\ ~damaged => Whole(Tree, Entries)
           /\ \A n \in Nat : HoldsEntries(Tree, n) <=> n <= Entries
<1>1. Tree.leaf = leaf /\ Tree.roots = roots
  BY DEF Tree
<1>2. Entries \in Nat /\ DOMAIN leaf = 0 .. Entries - 1
  BY DEF TreeInv, LogShape
<1>3. RowsRight(Tree)
  BY <1>1 DEF TreeInv, RowsAreTheLogs, RowsRight
<1>4. ASSUME phase = "up", ~damaged PROVE Whole(Tree, Entries)
  <2>1. Missing = {} /\ DOMAIN roots = CompleteNodes(Entries)
    BY <1>4 DEF TreeInv, PhaseShape, UndamagedComplete
  <2>2. \A i \in DOMAIN leaf : leaf[i] = LeafHash(i)
    BY <2>1 DEF Missing, TreeInv, RowsAreTheLogs
  <2> QED BY <1>1, <1>2, <2>1, <2>2 DEF Whole
<1>5. ASSUME NEW n \in Nat PROVE HoldsEntries(Tree, n) <=> n <= Entries
  <2> DEFINE e == Entries
             held == {i \in DOMAIN leaf : i < n}
  <2>1. HoldsEntries(Tree, n) <=> Cardinality(held) = n
    BY <1>1 DEF HoldsEntries
  <2>2. CASE n <= e
    <3>1. held = 0 .. n - 1
      BY <1>2, <2>2
    <3> QED BY <2>1, <2>2, <3>1, CountOfInterval
  <2>3. CASE ~ (n <= e)
    <3>1. held = 0 .. e - 1
      BY <1>2, <2>3
    <3>2. Cardinality(0 .. e - 1) = e
      <4> HIDE DEF e
      <4> QED BY <1>2, CountOfInterval DEF e
    <3>3. e \in Nat /\ e # n
      BY <1>2, <2>3
    <3> HIDE DEF e, held
    <3> QED BY <2>1, <2>3, <3>1, <3>2, <3>3 DEF e
  <2> QED BY <2>2, <2>3
<1> QED BY <1>3, <1>4, <1>5

LEMMA LogsAreAligned == \A n \in Nat : Aligned(0, n)
<1>1. \A n \in Nat : n <= Width[n] /\ 0 = 0 * Width[n]
  BY WidthGrows, WidthIsDoubled
<1> QED BY <1>1 DEF Aligned

(* What is served over the leaves held is right: a root is the log's and   *)
(* takes a read for each one bit of its size, an inclusion path leads from *)
(* its leaf to that root and a consistency path to both of its roots.      *)
(* Unless a row was lost none of them is refused.                          *)
THEOREM ProofsAreRightOrRefused == Spec => []ProofsRightOrRefused
<1>1. TreeInv => ProofsRightOrRefused
  <2> SUFFICES ASSUME TreeInv, phase = "up", NEW n \in 1 .. Entries, NEW m \in 1 .. n
               PROVE  LET root == Open(Tree, 0, n)
                          consistency == ConsistencyProof(Tree, m, n)
                          inclusion == InclusionProof(Tree, m - 1, n)
                      IN  /\ ~damaged => root.ok /\ consistency.ok /\ inclusion.ok
                          /\ root.ok => root.hash = Merkle(0, n) /\ root.reads = CountOnes(n)
                          /\ consistency.ok =>
                                 RootsOfSubproof(m, n, consistency.nodes, Merkle(0, m))
                                     = <<Merkle(0, m), Merkle(0, n)>>
                          /\ inclusion.ok => RootOfPath(m - 1, n, inclusion.nodes) = Merkle(0, n)
    BY DEF ProofsRightOrRefused
  <2>1. Entries \in Nat /\ n \in Nat \ {0} /\ n <= Entries /\ 0 + n <= Entries /\ m - 1 \in 0 .. n - 1
    BY DEF TreeInv, LogShape
  <2>2. RowsRight(Tree) /\ HoldsEntries(Tree, n) /\ (~damaged => Whole(Tree, Entries))
    BY <2>1, TreeOfTheStore
  <2> DEFINE root == Open(Tree, 0, n)
             consistency == ConsistencyProof(Tree, m, n)
             inclusion == InclusionProof(Tree, m - 1, n)
  <2>3. /\ root.ok => root.hash = Merkle(0, n) /\ root.reads = CountOnes(n)
        /\ ~damaged => root.ok
    BY <2>1, <2>2, OpenIsRight, LogsAreAligned
  <2>4. /\ consistency.ok => RootsOfSubproof(m, n, consistency.nodes, Merkle(0, m))
                                 = <<Merkle(0, m), Merkle(0, n)>>
        /\ ~damaged => consistency.ok
    BY <2>1, <2>2, ConsistencyIsRight
  <2>5. /\ inclusion.ok => RootOfPath(m - 1, n, inclusion.nodes) = Merkle(0, n)
        /\ ~damaged => inclusion.ok
    <3> DEFINE i == m - 1
    <3>1. i \in 0 .. n - 1
      BY <2>1
    <3> HIDE DEF i
    <3>2. LET served == InclusionProof(Tree, i, n)
          IN  /\ served.ok => RootOfPath(i, n, served.nodes) = Merkle(0, n)
              /\ ~damaged => served.ok
      BY <2>1, <2>2, <3>1, InclusionIsRight
    <3> QED BY <3>2 DEF i
  <2> HIDE DEF root, consistency, inclusion
  <2> QED BY <2>3, <2>4, <2>5 DEF root, consistency, inclusion
<1> QED BY <1>1, TreeInvAlways, PTL

-----------------------------------------------------------------------------
(* The spans outside a window, and the walk of the verifier.               *)

Outside(o, s, from, to) == o + s <= from \/ o >= to
Inside(o, s, from, to) == o >= from /\ o + s <= to

LEMMA Classes ==
    ASSUME NEW o, NEW s, NEW from, NEW to
    PROVE  /\ Classify(o, s, from, to) = "outside" <=> Outside(o, s, from, to)
           /\ Classify(o, s, from, to) = "inside" <=>
                  ~Outside(o, s, from, to) /\ Inside(o, s, from, to)
<1>1. "outside" # "inside" /\ "outside" # "straddles" /\ "inside" # "straddles"
  OBVIOUS
<1> QED BY <1>1 DEF Classify, Outside, Inside

OutAt(p, f, s, o) ==
    LET k == LargestPowerOf2LessThan(s)
    IN  CASE Classify(o, s, p.from, p.to) = "outside" -> <<<<o, s>>>>
          [] Classify(o, s, p.from, p.to) = "inside" -> <<>>
          [] OTHER -> f[k][o] \o f[s - k][o + k]
OutValue(p, f, s) == [o \in Nat |-> OutAt(p, f, s, o)]
OutOrder == INSTANCE Order_proofs WITH Value <- OutValue

(* What f is to each span; an inside one is cut as any other.              *)
Outs(p, f) ==
    \A s \in Nat \ {0}, o \in Nat :
        /\ Outside(o, s, p.from, p.to) => f[s][o] = <<<<o, s>>>>
        /\ ~Outside(o, s, p.from, p.to) =>
               IF s = 1 THEN f[s][o] = <<>>
               ELSE LET k == LargestPowerOf2LessThan(s)
                    IN  f[s][o] = f[k][o] \o f[s - k][o + k]

LEMMA OneLeafIsInOrOut ==
    ASSUME NEW from \in Nat, NEW to \in Nat, NEW o \in Nat
    PROVE  Outside(o, 1, from, to) \/ Inside(o, 1, from, to)
BY DEF Outside, Inside

LEMMA PartsAreInside ==
    ASSUME NEW from \in Nat, NEW to \in Nat, NEW o \in Nat, NEW s \in Nat \ {0},
           NEW k \in Nat \ {0}, s - k \in Nat \ {0}, Inside(o, s, from, to)
    PROVE  /\ ~Outside(o, k, from, to) /\ Inside(o, k, from, to)
           /\ ~Outside(o + k, s - k, from, to) /\ Inside(o + k, s - k, from, to)
BY DEF Outside, Inside

LEMMA OutIsRecursive ==
    ASSUME NEW n, NEW from \in Nat, NEW to \in Nat, NEW p, p.from = from, p.to = to
    PROVE  \E f : Outs(p, f) /\ OutsideSubtrees(n, from, to) = f[n][0]
<1> DEFINE All(f) == f = [s \in Nat \ {0} |-> [o \in Nat |-> OutAt(p, f, s, o)]]
           spans == CHOOSE f : All(f)
<1>1. OutsideSubtrees(n, from, to) = spans[n][0]
  BY DEF OutsideSubtrees, OutAt
<1>2. \E f : All(f)
  <2>1. OutOrder!LooksBelow(p, Nat \ {0})
    <3> SUFFICES ASSUME NEW s \in Nat \ {0}, NEW f, NEW g,
                        \A m \in Nat \ {0} : m < s => f[m] = g[m]
                 PROVE  OutValue(p, f, s) = OutValue(p, g, s)
      BY DEF OutOrder!LooksBelow
    <3>1. CASE s # 1
      <4>1. LET k == LargestPowerOf2LessThan(s) IN f[k] = g[k] /\ f[s - k] = g[s - k]
        BY <3>1, TheTwoParts
      <4>2. ASSUME NEW o \in Nat PROVE OutAt(p, f, s, o) = OutAt(p, g, s, o)
        BY <4>1 DEF OutAt
      <4> QED BY <4>2 DEF OutValue
    <3>2. CASE s = 1
      <4>1. ASSUME NEW o \in Nat PROVE OutAt(p, f, s, o) = OutAt(p, g, s, o)
        <5>1. \/ Classify(o, s, p.from, p.to) = "outside"
              \/ Classify(o, s, p.from, p.to) = "inside"
          BY <3>2, OneLeafIsInOrOut, Classes
        <5>2. "outside" # "inside"
          OBVIOUS
        <5> QED BY <5>1, <5>2 DEF OutAt
      <4> QED BY <4>1 DEF OutValue
    <3> QED BY <3>1, <3>2
  <2>2. \E f : OutOrder!IsRecursive(p, Nat \ {0}, f)
    BY <2>1, OutOrder!RecursiveFunction
  <2> QED BY <2>2 DEF OutOrder!IsRecursive, OutValue
<1>3. All(spans)
  <2> HIDE DEF All
  <2> QED BY <1>2
<1>4. ASSUME NEW f, All(f) PROVE Outs(p, f)
  <2>1. ASSUME NEW s \in Nat \ {0}, NEW o \in Nat PROVE f[s][o] = OutAt(p, f, s, o)
    <3>1. f[s] = [a \in Nat |-> OutAt(p, f, s, a)]
      BY <1>4
    <3> QED BY <3>1
  <2>2. ASSUME NEW s \in Nat \ {0}, NEW o \in Nat, Outside(o, s, from, to)
        PROVE  f[s][o] = <<<<o, s>>>>
    <3>1. Classify(o, s, p.from, p.to) = "outside" /\ "outside" # "inside"
      BY <2>2, Classes
    <3> QED BY <2>1, <3>1 DEF OutAt
  <2>3. ASSUME NEW s \in Nat \ {0}, NEW o \in Nat,
               ~Outside(o, s, from, to), Inside(o, s, from, to)
        PROVE  f[s][o] = <<>>
    <3>1. Classify(o, s, p.from, p.to) = "inside" /\ "outside" # "inside"
      BY <2>3, Classes
    <3> QED BY <2>1, <3>1 DEF OutAt
  <2>4. ASSUME NEW s \in Nat \ {0}, NEW o \in Nat, ~Outside(o, s, from, to), s # 1
        PROVE  LET k == LargestPowerOf2LessThan(s) IN f[s][o] = f[k][o] \o f[s - k][o + k]
    <3> DEFINE k == LargestPowerOf2LessThan(s)
    <3>1. k \in Nat \ {0} /\ s - k \in Nat \ {0} /\ o + k \in Nat
      BY <2>4, TheTwoParts
    <3>2. CASE Inside(o, s, from, to)
      <4> HIDE DEF k
      <4>1. f[s][o] = <<>> /\ f[k][o] = <<>> /\ f[s - k][o + k] = <<>>
        BY <2>3, <2>4, <3>1, <3>2, PartsAreInside
      <4>2. <<>> \o <<>> = <<>>
        OBVIOUS
      <4>3. f[s][o] = f[k][o] \o f[s - k][o + k]
        BY <4>1, <4>2
      <4> QED BY <4>3 DEF k
    <3>3. CASE ~Inside(o, s, from, to)
      <4>1. /\ Classify(o, s, p.from, p.to) # "outside"
            /\ Classify(o, s, p.from, p.to) # "inside"
        BY <2>4, <3>3, Classes
      <4> QED BY <2>1, <4>1 DEF OutAt
    <3> QED BY <3>2, <3>3
  <2>5. ASSUME NEW o \in Nat, ~Outside(o, 1, from, to) PROVE f[1][o] = <<>>
    BY <2>3, <2>5, OneLeafIsInOrOut
  <2> HIDE DEF All
  <2> QED BY <2>2, <2>4, <2>5 DEF Outs
<1> HIDE DEF All
<1> QED BY <1>1, <1>3, <1>4

WalkAt(p, f, s, o, used) ==
    LET k == LargestPowerOf2LessThan(s)
        left == f[k][o][used]
        right == f[s - k][o + k][left.used]
    IN  IF o + s <= p.from \/ o >= p.to
        THEN IF used < Len(p.nodes)
             THEN [hash |-> p.nodes[used + 1], used |-> used + 1]
             ELSE [hash |-> NoHash, used |-> used]
        ELSE IF s = 1 THEN [hash |-> p.leaves[o - p.from + 1], used |-> used]
        ELSE [hash |-> HashChildren(left.hash, right.hash), used |-> right.used]
WalkValue(p, f, s) == [o \in Nat |-> [used \in Nat |-> WalkAt(p, f, s, o, used)]]
WalkOrder == INSTANCE Order_proofs WITH Value <- WalkValue

Walks(p, f) ==
    \A s \in Nat \ {0}, o \in Nat, used \in Nat : f[s][o][used] = WalkAt(p, f, s, o, used)

LEMMA WalkIsRecursive ==
    ASSUME NEW proof, NEW leaves, NEW root
    PROVE  LET p == [from |-> proof.from, to |-> proof.to, nodes |-> proof.nodes, leaves |-> leaves]
           IN  \E f : /\ Walks(p, f)
                      /\ RangeVerify(proof, leaves, root) <=>
                             /\ 0 <= proof.from /\ proof.from < proof.to /\ proof.to <= proof.size
                             /\ Len(leaves) = proof.to - proof.from
                             /\ f[proof.size][0][0] = [hash |-> root, used |-> Len(proof.nodes)]
<1> DEFINE p == [from |-> proof.from, to |-> proof.to, nodes |-> proof.nodes, leaves |-> leaves]
           All(f) == f = [s \in Nat \ {0} |-> [o \in Nat |-> [used \in Nat |-> WalkAt(p, f, s, o, used)]]]
           Accepts(f) ==
               /\ 0 <= proof.from /\ proof.from < proof.to /\ proof.to <= proof.size
               /\ Len(leaves) = proof.to - proof.from
               /\ f[proof.size][0][0] = [hash |-> root, used |-> Len(proof.nodes)]
           walk == CHOOSE f : All(f)
<1>1. /\ p.from = proof.from /\ p.to = proof.to /\ p.nodes = proof.nodes
      /\ p.leaves = leaves
  OBVIOUS
<1> HIDE DEF p
<1>2. RangeVerify(proof, leaves, root) <=> Accepts(walk)
  BY <1>1 DEF RangeVerify, WalkAt
<1>3. \E f : All(f)
  <2>1. WalkOrder!LooksBelow(p, Nat \ {0})
    <3> SUFFICES ASSUME NEW s \in Nat \ {0}, NEW f, NEW g,
                        \A m \in Nat \ {0} : m < s => f[m] = g[m]
                 PROVE  WalkValue(p, f, s) = WalkValue(p, g, s)
      BY DEF WalkOrder!LooksBelow
    <3>1. s = 1 \/ LET k == LargestPowerOf2LessThan(s) IN f[k] = g[k] /\ f[s - k] = g[s - k]
      BY TheTwoParts
    <3> QED BY <3>1, ZenonT(30) DEF WalkValue, WalkAt
  <2>2. \E f : WalkOrder!IsRecursive(p, Nat \ {0}, f)
    BY <2>1, WalkOrder!RecursiveFunction
  <2> QED BY <2>2 DEF WalkOrder!IsRecursive, WalkValue
<1>4. All(walk)
  <2> HIDE DEF All
  <2> QED BY <1>3
<1>5. ASSUME NEW f, All(f) PROVE Walks(p, f)
  <2> SUFFICES ASSUME NEW s \in Nat \ {0}, NEW o \in Nat, NEW used \in Nat
               PROVE  f[s][o][used] = WalkAt(p, f, s, o, used)
    BY DEF Walks
  <2>1. f[s] = [a \in Nat |-> [b \in Nat |-> WalkAt(p, f, s, a, b)]]
    BY <1>5
  <2> QED BY <2>1
<1> HIDE DEF All, walk
<1>6. Walks(p, walk)
  BY <1>4, <1>5
<1> QED BY <1>2, <1>6 DEF p

LEMMA SpansTogether ==
    ASSUME NEW n \in Nat, NEW a, SpansBelow(a, n), NEW b, SpansBelow(b, n)
    PROVE  /\ SpansBelow(a \o b, n) /\ Len(a) \in Nat /\ Len(b) \in Nat
           /\ Len(a \o b) = Len(a) + Len(b)
           /\ \A nodes : \A used \in Nat : Carries(nodes, used, a \o b) =>
                  Carries(nodes, used, a) /\ Carries(nodes, used + Len(a), b)
<1> DEFINE c == a \o b
           la == Len(a)
           lb == Len(b)
<1>1. a \in Seq(Span) /\ b \in Seq(Span) /\ la \in Nat /\ lb \in Nat
  BY DEF SpansBelow
<1>2. /\ c \in Seq(Span) /\ Len(c) = la + lb
      /\ \A j \in 1 .. la : c[j] = a[j]
      /\ \A j \in 1 .. lb : c[la + j] = b[j]
  BY <1>1
<1>3. /\ \A j \in 1 .. la : a[j][1] + a[j][2] <= n
      /\ \A j \in 1 .. lb : b[j][1] + b[j][2] <= n
  BY DEF SpansBelow
<1> HIDE DEF c, la, lb
<1>5. ASSUME NEW j \in 1 .. la + lb
      PROVE  j \in 1 .. la \/ \E i \in 1 .. lb : j = la + i
  <2>1. CASE j <= la
    BY <1>1, <2>1
  <2>2. CASE ~ (j <= la)
    <3>1. j - la \in 1 .. lb /\ j = la + (j - la)
      BY <1>1, <2>2
    <3> QED BY <3>1
  <2> QED BY <2>1, <2>2
<1>6. SpansBelow(c, n)
  <2>1. ASSUME NEW j \in 1 .. Len(c) PROVE c[j][1] + c[j][2] <= n
    BY <1>2, <1>3, <1>5
  <2> QED BY <1>2, <2>1 DEF SpansBelow
<1>7. ASSUME NEW nodes, NEW used \in Nat, Carries(nodes, used, c)
      PROVE  Carries(nodes, used, a) /\ Carries(nodes, used + la, b)
  <2>1. \A j \in 1 .. la + lb : nodes[used + j] = Merkle(c[j][1], c[j][2])
    BY <1>2, <1>7 DEF Carries
  <2>2. ASSUME NEW j \in 1 .. la PROVE nodes[used + j] = Merkle(a[j][1], a[j][2])
    <3>1. j \in 1 .. la + lb
      BY <1>1
    <3> QED BY <1>2, <2>1, <3>1
  <2>3. ASSUME NEW j \in 1 .. lb PROVE nodes[(used + la) + j] = Merkle(b[j][1], b[j][2])
    <3>1. la + j \in 1 .. la + lb /\ used + (la + j) = (used + la) + j
      BY <1>1
    <3>2. nodes[used + (la + j)] = Merkle(c[la + j][1], c[la + j][2])
      BY <2>1, <3>1
    <3> QED BY <1>2, <3>1, <3>2
  <2> QED BY <2>2, <2>3 DEF Carries, la, lb
<1> QED BY <1>1, <1>2, <1>6, <1>7 DEF c, la, lb

(* The spans outside are cut from the tree.                                *)
AllAligned(spans) == \A j \in 1 .. Len(spans) : Aligned(spans[j][1], spans[j][2])

LEMMA AlignedTogether ==
    ASSUME NEW n \in Nat, NEW a, SpansBelow(a, n), NEW b, SpansBelow(b, n),
           AllAligned(a), AllAligned(b)
    PROVE  AllAligned(a \o b)
<1> DEFINE c == a \o b
           la == Len(a)
           lb == Len(b)
<1>1. a \in Seq(Span) /\ b \in Seq(Span) /\ la \in Nat /\ lb \in Nat
  BY DEF SpansBelow
<1>2. /\ Len(c) = la + lb
      /\ \A j \in 1 .. la : c[j] = a[j]
      /\ \A j \in 1 .. lb : c[la + j] = b[j]
  BY <1>1
<1> HIDE DEF c
<1>3. ASSUME NEW j \in 1 .. la + lb PROVE Aligned(c[j][1], c[j][2])
  <2>1. CASE j <= la
    <3>1. j \in 1 .. la
      BY <1>1, <2>1
    <3> QED BY <1>2, <3>1 DEF AllAligned
  <2>2. CASE ~ (j <= la)
    <3> DEFINE i == j - la
    <3>1. i \in 1 .. lb /\ j = la + i
      BY <1>1, <2>2
    <3> HIDE DEF i, la, lb
    <3> QED BY <1>2, <3>1 DEF AllAligned, lb
  <2> QED BY <2>1, <2>2
<1> QED BY <1>2, <1>3 DEF AllAligned, c

LEMMA OneSpan ==
    ASSUME NEW o \in Nat, NEW s \in Nat \ {0}
    PROVE  LET one == <<<<o, s>>>>
           IN  /\ SpansBelow(one, o + s) /\ Len(one) = 1
               /\ \A nodes, used : Carries(nodes, used, one) => nodes[used + 1] = Merkle(o, s)
               /\ Aligned(o, s) => AllAligned(one)
<1> DEFINE one == <<<<o, s>>>>
<1>1. one \in Seq(Span) /\ Len(one) = 1 /\ one[1] = <<o, s>>
  BY DEF Span
<1> HIDE DEF one
<1>2. 1 \in 1 .. Len(one) /\ \A j \in 1 .. Len(one) : one[j][1] = o /\ one[j][2] = s
  BY <1>1
<1>3. SpansBelow(one, o + s)
  BY <1>1, <1>2 DEF SpansBelow
<1>4. ASSUME NEW nodes, NEW used, Carries(nodes, used, one) PROVE nodes[used + 1] = Merkle(o, s)
  <2>1. nodes[used + 1] = Merkle(one[1][1], one[1][2])
    BY <1>2, <1>4 DEF Carries
  <2> QED BY <1>2, <2>1
<1>5. Aligned(o, s) => AllAligned(one)
  BY <1>2 DEF AllAligned
<1> QED BY <1>1, <1>3, <1>4, <1>5 DEF one

LEMMA NoSpan ==
    ASSUME NEW n
    PROVE  SpansBelow(<<>>, n) /\ Len(<<>>) = 0 /\ AllAligned(<<>>)
<1>1. <<>> \in Seq(Span) /\ Len(<<>>) = 0
  OBVIOUS
<1> QED BY <1>1 DEF SpansBelow, AllAligned

OutSound(spans, o, s) ==
    SpansBelow(spans, o + s) /\ (Aligned(o, s) => AllAligned(spans))

LEMMA OutsAreSound ==
    ASSUME NEW p, p.from \in Nat, p.to \in Nat, NEW f, Outs(p, f)
    PROVE  \A s \in Nat \ {0} : \A o \in Nat : OutSound(f[s][o], o, s)
<1> DEFINE S == {s \in Nat \ {0} : \A o \in Nat : OutSound(f[s][o], o, s)}
           Out(s, o) == Outside(o, s, p.from, p.to)
<1>1. ASSUME NEW s \in Nat \ {0}, NEW o \in Nat, Out(s, o) PROVE OutSound(f[s][o], o, s)
  <2>1. f[s][o] = <<<<o, s>>>>
    BY <1>1 DEF Outs
  <2> QED BY <2>1, OneSpan DEF OutSound
<1>2. 1 \in S
  <2>1. ASSUME NEW o \in Nat, ~Out(1, o) PROVE OutSound(f[1][o], o, 1)
    <3>1. f[1][o] = <<>>
      BY ONLY <2>1, 1 \in Nat \ {0}, Outs(p, f) DEF Outs, Out
    <3> QED BY <3>1, NoSpan DEF OutSound
  <2> QED BY <1>1, <2>1
<1>3. ASSUME NEW s \in Nat \ {0}, s # 1,
             LargestPowerOf2LessThan(s) \in S, s - LargestPowerOf2LessThan(s) \in S
      PROVE  s \in S
  <2> SUFFICES ASSUME NEW o \in Nat, ~Out(s, o) PROVE OutSound(f[s][o], o, s)
    BY <1>1
  <2> DEFINE k == LargestPowerOf2LessThan(s)
             a == f[k][o]
             b == f[s - k][o + k]
  <2>1. k \in Nat \ {0} /\ s - k \in Nat \ {0} /\ o + k \in Nat
    BY <1>3, TheTwoParts
  <2>2. f[s][o] = a \o b
    BY <1>3 DEF Outs
  <2>3. OutSound(a, o, k) /\ OutSound(b, o + k, s - k)
    BY <1>3, <2>1
  <2>4. Aligned(o, s) => Aligned(o, k) /\ Aligned(o + k, s - k)
    BY <1>3, PartsAreAligned
  <2> HIDE DEF k, a, b, Out, S
  <2>5. o + k <= o + s /\ (o + k) + (s - k) = o + s /\ o + s \in Nat /\ o + k \in Nat
    BY <2>1
  <2>6. SpansBelow(a, o + s) /\ SpansBelow(b, o + s)
    <3>1. SpansBelow(a, o + k) /\ SpansBelow(b, (o + k) + (s - k))
      BY <2>3 DEF OutSound
    <3> QED BY <2>5, <3>1, SpansBelowMore
  <2>7. SpansBelow(a \o b, o + s)
    BY <2>5, <2>6, SpansTogether
  <2>8. ASSUME Aligned(o, s) PROVE AllAligned(a \o b)
    BY <2>3, <2>4, <2>5, <2>6, <2>8, AlignedTogether DEF OutSound
  <2> QED BY <2>2, <2>7, <2>8 DEF OutSound
<1>4. \A s \in Nat \ {0} : s \in S
  <2>1. S \in SUBSET (Nat \ {0})
    OBVIOUS
  <2> HIDE DEF S
  <2> QED BY <1>2, <1>3, <2>1, EverySize
<1> QED BY <1>4

(* Given the nodes outside and the leaves inside, the walk ends at the     *)
(* root and has used the nodes.                                            *)
RightLeaves(p) == \A i \in Nat : p.from <= i /\ i < p.to => p.leaves[i - p.from + 1] = LeafHash(i)
Walked(p, spans, walk, o, s) ==
    \A used \in Nat :
        Carries(p.nodes, used, spans) /\ used + Len(spans) <= Len(p.nodes) =>
            walk[used] = [hash |-> Merkle(o, s), used |-> used + Len(spans)]

LEMMA WalksArrive ==
    ASSUME NEW p, p.from \in Nat, p.to \in Nat, Len(p.nodes) \in Nat, RightLeaves(p),
           NEW f, Outs(p, f), NEW g, Walks(p, g)
    PROVE  \A s \in Nat \ {0} : \A o \in Nat : Walked(p, f[s][o], g[s][o], o, s)
<1> DEFINE S == {s \in Nat \ {0} : \A o \in Nat : Walked(p, f[s][o], g[s][o], o, s)}
           Out(s, o) == Outside(o, s, p.from, p.to)
           len == Len(p.nodes)
<1>0. len \in Nat
  OBVIOUS
<1> HIDE DEF len
<1>1. ASSUME NEW s \in Nat \ {0}, NEW o \in Nat, Out(s, o)
      PROVE  Walked(p, f[s][o], g[s][o], o, s)
  <2> DEFINE one == <<<<o, s>>>>
  <2>1. f[s][o] = one
    BY <1>1 DEF Outs
  <2>2. Len(one) = 1
    BY OneSpan
  <2>3. ASSUME NEW used \in Nat, Carries(p.nodes, used, one), used + 1 <= len
        PROVE  g[s][o][used] = [hash |-> Merkle(o, s), used |-> used + 1]
    <3>1. p.nodes[used + 1] = Merkle(o, s)
      <4>1. \A nodes, from : Carries(nodes, from, one) => nodes[from + 1] = Merkle(o, s)
        BY OneSpan
      <4> HIDE DEF one
      <4> QED BY ONLY <2>3, <4>1
    <3>2. g[s][o][used] = WalkAt(p, g, s, o, used)
      BY DEF Walks
    <3>3. used < len
      BY <1>0, <2>3
    <3> HIDE DEF S
    <3>4. WalkAt(p, g, s, o, used) = [hash |-> p.nodes[used + 1], used |-> used + 1]
      BY ONLY <1>1, <3>3 DEF WalkAt, Out, Outside, len
    <3> QED BY <3>1, <3>2, <3>4
  <2> HIDE DEF one
  <2> QED BY <2>1, <2>2, <2>3 DEF Walked, len
<1>2. 1 \in S
  <2>1. ASSUME NEW o \in Nat, ~Out(1, o) PROVE Walked(p, f[1][o], g[1][o], o, 1)
    <3>1. f[1][o] = <<>>
      BY ONLY <2>1, 1 \in Nat \ {0}, Outs(p, f) DEF Outs, Out
    <3>2. ASSUME NEW used \in Nat PROVE g[1][o][used] = [hash |-> LeafHash(o), used |-> used]
      <4>1. g[1][o][used] = WalkAt(p, g, 1, o, used)
        BY DEF Walks
      <4>2. WalkAt(p, g, 1, o, used) = [hash |-> p.leaves[o - p.from + 1], used |-> used]
        BY ONLY <2>1 DEF WalkAt, Out, Outside
      <4>3. p.leaves[o - p.from + 1] = LeafHash(o)
        BY <2>1 DEF RightLeaves, Outside
      <4> QED BY <4>1, <4>2, <4>3
    <3>3. \A used \in Nat : used + 0 = used
      OBVIOUS
    <3>4. Merkle(o, 1) = LeafHash(o)
      BY RootOfALeaf
    <3>5. Len(<<>>) = 0
      OBVIOUS
    <3> HIDE DEF S
    <3> QED BY ONLY <3>1, <3>2, <3>3, <3>4, <3>5 DEF Walked
  <2> QED BY <1>1, <2>1
<1>3. ASSUME NEW s \in Nat \ {0}, s # 1,
             LargestPowerOf2LessThan(s) \in S, s - LargestPowerOf2LessThan(s) \in S
      PROVE  s \in S
  <2> SUFFICES ASSUME NEW o \in Nat, ~Out(s, o) PROVE Walked(p, f[s][o], g[s][o], o, s)
    BY <1>1
  <2> DEFINE k == LargestPowerOf2LessThan(s)
             a == f[k][o]
             b == f[s - k][o + k]
             la == Len(a)
             lb == Len(b)
  <2>1. k \in Nat \ {0} /\ s - k \in Nat \ {0} /\ o + k \in Nat /\ s >= 2
    BY <1>3, TheTwoParts
  <2>2. f[s][o] = a \o b
    BY <1>3 DEF Outs
  <2>3. Walked(p, a, g[k][o], o, k) /\ Walked(p, b, g[s - k][o + k], o + k, s - k)
    BY <1>3, <2>1
  <2>4. Merkle(o, s) = HashChildren(Merkle(o, k), Merkle(o + k, s - k))
    BY <2>1, RootOfTwoTrees
  <2>5. ASSUME NEW used \in Nat
        PROVE  LET left == g[k][o][used]
                   right == g[s - k][o + k][left.used]
               IN  g[s][o][used] = [hash |-> HashChildren(left.hash, right.hash), used |-> right.used]
    <3>1. g[s][o][used] = WalkAt(p, g, s, o, used)
      BY DEF Walks
    <3> QED BY ONLY <1>3, <3>1, ~Out(s, o) DEF WalkAt, Out, Outside
  <2>6. /\ Len(a \o b) = la + lb /\ la \in Nat /\ lb \in Nat
        /\ \A used \in Nat : Carries(p.nodes, used, a \o b) =>
               Carries(p.nodes, used, a) /\ Carries(p.nodes, used + la, b)
    <3>1. OutSound(a, o, k) /\ OutSound(b, o + k, s - k)
      BY <2>1, OutsAreSound
    <3> HIDE DEF k, a, b, S
    <3>2. SpansBelow(a, o + k) /\ SpansBelow(b, (o + k) + (s - k))
      BY <3>1 DEF OutSound
    <3>3. o + k <= o + s /\ (o + k) + (s - k) = o + s /\ o + s \in Nat /\ o + k \in Nat
      BY <2>1
    <3>4. SpansBelow(a, o + s) /\ SpansBelow(b, o + s)
      BY <3>2, <3>3, SpansBelowMore
    <3> QED BY <3>3, <3>4, SpansTogether
  <2> HIDE DEF k, a, b, la, lb, S, Out
  <2>7. ASSUME NEW used \in Nat, Carries(p.nodes, used, a \o b), used + (la + lb) <= len
        PROVE  g[s][o][used] = [hash |-> Merkle(o, s), used |-> used + (la + lb)]
    <3>1. /\ Carries(p.nodes, used, a) /\ Carries(p.nodes, used + la, b)
          /\ used + la \in Nat /\ used + la <= len /\ (used + la) + lb <= len
          /\ (used + la) + lb = used + (la + lb)
      BY <1>0, <2>6, <2>7
    <3>2. g[k][o][used] = [hash |-> Merkle(o, k), used |-> used + la]
      BY <2>3, <3>1 DEF Walked, la, len
    <3>3. g[s - k][o + k][used + la] = [hash |-> Merkle(o + k, s - k), used |-> (used + la) + lb]
      BY <2>3, <3>1 DEF Walked, lb, len
    <3>4. LET left == g[k][o][used]
          IN  left.hash = Merkle(o, k) /\ left.used = used + la
      BY <3>2
    <3> QED BY <2>4, <2>5, <3>1, <3>3, <3>4, SMTT(30)
  <2> QED BY <2>2, <2>6, <2>7 DEF Walked, len
<1>4. \A s \in Nat \ {0} : s \in S
  <2>1. S \in SUBSET (Nat \ {0})
    OBVIOUS
  <2> HIDE DEF S
  <2> QED BY <1>2, <1>3, <2>1, EverySize
<1> QED BY <1>4

(* A walk that ends at the root passed the leaves of the log.              *)
Passed(p, walk, o, s) ==
    \A used \in Nat :
        /\ walk[used].used \in Nat
        /\ walk[used].hash = Merkle(o, s) =>
               \A i \in Nat : o <= i /\ i < o + s /\ p.from <= i /\ i < p.to =>
                   p.leaves[i - p.from + 1] = LeafHash(i)

LEMMA WalksPassTheLeaves ==
    ASSUME NEW p, p.from \in Nat, p.to \in Nat, NEW g, Walks(p, g)
    PROVE  \A s \in Nat \ {0} : \A o \in Nat : Passed(p, g[s][o], o, s)
<1> DEFINE S == {s \in Nat \ {0} : \A o \in Nat : Passed(p, g[s][o], o, s)}
           Out(s, o) == Outside(o, s, p.from, p.to)
<1>1. ASSUME NEW s \in Nat \ {0}, NEW o \in Nat, Out(s, o) PROVE Passed(p, g[s][o], o, s)
  <2>1. ASSUME NEW used \in Nat PROVE g[s][o][used].used \in Nat
    <3>1. g[s][o][used] = WalkAt(p, g, s, o, used)
      BY DEF Walks
    <3>2. g[s][o][used] = [hash |-> p.nodes[used + 1], used |-> used + 1]
          \/ g[s][o][used] = [hash |-> NoHash, used |-> used]
      BY ONLY <1>1, <3>1 DEF WalkAt, Out, Outside
    <3> QED BY <3>2
  <2>2. ASSUME NEW i \in Nat, o <= i, i < o + s, p.from <= i, i < p.to PROVE FALSE
    BY <1>1, <2>2 DEF Outside
  <2> HIDE DEF S, Out
  <2> QED BY <2>1, <2>2 DEF Passed
<1>2. 1 \in S
  <2>1. ASSUME NEW o \in Nat, ~Out(1, o) PROVE Passed(p, g[1][o], o, 1)
    <3>1. ASSUME NEW used \in Nat
          PROVE  g[1][o][used] = [hash |-> p.leaves[o - p.from + 1], used |-> used]
      <4>1. g[1][o][used] = WalkAt(p, g, 1, o, used)
        BY DEF Walks
      <4> QED BY ONLY <2>1, <4>1 DEF WalkAt, Out, Outside
    <3>2. Merkle(o, 1) = LeafHash(o)
      BY RootOfALeaf
    <3>3. ASSUME NEW i \in Nat, o <= i, i < o + 1 PROVE i = o
      BY <3>3
    <3> HIDE DEF S, Out
    <3>4. ASSUME NEW used \in Nat
          PROVE  g[1][o][used].used = used /\ g[1][o][used].hash = p.leaves[o - p.from + 1]
      <4>1. \A x : [hash |-> x, used |-> used].hash = x /\ [hash |-> x, used |-> used].used = used
        OBVIOUS
      <4> QED BY ONLY <3>1, <4>1, used \in Nat, ZenonT(30)
    <3> QED BY ONLY <3>2, <3>3, <3>4 DEF Passed
  <2> QED BY <1>1, <2>1
<1>3. ASSUME NEW s \in Nat \ {0}, s # 1,
             LargestPowerOf2LessThan(s) \in S, s - LargestPowerOf2LessThan(s) \in S
      PROVE  s \in S
  <2> SUFFICES ASSUME NEW o \in Nat, ~Out(s, o) PROVE Passed(p, g[s][o], o, s)
    BY <1>1
  <2> DEFINE k == LargestPowerOf2LessThan(s)
  <2>1. k \in Nat \ {0} /\ s - k \in Nat \ {0} /\ o + k \in Nat /\ s >= 2
    BY <1>3, TheTwoParts
  <2>2. Passed(p, g[k][o], o, k) /\ Passed(p, g[s - k][o + k], o + k, s - k)
    BY <1>3, <2>1
  <2>3. Merkle(o, s) = HashChildren(Merkle(o, k), Merkle(o + k, s - k))
    BY <2>1, RootOfTwoTrees
  <2> SUFFICES ASSUME NEW used \in Nat
               PROVE  /\ g[s][o][used].used \in Nat
                      /\ g[s][o][used].hash = Merkle(o, s) =>
                             \A i \in Nat : o <= i /\ i < o + s /\ p.from <= i /\ i < p.to =>
                                 p.leaves[i - p.from + 1] = LeafHash(i)
    BY DEF Passed
  <2> DEFINE left == g[k][o][used]
             right == g[s - k][o + k][left.used]
  <2>4. g[s][o][used] = [hash |-> HashChildren(left.hash, right.hash), used |-> right.used]
    <3>1. g[s][o][used] = WalkAt(p, g, s, o, used)
      BY DEF Walks
    <3> QED BY ONLY <1>3, <3>1, ~Out(s, o) DEF WalkAt, Out, Outside
  <2> HIDE DEF S, Out, k
  <2>5. left.used \in Nat /\ right.used \in Nat
    BY <2>2 DEF Passed
  <2>6. ASSUME g[s][o][used].hash = Merkle(o, s),
               NEW i \in Nat, o <= i, i < o + s, p.from <= i, i < p.to
        PROVE  p.leaves[i - p.from + 1] = LeafHash(i)
    <3>1. left.hash = Merkle(o, k) /\ right.hash = Merkle(o + k, s - k)
      <4>1. HashChildren(left.hash, right.hash) = HashChildren(Merkle(o, k), Merkle(o + k, s - k))
        BY <2>3, <2>4, <2>6, SMTT(30)
      <4> HIDE DEF left, right
      <4> QED BY <4>1 DEF HashChildren
    <3>2. CASE i < o + k
      BY <2>2, <2>6, <3>1, <3>2 DEF Passed
    <3>3. CASE ~ (i < o + k)
      <4>1. o + k <= i /\ i < (o + k) + (s - k)
        BY <2>1, <2>6, <3>3
      <4> QED BY <2>2, <2>5, <2>6, <3>1, <4>1 DEF Passed
    <3> QED BY <3>2, <3>3
  <2>7. g[s][o][used].used = right.used
    BY <2>4, SMTT(30)
  <2> QED BY <2>5, <2>6, <2>7
<1>4. \A s \in Nat \ {0} : s \in S
  <2>1. S \in SUBSET (Nat \ {0})
    OBVIOUS
  <2> HIDE DEF S
  <2> QED BY <1>2, <1>3, <2>1, EverySize
<1> QED BY <1>4

(* A range of the right nodes and leaves verifies, and what verifies under *)
(* the root has the leaves of its window.                                  *)
LEMMA RightRangesVerify ==
    ASSUME NEW n \in Nat \ {0}, NEW from \in Nat, NEW to \in Nat, from < to, to <= n,
           NEW proof, proof.size = n, proof.from = from, proof.to = to,
           Len(proof.nodes) = Len(OutsideSubtrees(n, from, to)),
           Carries(proof.nodes, 0, OutsideSubtrees(n, from, to)),
           NEW leaves, Len(leaves) = to - from,
           \A j \in 1 .. to - from : leaves[j] = LeafHash(from + j - 1)
    PROVE  RangeVerify(proof, leaves, Merkle(0, n))
<1> DEFINE spans == OutsideSubtrees(n, from, to)
           p == [from |-> proof.from, to |-> proof.to, nodes |-> proof.nodes, leaves |-> leaves]
<1>1. PICK g : /\ Walks(p, g)
               /\ RangeVerify(proof, leaves, Merkle(0, n)) <=>
                      /\ 0 <= proof.from /\ proof.from < proof.to /\ proof.to <= proof.size
                      /\ Len(leaves) = proof.to - proof.from
                      /\ g[proof.size][0][0] = [hash |-> Merkle(0, n), used |-> Len(proof.nodes)]
  BY WalkIsRecursive
<1>2. p.from = from /\ p.to = to /\ p.nodes = proof.nodes /\ p.leaves = leaves
  OBVIOUS
<1> HIDE DEF p
<1>3. PICK f : Outs(p, f) /\ spans = f[n][0]
  BY <1>2, OutIsRecursive
<1>4. SpansBelow(spans, 0 + n)
  BY <1>2, <1>3, OutsAreSound DEF OutSound
<1>5. Len(p.nodes) = Len(spans) /\ Len(spans) \in Nat
  BY <1>2, <1>4 DEF SpansBelow
<1> HIDE DEF spans
<1>6. RightLeaves(p)
  <2> SUFFICES ASSUME NEW i \in Nat, from <= i, i < to
               PROVE  leaves[i - from + 1] = LeafHash(i)
    BY <1>2 DEF RightLeaves
  <2> DEFINE j == i - from + 1
  <2>1. j \in 1 .. to - from /\ from + j - 1 = i
    OBVIOUS
  <2> HIDE DEF j
  <2>2. leaves[j] = LeafHash(i)
    BY <2>1
  <2> QED BY <2>2 DEF j
<1>7. Walked(p, spans, g[n][0], 0, n)
  BY <1>1, <1>2, <1>3, <1>5, <1>6, WalksArrive
<1>8. Carries(p.nodes, 0, spans)
  BY <1>2 DEF spans
<1>9. g[n][0][0] = [hash |-> Merkle(0, n), used |-> Len(proof.nodes)]
  <2>1. 0 \in Nat /\ 0 + Len(spans) = Len(spans) /\ 0 + Len(spans) <= Len(p.nodes)
    BY <1>5
  <2> QED BY <1>2, <1>5, <1>7, <1>8, <2>1 DEF Walked
<1>10. 0 <= from
  OBVIOUS
<1> QED BY <1>1, <1>9, <1>10

LEMMA VerifiedRangesAreRight ==
    ASSUME NEW proof, proof.size \in Nat \ {0}, proof.from \in Nat, proof.to \in Nat,
           NEW leaves, RangeVerify(proof, leaves, Merkle(0, proof.size))
    PROVE  /\ proof.from < proof.to /\ proof.to <= proof.size
           /\ Len(leaves) = proof.to - proof.from
           /\ \A i \in Nat : proof.from <= i /\ i < proof.to =>
                  leaves[i - proof.from + 1] = LeafHash(i)
<1> DEFINE n == proof.size
           p == [from |-> proof.from, to |-> proof.to, nodes |-> proof.nodes, leaves |-> leaves]
<1>1. PICK g : /\ Walks(p, g)
               /\ RangeVerify(proof, leaves, Merkle(0, n)) <=>
                      /\ 0 <= proof.from /\ proof.from < proof.to /\ proof.to <= proof.size
                      /\ Len(leaves) = proof.to - proof.from
                      /\ g[proof.size][0][0] = [hash |-> Merkle(0, n), used |-> Len(proof.nodes)]
  BY WalkIsRecursive
<1>2. p.from = proof.from /\ p.to = proof.to /\ p.leaves = leaves
  OBVIOUS
<1> HIDE DEF p
<1>3. proof.from < proof.to /\ proof.to <= n /\ Len(leaves) = proof.to - proof.from
      /\ g[n][0][0].hash = Merkle(0, n)
  BY <1>1
<1>4. Passed(p, g[n][0], 0, n)
  BY <1>1, <1>2, WalksPassTheLeaves
<1>5. ASSUME NEW i \in Nat, proof.from <= i, i < proof.to
      PROVE  leaves[i - proof.from + 1] = LeafHash(i)
  <2>1. 0 <= i /\ i < 0 + n /\ 0 \in Nat
    BY <1>3, <1>5
  <2>2. \A x \in Nat : 0 <= x /\ x < 0 + n /\ p.from <= x /\ x < p.to =>
            p.leaves[x - p.from + 1] = LeafHash(x)
    BY <1>3, <1>4, <2>1 DEF Passed
  <2> QED BY <1>2, <1>5, <2>1, <2>2
<1> QED BY <1>3, <1>5

-----------------------------------------------------------------------------
(* What a store serves for a range.                                        *)
WindowEntries(from, to) ==
    [j \in 1 .. to - from |-> [index |-> from + j - 1, leaf |-> LeafHash(from + j - 1)]]
Asked(n, root, from, to) == n <= Entries /\ from < to /\ to <= n /\ root = Merkle(0, n)

AsAsked(built, n, root, from, to) ==
    LET response == built.response
    IN  /\ Asked(n, root, from, to)
        /\ VerifyRangeResponse(response)
        /\ \A j \in DOMAIN built.spans : built.opened[j].reads = CountOnes(built.spans[j][2])
        /\ response.size = n /\ response.root = root
        /\ response.from = from /\ response.to = to
        /\ response.entries = WindowEntries(from, to)
        /\ response = [ size |-> response.size, root |-> response.root,
                        from |-> response.from, to |-> response.to,
                        entries |-> response.entries, proof |-> response.proof ]

LEMMA RangesAreRight ==
    ASSUME TreeInv, phase = "up",
           NEW n \in Nat \ {0}, NEW from \in Nat, NEW to \in Nat, NEW root
    PROVE  LET built == BuildRange(Tree, n, root, from, to)
           IN  /\ built.ok => AsAsked(built, n, root, from, to)
               /\ Asked(n, root, from, to) /\ ~damaged => built.ok
<1> DEFINE spans == OutsideSubtrees(n, from, to)
           opened == OpenAll(Tree, spans)
           nodes == Hashes(opened)
           proof == [size |-> n, from |-> from, to |-> to, nodes |-> nodes]
           whole == Open(Tree, 0, n)
           window == Window(Tree, from, to)
           ok == /\ HoldsEntries(Tree, n)
                 /\ from < to /\ to <= n
                 /\ whole.ok /\ whole.hash = root
                 /\ AllOpened(opened)
                 /\ RangeVerify(proof, window, root)
           entries == [j \in 1 .. to - from |->
                          [index |-> from + j - 1, leaf |-> LeafHash(from + j - 1)]]
           response == [ size |-> n, root |-> root, from |-> from, to |-> to,
                         entries |-> entries, proof |-> proof ]
           allOpened == <<whole>> \o opened
           allSpans == <<<<0, n>>>> \o spans
           built == BuildRange(Tree, n, root, from, to)
<1>1. built = IF ~ok THEN [ok |-> FALSE]
              ELSE [ ok |-> TRUE, opened |-> allOpened, spans |-> allSpans, response |-> response ]
  BY DEF BuildRange, Response
<1>2. proof.size = n /\ proof.from = from /\ proof.to = to /\ proof.nodes = nodes
  OBVIOUS
<1>3. /\ response.size = n /\ response.root = root /\ response.from = from /\ response.to = to
      /\ response.entries = entries /\ response.proof = proof
      /\ response = [ size |-> response.size, root |-> response.root,
                        from |-> response.from, to |-> response.to,
                        entries |-> response.entries, proof |-> response.proof ]
  OBVIOUS
<1>4. /\ DOMAIN entries = 1 .. to - from
      /\ \A j \in 1 .. to - from :
             entries[j].index = from + j - 1 /\ entries[j].leaf = LeafHash(from + j - 1)
  OBVIOUS
<1>5. /\ RowsRight(Tree) /\ (~damaged => Whole(Tree, Entries)) /\ Entries \in Nat
      /\ (HoldsEntries(Tree, n) <=> n <= Entries)
  BY TreeOfTheStore DEF TreeInv, LogShape
<1> HIDE DEF spans, opened, nodes, proof, whole, window, entries, response, allOpened, allSpans, built
<1>6. SpansBelow(spans, n) /\ AllAligned(spans)
  <2> DEFINE p == [from |-> from, to |-> to]
  <2>1. p.from = from /\ p.to = to
    OBVIOUS
  <2> HIDE DEF p
  <2>2. PICK f : Outs(p, f) /\ spans = f[n][0]
    BY <2>1, OutIsRecursive DEF spans
  <2>3. OutSound(spans, 0, n)
    BY <2>1, <2>2, OutsAreSound
  <2> QED BY <2>3, LogsAreAligned DEF OutSound
<1>7. /\ DOMAIN opened = 1 .. Len(spans) /\ Len(spans) \in Nat /\ Len(nodes) = Len(spans)
      /\ AllOpened(opened) => Carries(nodes, 0, spans)
      /\ ~damaged /\ n <= Entries => AllOpened(opened)
  <2>1. /\ DOMAIN opened = 1 .. Len(spans) /\ Len(spans) \in Nat /\ Len(nodes) = Len(spans)
        /\ AllOpened(opened) => Carries(nodes, 0, spans)
    BY <1>5, <1>6, OpenedSpansCarry DEF opened, nodes
  <2>2. ASSUME ~damaged, n <= Entries PROVE AllOpened(opened)
    <3>1. SpansBelow(spans, Entries)
      BY <1>5, <1>6, <2>2, SpansBelowMore
    <3> QED BY <1>5, <2>2, <3>1, OpenedSpansCarry DEF opened
  <2> QED BY <2>1, <2>2
<1>8. /\ whole.ok => whole.hash = Merkle(0, n) /\ whole.reads = CountOnes(n)
      /\ ~damaged /\ n <= Entries => whole.ok
  <2>1. 0 + n <= Entries <=> n <= Entries
    OBVIOUS
  <2> QED BY <1>5, <2>1, OpenIsRight, LogsAreAligned DEF whole
<1>9. ASSUME n <= Entries, from < to, to <= n
      PROVE  /\ window = [j \in 1 .. to - from |-> LeafHash(from + j - 1)]
             /\ Len(window) = to - from
             /\ AllOpened(opened) => RangeVerify(proof, window, Merkle(0, n))
  <2>1. ASSUME NEW j \in 1 .. to - from PROVE Tree.leaf[from + j - 1] = LeafHash(from + j - 1)
    <3> DEFINE i == from + j - 1
    <3>1. i \in 0 .. Entries - 1
      BY <1>5, <1>9
    <3> HIDE DEF i
    <3>2. leaf[i] = LeafHash(i)
      BY <3>1 DEF TreeInv, LogShape, PhaseShape, Missing, RowsAreTheLogs
    <3> QED BY <3>2 DEF i, Tree
  <2>2. window = [j \in 1 .. to - from |-> LeafHash(from + j - 1)]
    BY <2>1 DEF window, Window
  <2>3. Len(window) = to - from
    BY <1>9, <2>2
  <2>4. \A j \in 1 .. to - from : window[j] = LeafHash(from + j - 1)
    BY <2>2
  <2>5. ASSUME AllOpened(opened) PROVE RangeVerify(proof, window, Merkle(0, n))
    BY <1>2, <1>7, <1>9, <2>3, <2>4, <2>5, RightRangesVerify DEF spans
  <2> QED BY <2>2, <2>3, <2>5
<1>10. ASSUME ok
       PROVE  /\ Asked(n, root, from, to) /\ VerifyRangeResponse(response)
              /\ \A j \in DOMAIN allSpans : allOpened[j].reads = CountOnes(allSpans[j][2])
  <2>1. Asked(n, root, from, to)
    BY <1>5, <1>8, <1>10 DEF Asked
  <2>2. [j \in DOMAIN response.entries |-> response.entries[j].leaf] = window
    <3>1. window = [j \in 1 .. to - from |-> LeafHash(from + j - 1)]
      BY <1>9, <2>1 DEF Asked
    <3> QED BY <1>3, <1>4, <3>1
  <2>3. VerifyRangeResponse(response)
    BY <1>2, <1>3, <1>4, <1>10, <2>2 DEF VerifyRangeResponse, InOrder
  <2>4. ASSUME NEW j \in DOMAIN allSpans PROVE allOpened[j].reads = CountOnes(allSpans[j][2])
    <3> DEFINE O == {whole} \cup {opened[i] : i \in 1 .. Len(spans)}
    <3>1. spans \in Seq(Span) /\ <<<<0, n>>>> \in Seq(Span)
      BY <1>6 DEF SpansBelow, Span
    <3>2. opened \in Seq(O) /\ Len(opened) = Len(spans) /\ <<whole>> \in Seq(O)
      <4>1. opened = [i \in 1 .. Len(spans) |-> opened[i]]
        BY <1>7 DEF opened, OpenAll
      <4>2. \A i \in 1 .. Len(spans) : opened[i] \in O
        OBVIOUS
      <4> HIDE DEF O
      <4> QED BY <1>7, <4>1, <4>2 DEF O
    <3>3. /\ DOMAIN allSpans = 1 .. 1 + Len(spans)
          /\ allSpans[1] = <<0, n>> /\ allOpened[1] = whole
          /\ \A i \in 1 .. Len(spans) :
                 allSpans[1 + i] = spans[i] /\ allOpened[1 + i] = opened[i]
      BY <1>7, <3>1, <3>2 DEF allSpans, allOpened
    <3>4. CASE j = 1
      BY <1>8, <1>10, <3>3, <3>4
    <3>5. CASE j # 1
      <4> DEFINE i == j - 1
      <4>1. i \in 1 .. Len(spans) /\ j = 1 + i
        BY <1>7, <3>3, <3>5
      <4> HIDE DEF i
      <4>2. opened[i].ok /\ Aligned(spans[i][1], spans[i][2]) /\ spans[i] \in Span
        BY <1>6, <1>7, <1>10, <3>1, <4>1 DEF AllOpened, AllAligned
      <4>3. spans[i][1] \in Nat /\ spans[i][2] \in Nat \ {0}
        BY <4>2 DEF Span
      <4>4. opened[i] = Open(Tree, spans[i][1], spans[i][2])
        BY <3>1, <4>1 DEF opened, OpenAll
      <4>5. opened[i].reads = CountOnes(spans[i][2])
        BY <1>5, <4>2, <4>3, <4>4, OpenIsRight
      <4> QED BY <3>3, <4>1, <4>5
    <3> QED BY <3>4, <3>5
  <2> HIDE DEF ok
  <2> QED BY <2>1, <2>3, <2>4
<1>11. ASSUME Asked(n, root, from, to), ~damaged PROVE ok
  BY <1>5, <1>7, <1>8, <1>9, <1>11 DEF Asked
<1> HIDE DEF ok
<1>12. ASSUME ok PROVE built.ok /\ built.opened = allOpened /\ built.spans = allSpans /\ built.response = response
  BY <1>1, <1>12
<1>13. ASSUME ~ok PROVE ~built.ok
  BY <1>1, <1>13
<1>14. entries = WindowEntries(from, to)
  BY DEF entries, WindowEntries
<1>15. built.ok => AsAsked(built, n, root, from, to)
  BY <1>3, <1>10, <1>12, <1>13, <1>14 DEF AsAsked
<1> QED BY <1>11, <1>12, <1>15 DEF built

(* A range is served only under the root of the leaves held and for a      *)
(* window inside them; it verifies, and each node it reports as read was.  *)
(* Nothing is refused for want of a node unless a row was lost.            *)
THEOREM RangesAreRightOrRefused == Spec => []RangesRightOrRefused
<1>1. TreeInv => RangesRightOrRefused
  <2> SUFFICES ASSUME TreeInv, phase = "up", NEW n \in 1 .. Entries + 1,
                      NEW from \in 0 .. Entries + 1, NEW to \in 0 .. Entries + 1,
                      NEW root \in {Merkle(0, n), NoHash}
               PROVE  LET built == BuildRange(Tree, n, root, from, to)
                          asked == n <= Entries /\ from < to /\ to <= n /\ root = Merkle(0, n)
                      IN  /\ built.ok => /\ asked
                                         /\ VerifyRangeResponse(built.response)
                                         /\ \A j \in DOMAIN built.spans :
                                                built.opened[j].reads = CountOnes(built.spans[j][2])
                          /\ asked /\ ~damaged => built.ok
    BY DEF RangesRightOrRefused
  <2>1. Entries \in Nat
    BY DEF TreeInv, LogShape
  <2>2. n \in Nat \ {0} /\ from \in Nat /\ to \in Nat
    BY <2>1
  <2> DEFINE built == BuildRange(Tree, n, root, from, to)
  <2>3. /\ built.ok => AsAsked(built, n, root, from, to)
        /\ Asked(n, root, from, to) /\ ~damaged => built.ok
    BY <2>2, RangesAreRight
  <2> HIDE DEF built
  <2> QED BY <2>3 DEF Asked, AsAsked, built
<1> QED BY <1>1, TreeInvAlways, PTL

-----------------------------------------------------------------------------
(* An accepted response is its window of the log.                          *)
LEMMA AcceptedIsTheWindow ==
    ASSUME NEW r, r.size \in Nat \ {0}, r.root = Merkle(0, r.size),
           r.from \in Nat, r.to \in Nat,
           NEW L, r.entries \in Seq([index : Nat, leaf : L]), VerifyRangeResponse(r)
    PROVE  r.entries = WindowEntries(r.from, r.to)
<1> DEFINE entries == r.entries
           leaves == [j \in DOMAIN entries |-> entries[j].leaf]
           len == Len(entries)
<1>1. len \in Nat /\ entries \in [1 .. len -> [index : Nat, leaf : L]]
  <2> DEFINE R == [index : Nat, leaf : L]
  <2>1. entries \in Seq(R)
    OBVIOUS
  <2> HIDE DEF R, entries
  <2>2. len \in Nat /\ entries \in [1 .. len -> R]
    BY <2>1
  <2> QED BY <2>2 DEF R
<1>2. /\ \A j \in 1 .. len : entries[j].index = r.from + j - 1
      /\ r.proof.size = r.size /\ r.proof.from = r.from /\ r.proof.to = r.to
      /\ RangeVerify(r.proof, leaves, r.root)
  BY <1>1 DEF VerifyRangeResponse, InOrder
<1>3. leaves = [j \in 1 .. len |-> entries[j].leaf]
  BY <1>1
<1> HIDE DEF leaves
<1>4. /\ r.from < r.to /\ Len(leaves) = r.to - r.from
      /\ \A i \in Nat : r.from <= i /\ i < r.to => leaves[i - r.from + 1] = LeafHash(i)
  <2> DEFINE proof == r.proof
  <2>1. /\ proof.size \in Nat \ {0} /\ proof.from \in Nat /\ proof.to \in Nat
        /\ RangeVerify(proof, leaves, Merkle(0, proof.size))
    BY <1>2
  <2>2. proof.from = r.from /\ proof.to = r.to
    BY <1>2
  <2> HIDE DEF proof
  <2>3. /\ proof.from < proof.to /\ Len(leaves) = proof.to - proof.from
        /\ \A i \in Nat : proof.from <= i /\ i < proof.to => leaves[i - proof.from + 1] = LeafHash(i)
    BY <2>1, VerifiedRangesAreRight
  <2> QED BY <2>2, <2>3
<1>5. Len(leaves) = len
  BY <1>1, <1>3
<1> HIDE DEF entries, len
<1>6. ASSUME NEW j \in 1 .. len
      PROVE  entries[j] = [index |-> r.from + j - 1, leaf |-> LeafHash(r.from + j - 1)]
  <2> DEFINE i == r.from + j - 1
  <2>1. i \in Nat /\ r.from <= i /\ i < r.to /\ i - r.from + 1 = j
    BY <1>1, <1>4, <1>5
  <2> HIDE DEF i
  <2>2. leaves[i - r.from + 1] = LeafHash(i)
    BY <1>4, <2>1
  <2>3. leaves[j] = LeafHash(i)
    BY ONLY <2>1, <2>2
  <2>4. entries[j] \in [index : Nat, leaf : L] /\ entries[j].leaf = LeafHash(i) /\ entries[j].index = i
    BY <1>1, <1>2, <1>3, <2>3 DEF i
  <2>5. entries[j] = [index |-> i, leaf |-> LeafHash(i)]
    BY ONLY <2>4
  <2> QED BY <2>5 DEF i
<1>7. entries = [j \in 1 .. len |-> entries[j]]
  BY <1>1
<1>8. entries = WindowEntries(r.from, r.to)
  BY <1>1, <1>4, <1>5, <1>6, <1>7 DEF WindowEntries
<1> QED BY <1>8 DEF entries

(* What stands on a response altered on its way.                           *)
IsWindowOf(r, n, es) ==
    /\ r.size = n /\ r.root = Merkle(0, n) /\ r.from \in Nat /\ r.to \in Nat
    /\ r.entries \in Seq(es)

LEMMA WithoutIsASequence ==
    ASSUME NEW E, NEW s \in Seq(E), NEW j \in DOMAIN s
    PROVE  Without(s, j) \in Seq(E)
<1>1. Len(s) - 1 \in Nat /\ s \in [1 .. Len(s) -> E] /\ j \in 1 .. Len(s)
  OBVIOUS
<1>2. \A i \in 1 .. Len(s) - 1 : s[IF i < j THEN i ELSE i + 1] \in E
  BY <1>1
<1>3. Without(s, j) \in [1 .. Len(s) - 1 -> E]
  BY <1>2 DEF Without
<1> QED BY <1>1, <1>3

LEMMA ExchangedIsASequence ==
    ASSUME NEW E, NEW s \in Seq(E), NEW i \in DOMAIN s, NEW j \in DOMAIN s
    PROVE  Exchanged(s, i, j) \in Seq(E)
<1>1. Len(s) \in Nat /\ s \in [1 .. Len(s) -> E] /\ i \in 1 .. Len(s) /\ j \in 1 .. Len(s)
  OBVIOUS
<1>2. Exchanged(s, i, j) \in [1 .. Len(s) -> E]
  BY <1>1 DEF Exchanged
<1> QED BY <1>1, <1>2

LEMMA AlteredEntriesAreEntries ==
    ASSUME NEW es \in Seq([index : Nat, leaf : {LeafHash(m) : m \in Nat}]), NEW size \in Nat
    PROVE  /\ AlteredEntries(es, size) \subseteq Seq([index : Nat, leaf : {LeafHash(m) : m \in Nat}])
           /\ \A d \in Nat : Later(es, d) \in Seq([index : Nat, leaf : {LeafHash(m) : m \in Nat}])
<1> DEFINE E == [index : Nat, leaf : {LeafHash(m) : m \in Nat}]
<1>1. /\ \A e \in E, m \in Nat : [e EXCEPT !.leaf = LeafHash(m)] \in E
      /\ \A e \in E, m \in Nat : [e EXCEPT !.index = m] \in E
      /\ \A e \in E, d \in Nat : [e EXCEPT !.index = @ + d] \in E
  OBVIOUS
<1> HIDE DEF E
<1>2. es \in Seq(E)
  BY DEF E
<1>3. Len(es) \in Nat /\ DOMAIN es = 1 .. Len(es) /\ es \in [1 .. Len(es) -> E]
  BY <1>2
<1>4. ASSUME NEW j \in DOMAIN es PROVE Without(es, j) \in Seq(E) /\ Append(es, es[j]) \in Seq(E)
  BY <1>2, <1>3, WithoutIsASequence
<1>5. ASSUME NEW j \in DOMAIN es, NEW m \in 0 .. size
      PROVE  [es EXCEPT ![j].leaf = LeafHash(m)] \in Seq(E) /\ [es EXCEPT ![j].index = m] \in Seq(E)
  <2>1. \A e \in E : [es EXCEPT ![j] = e] \in Seq(E)
    <3>1. \A e \in E : [es EXCEPT ![j] = e] \in [1 .. Len(es) -> E]
      BY <1>3
    <3>2. \A f \in [1 .. Len(es) -> E] : f \in Seq(E)
      BY <1>3
    <3> QED BY ONLY <3>1, <3>2
  <2>2. es[j] \in E /\ m \in Nat
    BY <1>3
  <2>3. [es[j] EXCEPT !.leaf = LeafHash(m)] \in E /\ [es[j] EXCEPT !.index = m] \in E
    BY ONLY <1>1, <2>2
  <2> QED BY <2>1, <2>3
<1>6. ASSUME NEW i \in DOMAIN es, NEW j \in DOMAIN es PROVE Exchanged(es, i, j) \in Seq(E)
  BY <1>2, ExchangedIsASequence
<1>7. AlteredEntries(es, size) \subseteq Seq(E)
  <2> DEFINE shorter == {Without(es, j) : j \in DOMAIN es}
             longer == {Append(es, es[j]) : j \in DOMAIN es}
             Replaced(j, m) == [es EXCEPT ![j].leaf = LeafHash(m)]
             Renumbered(j, m) == [es EXCEPT ![j].index = m]
             replaced == {Replaced(j, m) : j \in DOMAIN es, m \in 0 .. size}
             renumbered == {Renumbered(j, m) : j \in DOMAIN es, m \in 0 .. size}
             exchanged == {Exchanged(es, i, j) : i, j \in DOMAIN es}
  <2>1. AlteredEntries(es, size) = shorter \cup longer \cup replaced \cup renumbered \cup exchanged
    BY ONLY TRUE DEF AlteredEntries
  <2>2. shorter \subseteq Seq(E)
    BY <1>4
  <2>3. longer \subseteq Seq(E)
    BY <1>4
  <2> HIDE DEF Replaced, Renumbered
  <2>4. replaced \subseteq Seq(E)
    <3>1. \A j \in DOMAIN es, m \in 0 .. size : Replaced(j, m) \in Seq(E)
      BY <1>5 DEF Replaced
    <3> QED BY ONLY <3>1
  <2>5. renumbered \subseteq Seq(E)
    <3>1. \A j \in DOMAIN es, m \in 0 .. size : Renumbered(j, m) \in Seq(E)
      BY <1>5 DEF Renumbered
    <3> QED BY ONLY <3>1
  <2>6. exchanged \subseteq Seq(E)
    BY <1>6
  <2> HIDE DEF shorter, longer, replaced, renumbered, exchanged
  <2> QED BY ONLY <2>1, <2>2, <2>3, <2>4, <2>5, <2>6
<1>8. ASSUME NEW d \in Nat PROVE Later(es, d) \in Seq(E)
  <2>1. \A j \in DOMAIN es : [es[j] EXCEPT !.index = @ + d] \in E
    BY <1>1, <1>3
  <2>2. Later(es, d) \in [1 .. Len(es) -> E]
    BY <1>3, <2>1 DEF Later
  <2>3. \A f \in [1 .. Len(es) -> E] : f \in Seq(E)
    BY <1>3
  <2> QED BY ONLY <2>2, <2>3
<1> QED BY <1>7, <1>8 DEF E

LEMMA AlteredStillIsOne ==
    ASSUME NEW n \in Nat \ {0}, NEW from \in Nat, NEW to \in Nat, from < to, to <= n,
           NEW r, r.size = n, r.root = Merkle(0, n), r.from = from, r.to = to,
           r.entries = WindowEntries(from, to),
           r = [ size |-> r.size, root |-> r.root, from |-> r.from, to |-> r.to,
                 entries |-> r.entries, proof |-> r.proof ],
           NEW a \in Altered(r)
    PROVE  IsWindowOf(a, n, [index : Nat, leaf : {LeafHash(m) : m \in Nat}])
<1> DEFINE E == [index : Nat, leaf : {LeafHash(m) : m \in Nat}]
           es == r.entries
<1>1. es \in Seq(E)
  <2>1. ASSUME NEW j \in 1 .. to - from
        PROVE  [index |-> from + j - 1, leaf |-> LeafHash(from + j - 1)] \in E
    <3>1. from + j - 1 \in Nat
      OBVIOUS
    <3> QED BY ONLY <3>1
  <2> HIDE DEF E
  <2>2. es \in [1 .. to - from -> E]
    BY <2>1 DEF WindowEntries
  <2>3. to - from \in Nat
    OBVIOUS
  <2> QED BY <2>2, <2>3
<1>2. /\ AlteredEntries(es, r.size) \subseteq Seq(E)
      /\ \A d \in Nat : Later(es, d) \in Seq(E)
  BY <1>1, AlteredEntriesAreEntries
<1> HIDE DEF E
<1>3. ASSUME \E f \in AlteredEntries(es, r.size) : a = [r EXCEPT !.entries = f]
      PROVE  IsWindowOf(a, n, E)
  BY <1>2, <1>3 DEF IsWindowOf
<1>4. ASSUME \E nodes : a = [r EXCEPT !.proof.nodes = nodes]
      PROVE  IsWindowOf(a, n, E)
  BY <1>1, <1>4 DEF IsWindowOf
<1>5. ASSUME \E d \in 0 .. r.size : a = [r EXCEPT !.from = @ + d, !.to = @ + d, !.entries = Later(@, d)]
      PROVE  IsWindowOf(a, n, E)
  <2>1. PICK d \in 0 .. r.size : a = [r EXCEPT !.from = @ + d, !.to = @ + d, !.entries = Later(@, d)]
    BY <1>5
  <2>2. d \in Nat /\ from + d \in Nat /\ to + d \in Nat
    OBVIOUS
  <2>3. Later(es, d) \in Seq(E)
    BY <1>2, <2>2
  <2>4. /\ a.size = n /\ a.root = Merkle(0, n) /\ a.from = from + d /\ a.to = to + d
        /\ a.entries = Later(es, d)
    BY <2>1
  <2> QED BY <2>2, <2>3, <2>4 DEF IsWindowOf
<1>6. \/ \E f \in AlteredEntries(es, r.size) : a = [r EXCEPT !.entries = f]
      \/ \E nodes : a = [r EXCEPT !.proof.nodes = nodes]
      \/ \E d \in 0 .. r.size : a = [r EXCEPT !.from = @ + d, !.to = @ + d, !.entries = Later(@, d)]
  BY DEF Altered
<1> HIDE DEF es
<1>7. IsWindowOf(a, n, E)
  BY <1>3, <1>4, <1>5, <1>6
<1> QED BY <1>7 DEF E

(* Whatever a response went through on its way, what verifies is the       *)
(* window it names, all of it and nothing else.                            *)
THEOREM OnlyWindowsVerify == Spec => []OnlyTheWindowVerifies
<1>1. TreeInv => OnlyTheWindowVerifies
  <2> SUFFICES ASSUME TreeInv, phase = "up", ~damaged,
                      NEW from \in 0 .. Entries - 1, NEW to \in from + 1 .. Entries,
                      NEW r \in Altered(BuildRange(Tree, Entries, Merkle(0, Entries), from, to).response),
                      VerifyRangeResponse(r)
               PROVE  r.entries = WindowEntries(r.from, r.to)
    BY DEF OnlyTheWindowVerifies, WindowEntries
  <2> DEFINE n == Entries
             built == BuildRange(Tree, n, Merkle(0, n), from, to)
             response == built.response
             L == {LeafHash(m) : m \in Nat}
  <2>1. n \in Nat \ {0} /\ from \in Nat /\ to \in Nat /\ from < to /\ to <= n
    BY DEF TreeInv, LogShape
  <2>2. Asked(n, Merkle(0, n), from, to)
    BY <2>1 DEF Asked
  <2>3. AsAsked(built, n, Merkle(0, n), from, to)
    BY <2>1, <2>2, RangesAreRight
  <2>4. /\ response.size = n /\ response.root = Merkle(0, n)
        /\ response.from = from /\ response.to = to
        /\ response.entries = WindowEntries(from, to)
        /\ response = [ size |-> response.size, root |-> response.root,
                        from |-> response.from, to |-> response.to,
                        entries |-> response.entries, proof |-> response.proof ]
    BY <2>3 DEF AsAsked
  <2> HIDE DEF n, built, response
  <2>5. r \in Altered(response)
    BY DEF response, built, n
  <2>6. IsWindowOf(r, n, [index : Nat, leaf : L])
    BY <2>1, <2>4, <2>5, AlteredStillIsOne
  <2> HIDE DEF L
  <2> QED BY <2>1, <2>6, AcceptedIsTheWindow DEF IsWindowOf
<1> QED BY <1>1, TreeInvAlways, PTL
=============================================================================
