----------------------------- MODULE TreeStore ------------------------------
(***************************************************************************)
(* The tree material through the life of a database: extended by each      *)
(* promotion, brought up to date on open by a migration that writes row by *)
(* row outside any transaction, and lost in part behind the store's back.  *)
(* The process may die at any moment; the database stays.  Promotions are  *)
(* single steps here, being one transaction (Mirror has it open).          *)
(***************************************************************************)
EXTENDS TreeProofs

CONSTANTS MaxEntries,      \* bound: entries of the log
          BackfillBatch    \* BACKFILL_BATCH

ASSUME TreeStoreAssumption ==
    /\ MaxEntries \in Nat
    /\ BackfillBatch \in Nat \ {0}

VARIABLES
    leaf,      \* entries.leaf_hash; NoHash where it is NULL
    roots,     \* subtree_roots
    phase,     \* where the process is: down, in the migration, or up
    batch,     \* backfill_leaf_hashes: the rows still to update
    fold,      \* rebuild_subtree_cache: level, current and next
    damaged    \* history: a row was lost since the store was last opened

vars == <<leaf, roots, phase, batch, fold, damaged>>

Tree == [leaf |-> leaf, roots |-> roots]
Entries == Cardinality(DOMAIN leaf)
NoFold == [level |-> 0, current |-> <<>>, next |-> <<>>]

(* A database written before leaf_hash and subtree_roots existed, or a new *)
(* one.                                                                    *)
Init ==
    /\ \E n \in 0 .. MaxEntries : leaf = [i \in 0 .. n - 1 |-> NoHash]
    /\ roots = [node \in {} |-> NoHash]
    /\ phase = "down"
    /\ batch = {} /\ fold = NoFold
    /\ damaged = FALSE

-----------------------------------------------------------------------------
(* Store::open.                                                            *)

(* from_connection: the schema and the added column change no row.         *)
OpenStore ==
    /\ phase = "down"
    /\ phase' = "backfill"
    /\ UNCHANGED <<leaf, roots, batch, fold, damaged>>

(* backfill_leaf_hashes: the next rows that have no leaf hash.             *)
(* Mutant: the rows are selected whatever they hold.                       *)
AnyRow == DOMAIN leaf
Missing == {i \in DOMAIN leaf : leaf[i] = NoHash}
FirstRows(rows) == {i \in rows : Cardinality({j \in rows : j < i}) < BackfillBatch}
SelectBatch ==
    /\ phase = "backfill" /\ batch = {}
    /\ batch' = FirstRows(Missing)
    /\ phase' = IF batch' = {} THEN "check" ELSE "backfill"
    /\ UNCHANGED <<leaf, roots, fold, damaged>>

(* One UPDATE, committed by itself, in ascending order.                    *)
BackfillRow ==
    /\ phase = "backfill" /\ batch # {}
    /\ LET i == CHOOSE i \in batch : \A j \in batch : i <= j
       IN  /\ leaf' = [leaf EXCEPT ![i] = LeafHash(i)]
           /\ batch' = batch \ {i}
    /\ UNCHANGED <<roots, phase, fold, damaged>>

(* rebuild_subtree_cache_if_incomplete: n entries complete            *)
(* n \div Width[l] nodes at level l, which is none from level n on.        *)
Population(n) ==
    LET upTo[l \in Nat] == IF l = 0 THEN 0 ELSE upTo[l - 1] + n \div Width[l] IN upTo[n]
(* Mutant: the shape is checked and the rows are not counted.              *)
ShapeOnly(tree, n) == SubtreeCachePresent(tree, n)
CacheComplete(tree, n) ==
    /\ Cardinality(DOMAIN tree.roots) = Population(n)
    /\ SubtreeCachePresent(tree, n)
CheckCache ==
    /\ phase = "check"
    /\ IF CacheComplete(Tree, Entries)
       THEN phase' = "up" /\ damaged' = FALSE
       ELSE phase' = "rebuild" /\ UNCHANGED damaged
    /\ UNCHANGED <<leaf, roots, batch, fold>>

(* rebuild_subtree_cache: DELETE, then the leaf hashes are read.  Fewer    *)
(* than two leave nothing to fold.                                         *)
LeafHashes == [j \in 1 .. Entries |-> leaf[j - 1]]
DeleteRoots ==
    /\ phase = "rebuild" /\ fold = NoFold
    /\ roots' = [node \in {} |-> NoHash]
    /\ IF Entries >= 2
       THEN /\ fold' = [level |-> 1, current |-> LeafHashes, next |-> <<>>]
            /\ UNCHANGED <<phase, damaged>>
       ELSE phase' = "up" /\ damaged' = FALSE /\ UNCHANGED fold
    /\ UNCHANGED <<leaf, batch>>

(* One INSERT, committed by itself: the next pair of the level.  The last  *)
(* pair of a level makes next the current level.                           *)
(* Mutant: the pairs overlap.                                              *)
OverlappingPair(f) == HashChildren(f.current[Len(f.next) + 1], f.current[Len(f.next) + 2])
Pair(f) == HashChildren(f.current[2 * Len(f.next) + 1], f.current[2 * Len(f.next) + 2])
InsertRoot ==
    /\ phase = "rebuild" /\ fold # NoFold
    /\ LET next == Append(fold.next, Pair(fold))
           levelDone == 2 * (Len(next) + 1) > Len(fold.current)
       IN  /\ roots' = Upsert(roots, [node \in {<<fold.level, Len(fold.next)>>} |-> Pair(fold)])
           /\ IF ~levelDone
              THEN fold' = [fold EXCEPT !.next = next] /\ UNCHANGED <<phase, damaged>>
              ELSE IF Len(next) >= 2
              THEN /\ fold' = [level |-> fold.level + 1, current |-> next, next |-> <<>>]
                   /\ UNCHANGED <<phase, damaged>>
              ELSE fold' = NoFold /\ phase' = "up" /\ damaged' = FALSE
    /\ UNCHANGED <<leaf, batch>>

-----------------------------------------------------------------------------
(* promote_entry_raw appending a staged entry.  A missing child fails it,  *)
(* and the transaction takes the entry back: nothing happens.              *)
Appended == Upsert(leaf, [i \in {Entries} |-> LeafHash(i)])
Promote ==
    /\ phase = "up" /\ Entries < MaxEntries
    /\ ChildrenStored([Tree EXCEPT !.leaf = Appended], Entries + 1)
    /\ leaf' = Appended
    /\ roots' = Upsert(roots, CompletedRoots([Tree EXCEPT !.leaf = Appended], Entries + 1))
    /\ UNCHANGED <<phase, batch, fold, damaged>>

(* A row of subtree_roots disappears behind the store's back: one between  *)
(* two openings.                                                           *)
LoseRow ==
    /\ phase \in {"up", "down"} /\ ~damaged
    /\ \E node \in DOMAIN roots :
           roots' = [other \in DOMAIN roots \ {node} |-> roots[other]]
    /\ damaged' = TRUE
    /\ UNCHANGED <<leaf, phase, batch, fold>>

(* The process dies, or is stopped, and what it had in memory is gone.     *)
Crash ==
    /\ phase # "down"
    /\ phase' = "down"
    /\ batch' = {} /\ fold' = NoFold
    /\ UNCHANGED <<leaf, roots, damaged>>

Migrate == SelectBatch \/ BackfillRow \/ CheckCache \/ DeleteRoots \/ InsertRoot
Next == OpenStore \/ Migrate \/ Promote \/ LoseRow \/ Crash

Spec == Init /\ [][Next]_vars

(* Opening is one thread running alone: it goes on while the process lives.*)
FairSpec == Spec /\ WF_vars(Migrate)

-----------------------------------------------------------------------------
(* Properties.                                                             *)

Hash(level, index) == Merkle(index * Width[level], Width[level])

(* Whatever was interrupted, no row is ever wrong: a leaf hash is NULL or  *)
(* that of its entry, and a row of subtree_roots is a complete subtree of  *)
(* the log under its own level and index.                                  *)
RowsAreTheLogs ==
    /\ \A i \in DOMAIN leaf : leaf[i] \in {NoHash, LeafHash(i)}
    /\ DOMAIN roots \subseteq CompleteNodes(Entries)
    /\ \A node \in DOMAIN roots : roots[node] = Hash(node[1], node[2])

(* The migration never lets a store up with part of its tree material: an  *)
(* interrupted backfill, an interrupted rebuild and a lost row are noticed *)
(* at the next open, and promotions keep the cache complete from then on.  *)
OpenedComplete ==
    phase = "up" => /\ Missing = {}
                    /\ ~damaged => DOMAIN roots = CompleteNodes(Entries)

(* An entry becomes canonical only with every subtree it completes, also   *)
(* when a row below has been lost (a_failed_cache_write_rolls_the_         *)
(* promotion_back).                                                        *)
PromotionIsWhole ==
    [][Entries' > Entries =>
           CompleteNodes(Entries') \ CompleteNodes(Entries) \subseteq DOMAIN roots']_vars

(* A root is the log's and costs one node for each one bit of its size, a *)
(* consistency path leads from the earlier root to the later one, and an   *)
(* inclusion path from the leaf to the root, or none of them is served:    *)
(* nothing is recomputed from below a lost row.  Without a lost row none   *)
(* is refused.                                                             *)
ProofsRightOrRefused ==
    phase = "up" =>
        \A n \in 1 .. Entries : \A m \in 1 .. n :
            LET root == Open(Tree, 0, n)
                consistency == ConsistencyProof(Tree, m, n)
                inclusion == InclusionProof(Tree, m - 1, n)
            IN  /\ ~damaged => root.ok /\ consistency.ok /\ inclusion.ok
                /\ root.ok => root.hash = Merkle(0, n) /\ root.reads = CountOnes(n)
                /\ consistency.ok =>
                       RootsOfSubproof(m, n, consistency.nodes, Merkle(0, m))
                           = <<Merkle(0, m), Merkle(0, n)>>
                /\ inclusion.ok => RootOfPath(m - 1, n, inclusion.nodes) = Merkle(0, n)

(* A range is served only under the root of the leaves held, for a window  *)
(* inside them, and then verifies; every node it reports as read was one,  *)
(* and no other was.  Without a lost row such a request is not refused.    *)
RangesRightOrRefused ==
    phase = "up" =>
        \A n \in 1 .. Entries + 1, from, to \in 0 .. Entries + 1 :
        \A root \in {Merkle(0, n), NoHash} :
            LET built == BuildRange(Tree, n, root, from, to)
                asked == n <= Entries /\ from < to /\ to <= n /\ root = Merkle(0, n)
            IN  /\ built.ok => /\ asked
                               /\ VerifyRangeResponse(built.response)
                               /\ \A j \in DOMAIN built.spans :
                                      built.opened[j].reads = CountOnes(built.spans[j][2])
                /\ asked /\ ~damaged => built.ok

(* A response altered on its way: an entry gone, doubled, replaced or      *)
(* renumbered, two exchanged, a node gone or exchanged, or everything but  *)
(* the proof relabelled to a later window.                                 *)
Without(s, j) == [i \in 1 .. Len(s) - 1 |-> s[IF i < j THEN i ELSE i + 1]]
Exchanged(s, i, j) == [s EXCEPT ![i] = s[j], ![j] = s[i]]
AlteredEntries(es, size) ==
    {Without(es, j) : j \in DOMAIN es}
        \cup {Append(es, es[j]) : j \in DOMAIN es}
        \cup {[es EXCEPT ![j].leaf = LeafHash(m)] : j \in DOMAIN es, m \in 0 .. size}
        \cup {[es EXCEPT ![j].index = m] : j \in DOMAIN es, m \in 0 .. size}
        \cup {Exchanged(es, i, j) : i, j \in DOMAIN es}
AlteredNodes(nodes) ==
    {Without(nodes, j) : j \in DOMAIN nodes} \cup {Exchanged(nodes, i, j) : i, j \in DOMAIN nodes}
Later(es, d) == [j \in DOMAIN es |-> [es[j] EXCEPT !.index = @ + d]]
Altered(r) ==
    {[r EXCEPT !.entries = es] : es \in AlteredEntries(r.entries, r.size)}
        \cup {[r EXCEPT !.proof.nodes = nodes] : nodes \in AlteredNodes(r.proof.nodes)}
        \cup {[r EXCEPT !.from = @ + d, !.to = @ + d, !.entries = Later(@, d)] : d \in 0 .. r.size}

(* What verify_range_response accepts is the window: whatever was altered, *)
(* the entries are those of the log at the indices they carry, all of them.*)
OnlyTheWindowVerifies ==
    phase = "up" /\ ~damaged =>
        \A from \in 0 .. Entries - 1 : \A to \in from + 1 .. Entries :
        \A r \in Altered(BuildRange(Tree, Entries, Merkle(0, Entries), from, to).response) :
            VerifyRangeResponse(r) =>
                r.entries = [j \in 1 .. r.to - r.from |->
                                [index |-> r.from + j - 1, leaf |-> LeafHash(r.from + j - 1)]]

(* Opening ends: once the process stays alive, the store comes up and      *)
(* stays up.                                                               *)
OpeningEnds == <>[](phase # "down") => <>[](phase = "up")
=============================================================================
