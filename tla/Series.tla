------------------------------- MODULE Series -------------------------------
(***************************************************************************)
(* What the mirror reports of its series: which members it can establish   *)
(* from the entries it holds, where the log equivocates, how far the       *)
(* series is gap-free and why no further, and the incorporation bound of   *)
(* an entry index.                                                         *)
(***************************************************************************)
EXTENDS Admission

(* Series order decides the earliest and the latest of some checkpoints.   *)
Earliest(cps) == CHOOSE a \in cps : \A b \in cps : NotAfter(a, b)
Latest(cps) == CHOOSE a \in cps : \A b \in cps : NotAfter(b, a)
Preceding(cps, cp) == {o \in cps : o # cp /\ NotAfter(o, cp)}
OfSize(cps, n) == {cp \in cps : cp.size = n}

(* series_usable_stored: the whole prefix is held, its root recomputes and *)
(* is consistent with the nearest earlier usable member.                   *)
Recomputes(table, cp) == HoldsPrefix(table, cp.size) /\ Root(table, cp.size) = cp.root
(* Mutant: holding the prefix is enough.                                   *)
PrefixHeld(table, cp, usable) == HoldsPrefix(table, cp.size)
Usable(table, cp, usable) ==
    /\ Recomputes(table, cp)
    /\ usable # {} => IsRestriction(Latest(usable).root, cp.root)

(* find_root_divergences, and the lowest of them.  Without a divergence    *)
(* the floor is beyond every size.                                         *)
Divergences(cps) ==
    {cp.size : cp \in {a \in cps : \E b \in OfSize(cps, a.size) : b.root # a.root}}
NoFloor == MaxTreeSize + 1
(* Mutant: the highest divergence.                                         *)
Ceiling(cps) == IF Divergences(cps) = {} THEN NoFloor ELSE Max(Divergences(cps))
Floor(cps) == Min(Divergences(cps) \cup {NoFloor})

(* Each usable member with the one before it, and the governance of that   *)
(* one's log; the opening member stands before itself.                     *)
Intervals(table, usable) ==
    {[prev |-> pair[1], cp |-> pair[2], governance |-> Walk(Root(table, pair[1].size))] :
        pair \in {p \in usable \X usable :
            IF Preceding(usable, p[2]) = {} THEN p[1] = p[2]
            ELSE p[1] = Latest(Preceding(usable, p[2]))}}

(* The opening member must come within one genesis cadence of the epoch.   *)
StartsInWindow(genesis, cp) ==
    cp.time >= genesis.epoch /\ cp.time - genesis.epoch <= genesis.cadence

(* compute_gap_free_frontier at one interval: what keeps the series from   *)
(* reaching its later member.                                              *)
Obstacle(i, floor) ==
    LET opening == i.prev = i.cp IN
    IF floor <= i.cp.size THEN "equivocation"
    ELSE IF i.cp.time < i.prev.time THEN "decreasing_time"
    ELSE IF i.governance.aborted THEN "refused"
    ELSE IF ~Established(i.governance) THEN "governance_unresolvable"
    ELSE IF opening /\ ~StartsInWindow(i.governance.versions[1], i.cp) THEN "no_valid_start"
    ELSE IF i.cp.time - i.prev.time > Governing(i.governance).cadence THEN "cadence_exceeded"
    ELSE "none"

(* series_view, once the usable members and the floor are known: the       *)
(* frontier is the last member before any obstacle (0 for none), and the   *)
(* first obstacle is why the series stops there.                           *)
SeriesView(table, usable, floor) ==
    LET stopped == {i \in Intervals(table, usable) : Obstacle(i, floor) # "none"}
        reached == {cp \in usable : \A i \in stopped : ~NotAfter(i.cp, cp)}
    IN  [ usable |-> usable,
          floor |-> floor,
          frontier |-> Max({cp.size : cp \in reached} \cup {0}),
          stop |-> IF stopped # {}
                   THEN Obstacle(CHOOSE i \in stopped : \A j \in stopped : NotAfter(i.cp, j.cp), floor)
                   ELSE IF floor < NoFloor THEN "equivocation" ELSE "none" ]

(* checkpoint::itub: the bound, as a set of at most one checkpoint.        *)
(* Mutant: the latest checkpoint of the smallest size.                     *)
LaxItub(view, index) ==
    LET covering == {cp \in view.usable : index < cp.size /\ cp.size <= view.frontier} IN
    IF covering = {} THEN {} ELSE {Latest(OfSize(covering, Earliest(covering).size))}
Itub(view, index) ==
    LET covering == {cp \in view.usable : index < cp.size /\ cp.size <= view.frontier} IN
    IF covering = {} THEN {} ELSE {Earliest(covering)}
=============================================================================
