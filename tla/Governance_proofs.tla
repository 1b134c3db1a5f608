------------------------- MODULE Governance_proofs -------------------------
(***************************************************************************)
(* What the pure parts do on every log and for any checkpoints.            *)
(*                                                                         *)
(* The governance walk of module Governance is a fold of WalkStep, so it   *)
(* is known from the walk of the prefix one entry shorter; it never takes  *)
(* back a version; statements nobody in force signed leave no trace.  The  *)
(* walk is a recursive function, and that there is such a function is the  *)
(* first thing proved.                                                     *)
(*                                                                         *)
(* In the view of the series (module Series), series order picks a member, *)
(* the floor only sinks, what recomputes keeps recomputing, and no bound   *)
(* lies at or past the floor.                                              *)
(***************************************************************************)
EXTENDS Series, FiniteSetTheorems, TLAPS

-----------------------------------------------------------------------------
(* Intervals of naturals.                                                  *)

(* A finite set of naturals closed downwards is an interval from 0.        *)
LEMMA DownwardClosedIsInterval ==
    ASSUME NEW S, IsFiniteSet(S), S \subseteq Nat, \A k \in S : 0 .. k \subseteq S
    PROVE  Cardinality(S) \in Nat /\ S = 0 .. Cardinality(S) - 1
<1> DEFINE n == Cardinality(S)
<1>1. n \in Nat
  BY FS_CardinalityType
<1>2. \A k \in S : k < n
  <2> SUFFICES ASSUME NEW k \in S, k >= n PROVE FALSE
    BY <1>1
  <2>1. 0 .. k \in SUBSET S /\ k \in Nat
    OBVIOUS
  <2>2. Cardinality(0 .. k) <= n
    BY <2>1, FS_Subset
  <2>3. Cardinality(0 .. k) = k + 1
    BY <2>1, FS_Interval
  <2> QED BY <2>1, <2>2, <2>3, <1>1
<1>3. S \in SUBSET (0 .. n - 1)
  BY <1>1, <1>2
<1> HIDE DEF n
<1>4. IsFiniteSet(0 .. n - 1) /\ Cardinality(0 .. n - 1) = n
  BY <1>1, FS_Interval
<1> USE DEF n
<1>5. S = 0 .. n - 1
  BY <1>3, <1>4, FS_Subset
<1> QED BY <1>1, <1>5

(* A finite set of naturals has a largest member.                          *)
LEMMA GreatestNatural ==
    ASSUME NEW S \in SUBSET Nat, IsFiniteSet(S), S # {}
    PROVE  \E n \in S : \A m \in S : m <= n
<1> DEFINE up == [s \in S |-> 0 .. s]
           ups == {0 .. s : s \in S}
           upto == UNION ups
           len == Cardinality(upto)
<1>1. IsFiniteSet(ups)
  <2>1. up \in Surjection(S, ups)
    BY DEF Surjection
  <2> QED BY <2>1, FS_Surjection
<1>2. \A T \in ups : IsFiniteSet(T)
  BY FS_Interval
<1>3. IsFiniteSet(upto)
  <2> HIDE DEF ups
  <2> QED BY <1>1, <1>2, FS_UNION
<1>4. /\ upto \subseteq Nat
      /\ \A k \in upto : 0 .. k \subseteq upto
      /\ S \subseteq upto
      /\ \A k \in upto : \E s \in S : k <= s
  OBVIOUS
<1> HIDE DEF upto
<1>5. len \in Nat /\ upto = 0 .. len - 1
  BY <1>3, <1>4, DownwardClosedIsInterval
<1> HIDE DEF len
<1>6. PICK k \in S : k \in upto
  BY <1>4
<1>6a. len > 0 /\ len - 1 \in upto
  BY <1>5, <1>6
<1>7. PICK s \in S : len - 1 <= s
  BY <1>4, <1>6a
<1>8. s = len - 1 /\ \A m \in S : m <= len - 1
  BY <1>4, <1>5, <1>7
<1> QED BY <1>8

-----------------------------------------------------------------------------
(* The walk as a recursive function.                                       *)

(* The walk after n entries, from what it was before the last of them.     *)
RunValue(log, g, n) ==
    IF n = 0 THEN Unestablished
    ELSE CHOOSE t \in {WalkStep(s, e, n - 1) : s \in {g[n - 1]}, e \in {log[n - 1]}} : TRUE

Order == INSTANCE Order_proofs WITH Value <- RunValue

(* g is the table of the walk over the first n entries of a log: what the  *)
(* recursive function in Walk is defined to be.                            *)
IsRun(g, log, n) == g = [k \in 0 .. n |-> RunValue(log, g, k)]

(* The same, entry by entry.                                               *)
LEMMA RunByEntry ==
    ASSUME NEW log, NEW n \in Nat, NEW g
    PROVE  IsRun(g, log, n) <=>
              /\ g = [k \in 0 .. n |-> g[k]]
              /\ g[0] = Unestablished
              /\ \A k \in 1 .. n : g[k] = WalkStep(g[k - 1], log[k - 1], k - 1)
<1>1. ASSUME NEW s, NEW e, NEW k
      PROVE  (CHOOSE t \in {WalkStep(x, y, k) : x \in {s}, y \in {e}} : TRUE) = WalkStep(s, e, k)
  <2>1. {WalkStep(x, y, k) : x \in {s}, y \in {e}} = {WalkStep(s, e, k)}
    OBVIOUS
  <2> QED BY <2>1
<1> DEFINE Step(k) == CHOOSE t \in {WalkStep(s, e, k - 1) : s \in {g[k - 1]}, e \in {log[k - 1]}} : TRUE
<1>2. \A k : Step(k) = WalkStep(g[k - 1], log[k - 1], k - 1)
  BY <1>1
<1>3. IsRun(g, log, n) <=> g = [k \in 0 .. n |-> IF k = 0 THEN Unestablished ELSE Step(k)]
  BY DEF IsRun, RunValue
<1> HIDE DEF Step
<1> QED BY <1>2, <1>3

(* There is a run over every prefix length.                                *)
LEMMA RunExists ==
    ASSUME NEW log
    PROVE  \A n \in Nat : \E g : IsRun(g, log, n)
<1> SUFFICES ASSUME NEW n \in Nat PROVE \E g : IsRun(g, log, n)
  OBVIOUS
<1>1. Order!LooksBelow(log, 0 .. n)
  <2> SUFFICES ASSUME NEW k \in 0 .. n, NEW f, NEW g, \A m \in 0 .. n : m < k => f[m] = g[m]
               PROVE  RunValue(log, f, k) = RunValue(log, g, k)
    BY DEF Order!LooksBelow
  <2>1. k = 0 \/ f[k - 1] = g[k - 1]
    OBVIOUS
  <2> QED BY <2>1 DEF RunValue
<1>2. 0 .. n \in SUBSET Nat
  OBVIOUS
<1>3. \E g : Order!IsRecursive(log, 0 .. n, g)
  BY <1>1, <1>2, Order!RecursiveFunction
<1> QED BY <1>3 DEF Order!IsRecursive, IsRun

(* Runs over logs that agree on their first n entries agree that far.      *)
LEMMA RunsAgree ==
    ASSUME NEW a, NEW b, NEW p \in Nat, NEW q \in Nat, NEW n \in Nat,
           n <= p, n <= q, \A i \in 0 .. n - 1 : a[i] = b[i],
           NEW g, IsRun(g, a, p), NEW h, IsRun(h, b, q)
    PROVE  g[n] = h[n]
<1> DEFINE S == {k \in Nat : k <= n => g[k] = h[k]}
<1>1. g[0] = Unestablished /\ \A k \in 1 .. p : g[k] = WalkStep(g[k - 1], a[k - 1], k - 1)
  BY RunByEntry
<1>2. h[0] = Unestablished /\ \A k \in 1 .. q : h[k] = WalkStep(h[k - 1], b[k - 1], k - 1)
  BY RunByEntry
<1>3. 0 \in S
  BY <1>1, <1>2
<1>4. ASSUME NEW k \in S PROVE k + 1 \in S
  <2> SUFFICES ASSUME k + 1 <= n PROVE g[k + 1] = h[k + 1]
    OBVIOUS
  <2>1. g[k] = h[k] /\ a[k] = b[k] /\ k + 1 - 1 = k /\ k + 1 \in 1 .. p /\ k + 1 \in 1 .. q
    OBVIOUS
  <2>2. g[k + 1] = WalkStep(g[k], a[k], k)
    BY <2>1, <1>1
  <2>3. h[k + 1] = WalkStep(h[k], b[k], k)
    BY <2>1, <1>2
  <2> QED BY <2>1, <2>2, <2>3
<1> HIDE DEF S
<1>5. \A k \in Nat : k \in S
  <2>1. S \in SUBSET Nat
    BY DEF S
  <2> QED BY <1>3, <1>4, <2>1, Order!EveryNatural
<1> QED BY <1>5 DEF S

-----------------------------------------------------------------------------
(* The first n entries of a log, and the state of the walk after them.     *)
PrefixOf(log, n) == [i \in 0 .. n - 1 |-> log[i]]
WalkTo(log, n) == Walk(PrefixOf(log, n))

(* The walk reads its answer off a run.                                    *)
LEMMA WalkReadsARun ==
    ASSUME NEW log, NEW n \in Nat, DOMAIN log = 0 .. n - 1, NEW g, IsRun(g, log, n)
    PROVE  Walk(log) = g[n]
<1> DEFINE length == Cardinality(DOMAIN log)
           table == CHOOSE h : IsRun(h, log, length)
<1>1. length = n
  BY FS_Interval
<1>2. Walk(log) = table[length]
  BY DEF Walk, IsRun, RunValue
<1> HIDE DEF length
<1>3. IsRun(table, log, n)
  BY <1>1
<1> HIDE DEF table
<1>4. table[n] = g[n]
  <2>1. n <= n /\ \A i \in 0 .. n - 1 : log[i] = log[i]
    OBVIOUS
  <2> QED BY <2>1, <1>3, RunsAgree
<1> QED BY <1>1, <1>2, <1>4

(* A log is all of its entries.                                            *)
LEMMA WalkIsWalkTo ==
    ASSUME NEW log, NEW n \in Nat, log = [i \in 0 .. n - 1 |-> log[i]]
    PROVE  Walk(log) = WalkTo(log, n)
BY DEF WalkTo, PrefixOf

(* Before the first entry nothing is established.                          *)
LEMMA WalkToNothing ==
    ASSUME NEW log
    PROVE  WalkTo(log, 0) = Unestablished
<1> DEFINE l == PrefixOf(log, 0)
<1>1. PICK g : IsRun(g, l, 0)
  BY RunExists
<1>2. DOMAIN l = 0 .. 0 - 1
  BY DEF PrefixOf
<1> HIDE DEF l
<1>3. Walk(l) = g[0] /\ g[0] = Unestablished
  BY <1>1, <1>2, WalkReadsARun, RunByEntry
<1> QED BY <1>3 DEF WalkTo, l

(* Each further entry is one step of the walk.                             *)
LEMMA WalkToOneMore ==
    ASSUME NEW log, NEW n \in Nat
    PROVE  WalkTo(log, n + 1) = WalkStep(WalkTo(log, n), log[n], n)
<1> DEFINE short == PrefixOf(log, n)
           long == PrefixOf(log, n + 1)
<1>1. n + 1 \in Nat
  OBVIOUS
<1>2. PICK g : IsRun(g, short, n)
  BY RunExists
<1>3. PICK h : IsRun(h, long, n + 1)
  BY <1>1, RunExists
<1>4. DOMAIN short = 0 .. n - 1 /\ DOMAIN long = 0 .. n + 1 - 1
  BY DEF PrefixOf
<1>5. long[n] = log[n] /\ \A i \in 0 .. n - 1 : short[i] = long[i]
  BY DEF PrefixOf
<1> HIDE DEF short, long
<1>6. Walk(short) = g[n] /\ Walk(long) = h[n + 1]
  BY <1>1, <1>2, <1>3, <1>4, WalkReadsARun
<1>7. g[n] = h[n]
  <2>1. n <= n /\ n <= n + 1
    OBVIOUS
  <2>2. \A i \in 0 .. n - 1 : short[i] = long[i]
    BY <1>5
  <2> QED BY ONLY <2>1, <1>1, <1>2, <1>3, <2>2, n \in Nat, RunsAgree
<1>8. h[n + 1] = WalkStep(h[n], long[n], n)
  <2>1. n + 1 \in 1 .. n + 1 /\ n + 1 - 1 = n
    OBVIOUS
  <2> QED BY <2>1, <1>1, <1>3, RunByEntry
<1> QED BY <1>5, <1>6, <1>7, <1>8 DEF WalkTo, short, long

-----------------------------------------------------------------------------
(* One step of the walk.                                                   *)

SomeVersion == {Version(e, i, o) : e \in Entry, i \in Nat, o \in Nat}

IsWalkState(s) ==
    /\ s = [aborted |-> s.aborted, versions |-> s.versions, producers |-> s.producers]
    /\ s.aborted \in BOOLEAN
    /\ s.versions \in Seq(SomeVersion)

(* A statement whose signatures the walk looks at: one of the two kinds,   *)
(* and the configured manifest where nothing governs yet.                  *)
Examines(s, e) ==
    /\ ~s.aborted
    /\ Statement[e].type \in {"manifest", "key"}
    /\ ~Established(s) => e = Genesis /\ Statement[e].type = "manifest"

(* One it judges, for a key in force signed it; and one that ends it.      *)
Judges(s, e, index) == Examines(s, e) /\ Readable(e) /\ Authentic(s, e, index)
Ends(s, e, index) ==
    \/ Examines(s, e) /\ ~Readable(e)
    \/ Judges(s, e, index) /\ ~Statement[e].current

(* A manifest is what its place calls for.                                 *)
InPlace(s, e) ==
    Statement[e].type = "manifest" =>
        /\ Statement[e].wellFormed
        /\ IF Established(s)
           THEN /\ Statement[e].predecessor = Governing(s).entry
                /\ Statement[e].epoch = Governing(s).epoch
           ELSE Statement[e].predecessor = NoEntry

NewVersion(s, e, index) ==
    Version(e, index, IF Established(s) THEN Governing(s).genesis ELSE index)

(* A step leaves the state alone, aborts, installs a version or applies a  *)
(* key statement, and which of them is decided by those questions.         *)
LEMMA StepCases ==
    ASSUME NEW s, NEW e, NEW index
    PROVE  /\ ~Judges(s, e, index) /\ ~Ends(s, e, index) => WalkStep(s, e, index) = s
           /\ Ends(s, e, index) => WalkStep(s, e, index) = Abort(s)
           /\ Judges(s, e, index) /\ Statement[e].current /\ ~InPlace(s, e) =>
                WalkStep(s, e, index) = s
           /\ /\ Judges(s, e, index) /\ Statement[e].current /\ InPlace(s, e)
              /\ Statement[e].type = "manifest"
              => WalkStep(s, e, index) = Install(s, e, NewVersion(s, e, index))
           /\ Judges(s, e, index) /\ Statement[e].current /\ Statement[e].type = "key" =>
                WalkStep(s, e, index) = ApplyKey(s, e, index)
<1> DEFINE type == Statement[e].type
<1>1. CASE s.aborted
  BY <1>1 DEF Examines, Judges, Ends, WalkStep
<1>2. CASE ~s.aborted /\ type = "manifest" /\ ~Established(s)
  <2>1. WalkStep(s, e, index) = ApplyGenesis(s, e, index)
    BY <1>2 DEF WalkStep
  <2> QED BY <1>2, <2>1 DEF Examines, Judges, Ends, InPlace, NewVersion, ApplyGenesis
<1>3. CASE ~s.aborted /\ type = "manifest" /\ Established(s)
  <2>1. WalkStep(s, e, index) = ApplySuccessor(s, e, index)
    BY <1>3 DEF WalkStep
  <2> QED BY <1>3, <2>1 DEF Examines, Judges, Ends, InPlace, NewVersion, ApplySuccessor
<1>4. CASE ~s.aborted /\ type = "key" /\ Established(s)
  <2>1. WalkStep(s, e, index) = ApplyKey(s, e, index)
    BY <1>4 DEF WalkStep
  <2>2. type # "manifest"
    BY <1>4
  <2> QED BY <1>4, <2>1, <2>2 DEF Examines, Judges, Ends, InPlace, ApplyKey
<1>5. CASE ~s.aborted /\ type # "manifest" /\ ~(type = "key" /\ Established(s))
  <2>1. WalkStep(s, e, index) = s
    BY <1>5 DEF WalkStep
  <2> QED BY <1>5, <2>1 DEF Examines, Judges, Ends
<1> QED BY <1>1, <1>2, <1>3, <1>4, <1>5

(* A step keeps the shape of the state, adds at most one version, at its   *)
(* own index and of the one epoch, and changes nothing once aborted.       *)
LEMMA StepShape ==
    ASSUME NEW s, IsWalkState(s), NEW e \in Entry, NEW index \in Nat,
           NEW t, t = WalkStep(s, e, index)
    PROVE  /\ IsWalkState(t)
           /\ s.aborted => t = s
           /\ \/ t.versions = s.versions
              \/ /\ t.aborted = s.aborted
                 /\ t.versions = Append(s.versions, NewVersion(s, e, index))
                 /\ NewVersion(s, e, index) \in SomeVersion
<1>1. CASE t = s
  BY <1>1
<1>2. CASE ~s.aborted /\ t = Abort(s)
  BY <1>2 DEF Abort, IsWalkState
<1>3. CASE ~s.aborted /\ t = Install(s, e, NewVersion(s, e, index))
  <2>1. NewVersion(s, e, index) \in SomeVersion
    <3>1. CASE Established(s)
      <4>1. Governing(s) \in SomeVersion
        <5>1. s.versions \in Seq(SomeVersion) /\ Len(s.versions) \in DOMAIN s.versions
          BY <3>1 DEF IsWalkState, Established
        <5> QED BY <5>1 DEF Governing
      <4>2. Governing(s).genesis \in Nat
        BY <4>1 DEF SomeVersion, Version
      <4> QED BY <3>1, <4>2 DEF NewVersion, SomeVersion
    <3>2. CASE ~Established(s)
      BY <3>2 DEF NewVersion, SomeVersion
    <3> QED BY <3>1, <3>2
  <2> DEFINE v == NewVersion(s, e, index)
             keys == ListToMap(Statement[e].producers)
  <2>2. t = [aborted |-> s.aborted, versions |-> Append(s.versions, v), producers |-> keys]
    BY <1>3 DEF Install, IsWalkState
  <2> HIDE DEF v, keys
  <2>3. Append(s.versions, v) \in Seq(SomeVersion)
    BY <2>1 DEF IsWalkState, v
  <2> QED BY <1>3, <2>1, <2>2, <2>3 DEF IsWalkState, v
<1>4. CASE ~s.aborted /\ t = ApplyKey(s, e, index)
  <2>1. \E keys : t = s \/ t = Abort(s) \/ t = [s EXCEPT !.producers = keys]
    BY <1>4 DEF ApplyKey
  <2> QED BY <1>4, <2>1 DEF Abort, IsWalkState
<1>5. ~s.aborted \/ t = s
  BY StepCases DEF Examines, Judges, Ends
<1> QED BY <1>1, <1>2, <1>3, <1>4, <1>5, StepCases DEF Examines, Judges, Ends

-----------------------------------------------------------------------------
(* The walk of a log of entries.                                           *)

(* t has at least the versions of s, in their order, and stays aborted.    *)
Extends(t, s) ==
    /\ Len(s.versions) <= Len(t.versions)
    /\ \A v \in 1 .. Len(s.versions) : t.versions[v] = s.versions[v]
    /\ s.aborted => t = s

(* Every entry leaves a state of the right shape.                          *)
LEMMA WalkShape ==
    ASSUME NEW n \in Nat, NEW log, \A i \in 0 .. n - 1 : log[i] \in Entry
    PROVE  \A k \in 0 .. n : IsWalkState(WalkTo(log, k))
<1> DEFINE S == {k \in Nat : k <= n => IsWalkState(WalkTo(log, k))}
<1>1. 0 \in S
  <2>1. IsWalkState(Unestablished)
    BY DEF IsWalkState, Unestablished
  <2> QED BY <2>1, WalkToNothing
<1>2. ASSUME NEW k \in S PROVE k + 1 \in S
  <2> SUFFICES ASSUME k + 1 <= n PROVE IsWalkState(WalkTo(log, k + 1))
    OBVIOUS
  <2>1. log[k] \in Entry /\ IsWalkState(WalkTo(log, k)) /\ k \in Nat
    OBVIOUS
  <2>2. WalkTo(log, k + 1) = WalkStep(WalkTo(log, k), log[k], k)
    BY <2>1, WalkToOneMore
  <2> QED BY <2>1, <2>2, StepShape
<1> HIDE DEF S
<1>3. \A k \in Nat : k \in S
  <2>1. S \in SUBSET Nat
    BY DEF S
  <2> QED BY <1>1, <1>2, <2>1, Order!EveryNatural
<1> QED BY <1>3 DEF S

(* A version is of an entry walked.                                        *)
LEMMA WalkIndices ==
    ASSUME NEW n \in Nat, NEW log, \A i \in 0 .. n - 1 : log[i] \in Entry,
           NEW k \in 0 .. n, NEW vs, vs = WalkTo(log, k).versions, NEW v \in 1 .. Len(vs)
    PROVE  vs[v].index \in 0 .. k - 1
<1> DEFINE versions(j) == WalkTo(log, j).versions
           good(j) == \A w \in 1 .. Len(versions(j)) : versions(j)[w].index \in 0 .. j - 1
           S == {j \in Nat : j <= n => good(j)}
<1>1. 0 \in S
  <2>1. versions(0) = <<>>
    BY WalkToNothing DEF Unestablished
  <2> QED BY <2>1
<1>2. ASSUME NEW j \in S PROVE j + 1 \in S
  <2> SUFFICES ASSUME j + 1 <= n PROVE good(j + 1)
    OBVIOUS
  <2> DEFINE s == WalkTo(log, j)
             t == WalkTo(log, j + 1)
  <2>1. j \in Nat /\ j \in 0 .. n /\ log[j] \in Entry /\ good(j)
    OBVIOUS
  <2>2. IsWalkState(s)
    BY <2>1, WalkShape
  <2>3. t = WalkStep(s, log[j], j)
    BY <2>1, WalkToOneMore
  <2> HIDE DEF s, t
  <2>4. \/ t.versions = s.versions
        \/ t.versions = Append(s.versions, NewVersion(s, log[j], j))
    BY <2>1, <2>2, <2>3, StepShape
  <2>5. NewVersion(s, log[j], j).index = j
    BY DEF NewVersion, Version
  <2>6. s.versions \in Seq(SomeVersion)
    BY <2>2 DEF IsWalkState
  <2>7. \A w \in 1 .. Len(s.versions) : s.versions[w].index \in 0 .. j - 1
    BY <2>1 DEF s
  <2> HIDE DEF S
  <2>8. ASSUME NEW w \in 1 .. Len(t.versions) PROVE t.versions[w].index \in 0 .. (j + 1) - 1
    <3>1. CASE t.versions = s.versions
      BY <2>1, <2>7, <3>1
    <3> DEFINE new == NewVersion(s, log[j], j)
    <3>2. CASE t.versions = Append(s.versions, new)
      <4> HIDE DEF new
      <4>1. Len(s.versions) \in Nat /\ Len(t.versions) = Len(s.versions) + 1
        BY <2>6, <3>2
      <4>2. CASE w = Len(s.versions) + 1
        <5>1. t.versions[w] = new
          BY <2>6, <3>2, <4>1, <4>2
        <5> QED BY <2>1, <2>5, <5>1 DEF new
      <4>3. CASE w # Len(s.versions) + 1
        <5>1. w \in 1 .. Len(s.versions) /\ t.versions[w] = s.versions[w]
          BY <2>6, <3>2, <4>1, <4>3
        <5> QED BY <2>1, <2>7, <5>1
      <4> QED BY <4>2, <4>3
    <3> QED BY <2>4, <3>1, <3>2
  <2> QED BY <2>8 DEF t
<1> HIDE DEF S
<1>3. \A j \in Nat : j \in S
  <2>1. S \in SUBSET Nat
    BY DEF S
  <2> QED BY <1>1, <1>2, <2>1, Order!EveryNatural
<1> QED BY <1>3 DEF S

(* One step takes nothing back.                                            *)
LEMMA StepExtends ==
    ASSUME NEW s, IsWalkState(s), NEW e \in Entry, NEW index \in Nat
    PROVE  Extends(WalkStep(s, e, index), s)
<1> DEFINE t == WalkStep(s, e, index)
<1>1. IsWalkState(t) /\ (s.aborted => t = s)
  BY StepShape
<1>2. CASE t.versions = s.versions
  <2>1. Len(s.versions) \in Nat
    BY DEF IsWalkState
  <2> QED BY <1>1, <1>2, <2>1 DEF Extends
<1>3. CASE \E v \in SomeVersion : t.versions = Append(s.versions, v)
  <2>1. s.versions \in Seq(SomeVersion)
    BY DEF IsWalkState
  <2> HIDE DEF t
  <2>2. Extends(t, s)
    BY <1>1, <1>3, <2>1 DEF Extends
  <2> QED BY <2>2 DEF t
<1> QED BY <1>2, <1>3, StepShape

(* A longer log takes back nothing a shorter one established.              *)
LEMMA WalkExtends ==
    ASSUME NEW n \in Nat, NEW log, \A i \in 0 .. n - 1 : log[i] \in Entry, NEW m \in 0 .. n
    PROVE  Extends(WalkTo(log, n), WalkTo(log, m))
<1> DEFINE S == {k \in Nat : m + k <= n => Extends(WalkTo(log, m + k), WalkTo(log, m))}
<1>1. 0 \in S
  <2>1. IsWalkState(WalkTo(log, m)) /\ m + 0 = m
    BY WalkShape
  <2> QED BY <2>1 DEF IsWalkState, Extends
<1>2. ASSUME NEW k \in S PROVE k + 1 \in S
  <2> SUFFICES ASSUME m + (k + 1) <= n
               PROVE  Extends(WalkTo(log, m + (k + 1)), WalkTo(log, m))
    OBVIOUS
  <2> DEFINE s == WalkTo(log, m)
             t == WalkTo(log, m + k)
             u == WalkTo(log, m + (k + 1))
  <2>1. log[m + k] \in Entry /\ m + k \in 0 .. n /\ m + k \in Nat /\ m + (k + 1) = (m + k) + 1
    OBVIOUS
  <2>2. u = WalkStep(t, log[m + k], m + k)
    BY <2>1, WalkToOneMore
  <2>3. IsWalkState(t) /\ IsWalkState(s) /\ IsWalkState(u)
    BY <2>1, WalkShape
  <2>4. Extends(u, t) /\ Extends(t, s)
    BY <2>1, <2>2, <2>3, StepExtends
  <2> HIDE DEF s, t, u
  <2>5. Len(s.versions) \in Nat /\ Len(t.versions) \in Nat /\ Len(u.versions) \in Nat
    BY <2>3 DEF IsWalkState
  <2>6. Extends(u, s)
    <3>1. s.aborted => u = s
      BY <2>4 DEF Extends
    <3>2. /\ Len(s.versions) <= Len(t.versions) /\ Len(t.versions) <= Len(u.versions)
          /\ \A v \in 1 .. Len(s.versions) : t.versions[v] = s.versions[v]
          /\ \A v \in 1 .. Len(t.versions) : u.versions[v] = t.versions[v]
      BY <2>4 DEF Extends
    <3>3. Len(s.versions) <= Len(u.versions)
      BY <2>5, <3>2
    <3>4. \A v \in 1 .. Len(s.versions) : v \in 1 .. Len(t.versions)
      BY <2>5, <3>2
    <3>5. \A v \in 1 .. Len(s.versions) : u.versions[v] = s.versions[v]
      BY <3>2, <3>4
    <3> QED BY <3>1, <3>3, <3>5 DEF Extends
  <2> QED BY <2>6 DEF s, u
<1> HIDE DEF S
<1>3. \A k \in Nat : k \in S
  <2>1. S \in SUBSET Nat
    BY DEF S
  <2> QED BY <1>1, <1>2, <2>1, Order!EveryNatural
<1>4. n - m \in Nat /\ m + (n - m) = n
  OBVIOUS
<1> QED BY <1>3, <1>4 DEF S

(* The rotations of a walk are read off its versions, so a walk that       *)
(* extends another has the other's rotations.                              *)
LEMMA RotationsKept ==
    ASSUME NEW short, NEW long, Extends(Walk(long), Walk(short)),
           IsWalkState(Walk(short)), IsWalkState(Walk(long))
    PROVE  Rotations(short) \subseteq Rotations(long)
<1> DEFINE vs == Versions(short)
           ws == Versions(long)
<1>1. /\ vs \in Seq(SomeVersion) /\ ws \in Seq(SomeVersion)
      /\ Len(vs) <= Len(ws) /\ \A v \in 1 .. Len(vs) : ws[v] = vs[v]
  BY DEF Extends, IsWalkState, Versions
<1>2. SUFFICES ASSUME NEW i \in {j \in 1 .. Len(vs) - 1 : Rotates(vs[j + 1], vs[j])}
               PROVE  /\ i \in {j \in 1 .. Len(ws) - 1 : Rotates(ws[j + 1], ws[j])}
                      /\ ws[i + 1] = vs[i + 1] /\ ws[i] = vs[i]
  <2> HIDE DEF vs, ws
  <2>1. Rotations(short) = {[index |-> vs[i + 1].index, outgoing |-> vs[i]] :
                              i \in {j \in 1 .. Len(vs) - 1 : Rotates(vs[j + 1], vs[j])}}
    BY DEF Rotations, vs
  <2>2. Rotations(long) = {[index |-> ws[i + 1].index, outgoing |-> ws[i]] :
                              i \in {j \in 1 .. Len(ws) - 1 : Rotates(ws[j + 1], ws[j])}}
    BY DEF Rotations, ws
  <2> QED BY <1>2, <2>1, <2>2
<1> HIDE DEF vs, ws
<1>3. Len(vs) \in Nat /\ Len(ws) \in Nat
  BY <1>1
<1>4. i \in 1 .. Len(vs) /\ i + 1 \in 1 .. Len(vs) /\ i \in 1 .. Len(ws) - 1
  BY <1>1, <1>2, <1>3
<1>5. ws[i + 1] = vs[i + 1] /\ ws[i] = vs[i]
  BY <1>1, <1>4
<1> QED BY <1>2, <1>4, <1>5

(* The walk of the first m entries of a log of n.                          *)
LEMMA PrefixWalk ==
    ASSUME NEW n \in Nat, NEW log \in [0 .. n - 1 -> Entry], NEW m \in 0 .. n,
           NEW short, short = [i \in 0 .. m - 1 |-> log[i]]
    PROVE  /\ IsWalkState(Walk(short)) /\ IsWalkState(Walk(log))
           /\ Extends(Walk(log), Walk(short))
           /\ Rotations(short) \subseteq Rotations(log)
<1>1. Walk(log) = WalkTo(log, n) /\ Walk(short) = WalkTo(log, m)
  BY WalkIsWalkTo DEF WalkTo, PrefixOf
<1>2. \A i \in 0 .. n - 1 : log[i] \in Entry
  OBVIOUS
<1>3. IsWalkState(Walk(short)) /\ IsWalkState(Walk(log)) /\ Extends(Walk(log), Walk(short))
  BY <1>1, <1>2, WalkShape, WalkExtends, SMTT(20)
<1> QED BY <1>3, RotationsKept

(* A log whose entries agree with another's below n has its walk that far. *)
LEMMA WalkToAgrees ==
    ASSUME NEW a, NEW b, NEW n \in Nat, \A i \in 0 .. n - 1 : a[i] = b[i]
    PROVE  WalkTo(a, n) = WalkTo(b, n)
<1>1. PrefixOf(a, n) = PrefixOf(b, n)
  BY DEF PrefixOf
<1> QED BY <1>1 DEF WalkTo

-----------------------------------------------------------------------------
(* Checkpoints, so far as series order is about them.                      *)
Sized(cps) == \A cp \in cps : cp.size \in Nat /\ cp.time \in Nat

-----------------------------------------------------------------------------
(* Series order.                                                           *)

(* Some checkpoints have an earliest.                                      *)
LEMMA EarliestExists ==
    ASSUME NEW cps, Sized(cps), cps # {}
    PROVE  Earliest(cps) \in cps /\ \A b \in cps : NotAfter(Earliest(cps), b)
<1> DEFINE sizes == {cp.size : cp \in cps}
<1>1. PICK n \in sizes : \A m \in sizes : n <= m
  BY Order!LeastNatural DEF Sized
<1> DEFINE times == {cp.time : cp \in {o \in cps : o.size = n}}
<1>2. PICK t \in times : \A u \in times : t <= u
  <2>1. times \in SUBSET Nat /\ times # {}
    BY <1>1 DEF Sized
  <2> HIDE DEF times
  <2> QED BY <2>1, Order!LeastNatural
<1>3. PICK a \in cps : a.size = n /\ a.time = t
  BY <1>2
<1>4. \A b \in cps : b.size \in Nat /\ n \in Nat /\ n <= b.size /\ (b.size = n => t <= b.time)
  BY <1>1, <1>2 DEF Sized
<1> HIDE DEF sizes, times
<1>5. \A b \in cps : NotAfter(a, b)
  BY <1>3, <1>4 DEF NotAfter
<1> QED BY <1>3, <1>5 DEF Earliest

(* Finitely many checkpoints have a latest.                                *)
LEMMA LatestExists ==
    ASSUME NEW cps, Sized(cps), cps # {}, IsFiniteSet(cps)
    PROVE  Latest(cps) \in cps /\ \A b \in cps : NotAfter(b, Latest(cps))
<1> DEFINE sizes == {cp.size : cp \in cps}
<1>1. PICK n \in sizes : \A m \in sizes : m <= n
  <2>1. sizes \in SUBSET Nat /\ sizes # {}
    BY DEF Sized
  <2>2. IsFiniteSet(sizes)
    <3>1. [cp \in cps |-> cp.size] \in Surjection(cps, sizes)
      BY DEF Surjection
    <3> HIDE DEF sizes
    <3> QED BY <3>1, FS_Surjection
  <2> HIDE DEF sizes
  <2> QED BY <2>1, <2>2, GreatestNatural
<1> DEFINE largest == {o \in cps : o.size = n}
           times == {cp.time : cp \in largest}
<1>2. PICK t \in times : \A u \in times : u <= t
  <2>1. times \in SUBSET Nat /\ times # {}
    BY <1>1 DEF Sized
  <2>2. IsFiniteSet(times)
    <3>1. IsFiniteSet(largest)
      BY FS_Subset
    <3>2. [cp \in largest |-> cp.time] \in Surjection(largest, times)
      BY DEF Surjection
    <3> HIDE DEF times, largest
    <3> QED BY <3>1, <3>2, FS_Surjection
  <2> HIDE DEF times
  <2> QED BY <2>1, <2>2, GreatestNatural
<1>3. PICK a \in cps : a.size = n /\ a.time = t
  BY <1>2
<1>4. \A b \in cps : NotAfter(b, a)
  BY <1>1, <1>2, <1>3 DEF NotAfter, Sized
<1> QED BY <1>3, <1>4 DEF Latest

-----------------------------------------------------------------------------
(* The floor.                                                              *)

(* The floor is the lowest divergence, or beyond every size.               *)
LEMMA FloorIsLowest ==
    ASSUME NEW cps, Sized(cps)
    PROVE  /\ Floor(cps) \in Divergences(cps) \cup {NoFloor}
           /\ Floor(cps) \in 0 .. NoFloor
           /\ \A d \in Divergences(cps) : Floor(cps) <= d
<1> DEFINE S == Divergences(cps) \cup {NoFloor}
<1>1. S \in SUBSET Nat /\ NoFloor \in S /\ NoFloor \in Nat
  BY MaxTreeSizeAssumption DEF Divergences, NoFloor, Sized
<1>2. \E n \in S : \A m \in S : n <= m
  <2> HIDE DEF S
  <2> QED BY <1>1, Order!LeastNatural
<1>3. Floor(cps) \in S /\ \A m \in S : Floor(cps) <= m
  BY <1>2 DEF Floor, Min
<1> QED BY <1>1, <1>3

(* More checkpoints never raise the floor.                                 *)
LEMMA FloorOnlySinks ==
    ASSUME NEW more, Sized(more), NEW cps \in SUBSET more
    PROVE  Floor(more) <= Floor(cps)
<1>1. Sized(cps)
  BY DEF Sized
<1>2. Divergences(cps) \subseteq Divergences(more)
  BY DEF Divergences, OfSize
<1>3. CASE Floor(cps) = NoFloor
  BY <1>3, FloorIsLowest, MaxTreeSizeAssumption DEF NoFloor
<1>4. CASE Floor(cps) # NoFloor
  BY <1>1, <1>2, <1>4, FloorIsLowest
<1> QED BY <1>3, <1>4

-----------------------------------------------------------------------------
(* Usable members.                                                         *)

(* What recomputes over a table recomputes over all that extend it.        *)
LEMMA RecomputesGrows ==
    ASSUME NEW table, NEW longer, IsRestriction(table, longer),
           NEW cp, Recomputes(table, cp)
    PROVE  Recomputes(longer, cp) /\ Root(longer, cp.size) = Root(table, cp.size)
<1>1. 0 .. cp.size - 1 \subseteq DOMAIN table
  BY DEF Recomputes, HoldsPrefix
<1>2. \A i \in 0 .. cp.size - 1 : i \in DOMAIN longer /\ longer[i] = table[i]
  BY <1>1 DEF IsRestriction
<1>3. Root(longer, cp.size) = Root(table, cp.size)
  BY <1>2 DEF Root, Restrict
<1> QED BY <1>2, <1>3 DEF Recomputes, HoldsPrefix

(* Of two checkpoints that recompute, the smaller is a prefix of the other.*)
LEMMA RecomputesAgree ==
    ASSUME NEW table, NEW a, NEW b, Recomputes(table, a), Recomputes(table, b),
           a.size \in Nat, b.size \in Nat, a.size <= b.size
    PROVE  IsRestriction(a.root, b.root)
<1>1. a.root = [i \in 0 .. a.size - 1 |-> table[i]]
  BY DEF Recomputes, Root, Restrict
<1>2. b.root = [i \in 0 .. b.size - 1 |-> table[i]]
  BY DEF Recomputes, Root, Restrict
<1>3. 0 .. a.size - 1 \subseteq 0 .. b.size - 1
  OBVIOUS
<1> QED BY <1>1, <1>2, <1>3 DEF IsRestriction

(* Scanned in series order, a member is usable exactly if it recomputes.   *)
LEMMA UsableDecides ==
    ASSUME NEW table, NEW cp, cp.size \in Nat, cp.time \in Nat,
           NEW usable, Sized(usable), IsFiniteSet(usable),
           \A o \in usable : NotAfter(o, cp) /\ Recomputes(table, o)
    PROVE  Usable(table, cp, usable) <=> Recomputes(table, cp)
<1>1. CASE usable = {}
  BY <1>1 DEF Usable
<1>2. CASE usable # {}
  <2> DEFINE last == Latest(usable)
  <2>1. last \in usable
    BY <1>2, LatestExists
  <2> HIDE DEF last
  <2>2. last.size \in Nat /\ last.size <= cp.size /\ Recomputes(table, last)
    BY <2>1 DEF NotAfter, Sized
  <2>3. Recomputes(table, cp) => IsRestriction(last.root, cp.root)
    BY <2>2, RecomputesAgree
  <2> QED BY <2>3 DEF Usable, last
<1> QED BY <1>1, <1>2

-----------------------------------------------------------------------------
(* The view.                                                               *)

(* Every usable member ends an interval that usable members bound.         *)
LEMMA IntervalsCover ==
    ASSUME NEW table, NEW usable, Sized(usable), IsFiniteSet(usable)
    PROVE  /\ \A cp \in usable : \E i \in Intervals(table, usable) : i.cp = cp
           /\ \A i \in Intervals(table, usable) :
                /\ i.cp \in usable /\ i.prev \in usable
                /\ i.governance = Walk(Root(table, i.prev.size))
<1> DEFINE fits(pair) == IF Preceding(usable, pair[2]) = {} THEN pair[1] = pair[2]
                         ELSE pair[1] = Latest(Preceding(usable, pair[2]))
           interval(p, c) == [prev |-> p, cp |-> c, governance |-> Walk(Root(table, p.size))]
<1>1. \A p \in usable, c \in usable : fits(<<p, c>>) => interval(p, c) \in Intervals(table, usable)
  BY DEF Intervals
<1>2. \A i \in Intervals(table, usable) : \E p \in usable, c \in usable : i = interval(p, c)
  BY DEF Intervals
<1>3. ASSUME NEW cp \in usable
      PROVE  \E p \in usable : fits(<<p, cp>>)
  <2>1. CASE Preceding(usable, cp) = {}
    BY <2>1
  <2>2. CASE Preceding(usable, cp) # {}
    <3> DEFINE before == Preceding(usable, cp)
    <3>1. before \in SUBSET usable
      BY DEF Preceding
    <3>2. Sized(before) /\ IsFiniteSet(before)
      BY <3>1, FS_Subset DEF Sized
    <3>3. Latest(before) \in before
      BY <2>2, <3>2, LatestExists
    <3> QED BY <2>2, <3>1, <3>3
  <2> QED BY <2>1, <2>2
<1>4. \A cp \in usable : \E i \in Intervals(table, usable) : i.cp = cp
  <2> HIDE DEF fits
  <2> QED BY <1>1, <1>3
<1>5. \A p, c : /\ interval(p, c).cp = c /\ interval(p, c).prev = p
                /\ interval(p, c).governance = Walk(Root(table, p.size))
  OBVIOUS
<1> HIDE DEF interval
<1>6. \A i \in Intervals(table, usable) :
        /\ i.cp \in usable /\ i.prev \in usable
        /\ i.governance = Walk(Root(table, i.prev.size))
  BY <1>2, <1>5
<1> QED BY <1>4, <1>6

(* The frontier is a size, and stays below the floor.                      *)
LEMMA FrontierBelowFloor ==
    ASSUME NEW table, NEW usable, Sized(usable), IsFiniteSet(usable), NEW floor \in Nat
    PROVE  LET frontier == SeriesView(table, usable, floor).frontier
           IN  frontier \in Nat /\ (frontier = 0 \/ frontier < floor)
<1> DEFINE stopped == {i \in Intervals(table, usable) : Obstacle(i, floor) # "none"}
           reached == {c \in usable : \A i \in stopped : ~NotAfter(i.cp, c)}
           sizes == {c.size : c \in reached} \cup {0}
<1>1. SeriesView(table, usable, floor).frontier = Max(sizes)
  BY DEF SeriesView
<1>2. \A c \in reached : c.size < floor
  <2> SUFFICES ASSUME NEW c \in reached, floor <= c.size PROVE FALSE
    BY DEF Sized
  <2>1. PICK i \in Intervals(table, usable) : i.cp = c
    BY IntervalsCover
  <2>2. Obstacle(i, floor) = "equivocation"
    BY <2>1 DEF Obstacle
  <2>3. NotAfter(c, c)
    BY DEF NotAfter, Sized
  <2> QED BY <2>1, <2>2, <2>3
<1>3. Max(sizes) \in sizes
  <2>1. sizes \in SUBSET Nat /\ 0 \in sizes
    BY DEF Sized
  <2>2. IsFiniteSet(sizes)
    <3>1. IsFiniteSet(reached)
      BY FS_Subset
    <3>2. [c \in reached |-> c.size] \in Surjection(reached, {c.size : c \in reached})
      BY DEF Surjection
    <3> HIDE DEF reached
    <3>3. IsFiniteSet({c.size : c \in reached})
      BY <3>1, <3>2, FS_Surjection
    <3> QED BY <3>3, FS_AddElement
  <2> HIDE DEF sizes
  <2>3. PICK n \in sizes : \A m \in sizes : m <= n
    BY <2>1, <2>2, GreatestNatural
  <2>4. n \in sizes /\ \A m \in sizes : n >= m
    BY <2>1, <2>3
  <2> QED BY <2>4 DEF Max
<1>4. \A c \in reached : c.size \in Nat
  BY DEF Sized
<1> HIDE DEF reached
<1>5. Max(sizes) \in Nat /\ (Max(sizes) = 0 \/ Max(sizes) < floor)
  BY <1>2, <1>3, <1>4
<1> HIDE DEF sizes
<1> QED BY <1>1, <1>5

(* A bound is the earliest usable member that covers its index up to the   *)
(* frontier, and lies below the floor.                                     *)
LEMMA BoundBelowFloor ==
    ASSUME NEW table, NEW usable, Sized(usable), IsFiniteSet(usable),
           NEW floor \in Nat, NEW index \in Nat,
           NEW cp \in Itub(SeriesView(table, usable, floor), index)
    PROVE  /\ cp \in usable /\ cp.size < floor /\ index < cp.size
           /\ cp.size <= SeriesView(table, usable, floor).frontier
           /\ \A o \in usable :
                (index < o.size /\ o.size <= SeriesView(table, usable, floor).frontier) =>
                    NotAfter(cp, o)
<1> DEFINE view == SeriesView(table, usable, floor)
           covering == {c \in view.usable : index < c.size /\ c.size <= view.frontier}
<1>1. view.usable = usable
  BY DEF SeriesView
<1>2. view.frontier \in Nat /\ (view.frontier = 0 \/ view.frontier < floor)
  BY FrontierBelowFloor
<1> HIDE DEF view
<1>3. Sized(covering)
  BY <1>1 DEF Sized
<1>4. covering # {} /\ cp = Earliest(covering)
  BY DEF Itub, view
<1>5. cp \in covering /\ \A o \in covering : NotAfter(cp, o)
  BY <1>3, <1>4, EarliestExists
<1>6. cp \in usable /\ index < cp.size /\ cp.size <= view.frontier /\ cp.size \in Nat
  BY <1>1, <1>5 DEF Sized
<1>7. \A o \in usable : (index < o.size /\ o.size <= view.frontier) => NotAfter(cp, o)
  BY <1>1, <1>5
<1> HIDE DEF covering
<1>8. cp.size < floor
  BY <1>2, <1>6
<1> QED BY <1>6, <1>7, <1>8 DEF view

(* A view is refused only for a statement that ends the walk under a       *)
(* usable member.                                                          *)
LEMMA RefusedForAStatement ==
    ASSUME NEW table, NEW usable, Sized(usable), IsFiniteSet(usable), NEW floor \in Nat,
           SeriesView(table, usable, floor).stop = "refused"
    PROVE  \E cp \in usable : Walk(Root(table, cp.size)).aborted
<1> DEFINE stopped == {i \in Intervals(table, usable) : Obstacle(i, floor) # "none"}
           first == CHOOSE i \in stopped : \A j \in stopped : NotAfter(i.cp, j.cp)
<1>1. stopped # {} /\ Obstacle(first, floor) = "refused"
  BY DEF SeriesView
<1>2. first \in stopped
  <2> DEFINE ends == {i.cp : i \in stopped}
  <2>1. Sized(ends) /\ ends # {}
    BY <1>1, IntervalsCover DEF Sized
  <2>2. Earliest(ends) \in ends /\ \A b \in ends : NotAfter(Earliest(ends), b)
    <3> HIDE DEF ends
    <3> QED BY <2>1, EarliestExists
  <2>3. PICK i \in stopped : i.cp = Earliest(ends)
    BY <2>2
  <2>4. \A j \in stopped : NotAfter(i.cp, j.cp)
    BY <2>2, <2>3
  <2> HIDE DEF stopped
  <2> QED BY <2>4
<1> HIDE DEF first
<1>3. first.governance.aborted
  BY <1>1 DEF Obstacle
<1>4. first.prev \in usable /\ first.governance = Walk(Root(table, first.prev.size))
  BY <1>2, IntervalsCover
<1> QED BY <1>3, <1>4

-----------------------------------------------------------------------------
(* The prefix a checkpoint is judged by: once its batch is promoted, it is *)
(* the first rows of the table.                                            *)
LEMMA VisibleIsHeld ==
    ASSUME NEW cp \in Published, NEW batch, NEW table, NEW n \in 0 .. cp.size,
           HoldsPrefix(table, n), NEW grown, IsRestriction(table, grown),
           \A x \in DOMAIN batch : AlreadyPresent(grown, batch[x])
    PROVE  \E m \in 0 .. cp.size :
                /\ HoldsPrefix(grown, m)
                /\ VisiblePrefix(cp, batch, Root(table, n)) = Root(grown, m)
<1> DEFINE size == cp.size
           len == Cardinality(DOMAIN Root(table, n))
           relevant == Relevant(cp, batch, len)
           supplied == {batch[x].index : x \in relevant}
           reach == {i \in 0 .. size - 1 : i < len \/ len .. i \subseteq supplied}
           claim(i) == CHOOSE x \in relevant : batch[x].index = i
           m == Cardinality(reach)
<1>1. VisiblePrefix(cp, batch, Root(table, n)) =
        [i \in reach |-> IF i < len THEN Root(table, n)[i] ELSE batch[claim(i)].entry]
  BY DEF VisiblePrefix
<1> HIDE DEF relevant
<1>2. size \in Nat /\ n \in Nat /\ n <= size
  <2>1. cp.size \in Nat
    BY SubmissionAssumption DEF Published, IsCheckpoint
  <2> QED BY <2>1
<1>3. DOMAIN Root(table, n) = 0 .. n - 1 /\ \A i \in 0 .. n - 1 : Root(table, n)[i] = table[i]
  BY DEF Root, Restrict
<1>4. len = n
  <2>1. Cardinality(0 .. n - 1) = n
    <3>1. 0 \in Int /\ n - 1 \in Int
      BY <1>2
    <3> HIDE DEF size, len, reach
    <3> QED BY ONLY <1>2, <3>1, FS_Interval
  <2> QED BY <1>3, <2>1
<1> HIDE DEF len
<1>5. relevant \subseteq DOMAIN batch
  BY DEF relevant, Relevant
<1>6. \A x \in DOMAIN batch :
        batch[x].index \in DOMAIN grown /\ grown[batch[x].index] = batch[x].entry
  BY DEF AlreadyPresent
<1>7. \A i \in 0 .. n - 1 : i \in DOMAIN grown /\ grown[i] = table[i]
  BY DEF HoldsPrefix, IsRestriction
<1>8. reach \subseteq Nat /\ IsFiniteSet(reach) /\ \A i \in reach : 0 .. i \subseteq reach
  <2>1. reach \in SUBSET (0 .. size - 1)
    OBVIOUS
  <2>4. IsFiniteSet(0 .. size - 1)
    <3> HIDE DEF size
    <3>1. 0 \in Int /\ size - 1 \in Int
      BY <1>2
    <3> QED BY ONLY <3>1, FS_Interval
  <2>2. IsFiniteSet(reach)
    <3> HIDE DEF reach
    <3> QED BY <2>1, <2>4, FS_Subset
  <2>3. ASSUME NEW i \in reach, NEW j \in 0 .. i PROVE j \in reach
    <3>1. i \in 0 .. size - 1 /\ j \in 0 .. size - 1
      BY <1>2
    <3>2. j < len \/ (~(i < len) /\ len .. j \subseteq len .. i)
      BY <1>2, <1>4, <3>1
    <3> QED BY <3>1, <3>2
  <2> QED BY <2>1, <2>2, <2>3
<1>9. ASSUME NEW i \in reach, ~(i < len)
      PROVE  i \in DOMAIN grown /\ grown[i] = batch[claim(i)].entry
  <2>1. i \in supplied
    <3>1. i \in len .. i
      BY <1>2, <1>4, <1>9
    <3> QED BY <1>9, <3>1
  <2>2. claim(i) \in relevant /\ batch[claim(i)].index = i
    BY <2>1
  <2> HIDE DEF claim
  <2> QED BY <1>5, <1>6, <2>2
<1>10. \A i \in reach : i \in 0 .. size - 1
  OBVIOUS
<1> HIDE DEF reach, claim
<1>11. m \in Nat /\ reach = 0 .. m - 1
  BY <1>8, DownwardClosedIsInterval
<1> HIDE DEF m
<1>12. m \in 0 .. size
  <2>1. m > 0 => m - 1 \in reach
    BY <1>11
  <2> QED BY <1>2, <1>10, <1>11, <2>1
<1>13. ASSUME NEW i \in reach
       PROVE  /\ i \in DOMAIN grown
              /\ grown[i] = IF i < len THEN Root(table, n)[i] ELSE batch[claim(i)].entry
  <2>1. CASE i < len
    <3>1. i \in 0 .. n - 1
      BY <1>2, <1>4, <1>8, <2>1
    <3> QED BY <1>3, <1>7, <2>1, <3>1
  <2>2. CASE ~(i < len)
    BY <1>9, <2>2
  <2> QED BY <2>1, <2>2
<1>14. HoldsPrefix(grown, m)
  BY <1>11, <1>13 DEF HoldsPrefix
<1>15. VisiblePrefix(cp, batch, Root(table, n)) = Root(grown, m)
  BY <1>1, <1>11, <1>13 DEF Root, Restrict
<1> QED BY <1>12, <1>14, <1>15
=============================================================================
