------------------------ MODULE GovernanceLog_proofs ------------------------
(***************************************************************************)
(* What a growing log's governance walk answers is right for any entries,  *)
(* any statements and a log of any length: it takes nothing back, bytes    *)
(* without authority establish nothing (though they may end it), and it    *)
(* agrees with the loop-free account of module GovernanceLog.              *)
(***************************************************************************)
EXTENDS GovernanceLog, Governance_proofs

(* The log holds entries at the indices below its length.                  *)
IInv == \E n \in Nat : log \in [0 .. n - 1 -> Entry]

LEMMA LogLength ==
    ASSUME NEW n \in Nat, log \in [0 .. n - 1 -> Entry]
    PROVE  /\ Cardinality(DOMAIN log) = n /\ DOMAIN log = 0 .. n - 1
           /\ \A k \in 0 .. n - 1 : log[k] \in Entry
           /\ Walk(log) = WalkTo(log, n)
<1>1. DOMAIN log = 0 .. n - 1
  OBVIOUS
<1>2. Cardinality(0 .. n - 1) = n
  BY FS_Interval
<1>3. log = [i \in 0 .. n - 1 |-> log[i]]
  OBVIOUS
<1> QED BY <1>1, <1>2, <1>3, WalkIsWalkTo

LEMMA IInvInit == Init => IInv
<1> SUFFICES ASSUME Init PROVE log \in [0 .. 0 - 1 -> Entry]
  BY DEF IInv
<1>1. 0 .. 0 - 1 = {}
  OBVIOUS
<1>2. log = <<>>
  BY DEF Init
<1>3. <<>> = [i \in {} |-> 0]
  OBVIOUS
<1> QED BY <1>1, <1>2, <1>3

(* An appended entry goes to the end and every other stays.                *)
LEMMA Appended ==
    ASSUME NEW n \in Nat, log \in [0 .. n - 1 -> Entry], NEW e \in Entry, Append1(e)
    PROVE  /\ log' \in [0 .. n -> Entry] /\ n = n + 1 - 1
           /\ log = [i \in 0 .. n - 1 |-> log'[i]]
<1>1. log' = [i \in 0 .. n |-> IF i = n THEN e ELSE log[i]]
  BY LogLength DEF Append1
<1> QED BY <1>1

LEMMA IInvStep == IInv /\ [Next]_log => IInv'
<1> SUFFICES ASSUME IInv, [Next]_log PROVE IInv'
  OBVIOUS
<1>1. PICK n \in Nat : log \in [0 .. n - 1 -> Entry]
  BY DEF IInv
<1>2. CASE UNCHANGED log
  BY <1>1, <1>2 DEF IInv
<1>3. ASSUME NEW e \in Entry, Append1(e) PROVE IInv'
  <2>1. log' \in [0 .. (n + 1) - 1 -> Entry] /\ n + 1 \in Nat
    BY <1>1, <1>3, Appended
  <2> QED BY <2>1 DEF IInv
<1> QED BY <1>2, <1>3 DEF Next

(* The log is contiguous from 0, and holds entries.                        *)
THEOREM LogIsContiguous == Spec => []IInv
  BY IInvInit, IInvStep, PTL DEF Spec

(* What a prefix of the log established stays established, whatever is     *)
(* appended.                                                               *)
THEOREM NothingIsTakenBack == Spec => EstablishedStaysEstablished
<1>1. IInv /\ [Next]_log =>
        [ /\ Len(Versions(log)) <= Len(Versions(log'))
          /\ \A v \in 1 .. Len(Versions(log)) : Versions(log')[v] = Versions(log)[v]
          /\ Rotations(log) \subseteq Rotations(log')
          /\ Aborted(log) => Aborted(log') ]_log
  <2> SUFFICES ASSUME IInv, NEW e \in Entry, Append1(e)
               PROVE  /\ Len(Versions(log)) <= Len(Versions(log'))
                      /\ \A v \in 1 .. Len(Versions(log)) : Versions(log')[v] = Versions(log)[v]
                      /\ Rotations(log) \subseteq Rotations(log')
                      /\ Aborted(log) => Aborted(log')
    BY DEF Next
  <2>1. PICK n \in Nat : log \in [0 .. n - 1 -> Entry]
    BY DEF IInv
  <2>2. log' \in [0 .. (n + 1) - 1 -> Entry] /\ n + 1 \in Nat /\ n \in 0 .. n + 1
    BY <2>1, Appended
  <2>3. Extends(Walk(log'), Walk(log)) /\ Rotations(log) \subseteq Rotations(log')
    BY <2>1, <2>2, Appended, PrefixWalk
  <2> QED BY <2>3 DEF Extends, Versions, Aborted
<1> QED BY <1>1, LogIsContiguous, PTL DEF Spec, EstablishedStaysEstablished

-----------------------------------------------------------------------------
(* An entry the walk passes over can be replaced by any other such.        *)
LEMMA ReplacedUnseen ==
    ASSUME NEW n \in Nat, log \in [0 .. n - 1 -> Entry], NEW i \in 0 .. n - 1, NEW e \in Entry,
           Statement[e].type = "other",
           WalkStep(WalkTo(log, i), log[i], i) = WalkTo(log, i)
    PROVE  Walk([log EXCEPT ![i] = e]) = Walk(log)
<1> DEFINE other == [log EXCEPT ![i] = e]
           S == {k \in Nat : i + 1 + k <= n => WalkTo(other, i + 1 + k) = WalkTo(log, i + 1 + k)}
<1>1. other \in [0 .. n - 1 -> Entry] /\ other[i] = e /\ \A k \in 0 .. n - 1 : k # i => other[k] = log[k]
  OBVIOUS
<1> HIDE DEF other
<1>3. WalkTo(other, i) = WalkTo(log, i)
  <2>1. i \in Nat /\ \A k \in 0 .. i - 1 : other[k] = log[k]
    BY <1>1
  <2> QED BY <2>1, WalkToAgrees
<1>4. 0 \in S
  <2>1. i \in Nat /\ i + 1 + 0 = i + 1
    OBVIOUS
  <2>2. /\ WalkTo(log, i + 1) = WalkStep(WalkTo(log, i), log[i], i)
        /\ WalkTo(other, i + 1) = WalkStep(WalkTo(log, i), e, i)
    BY <2>1, <1>1, <1>3, WalkToOneMore
  <2>3. WalkStep(WalkTo(log, i), e, i) = WalkTo(log, i)
    BY StepCases DEF Examines, Judges, Ends
  <2> QED BY <2>1, <2>2, <2>3
<1>5. ASSUME NEW k \in S PROVE k + 1 \in S
  <2> SUFFICES ASSUME i + 1 + (k + 1) <= n
               PROVE  WalkTo(other, i + 1 + (k + 1)) = WalkTo(log, i + 1 + (k + 1))
    OBVIOUS
  <2> DEFINE m == i + 1 + k
  <2>1. m \in Nat /\ i + 1 + (k + 1) = m + 1 /\ m \in 0 .. n - 1 /\ m # i
    OBVIOUS
  <2>2. WalkTo(other, m) = WalkTo(log, m) /\ other[m] = log[m]
    BY <1>1, <2>1
  <2> HIDE DEF m
  <2> QED BY <2>1, <2>2, WalkToOneMore
<1> HIDE DEF S
<1>6. \A k \in Nat : k \in S
  <2>1. S \in SUBSET Nat
    BY DEF S
  <2> QED BY <1>4, <1>5, <2>1, Order!EveryNatural
<1>7. WalkTo(other, n) = WalkTo(log, n)
  <2>1. n - (i + 1) \in Nat /\ i + 1 + (n - (i + 1)) = n
    OBVIOUS
  <2>2. n - (i + 1) \in S
    BY <2>1, <1>6
  <2> QED BY <2>1, <2>2 DEF S
<1>8. Walk(other) = WalkTo(other, n) /\ Walk(log) = WalkTo(log, n)
  <2>1. other = [k \in 0 .. n - 1 |-> other[k]] /\ log = [k \in 0 .. n - 1 |-> log[k]]
    BY <1>1
  <2> QED BY <2>1, WalkIsWalkTo
<1> QED BY <1>7, <1>8 DEF other

(* Once the walk is aborted, the rest of the log changes nothing.          *)
LEMMA AbortedStays ==
    ASSUME NEW n \in Nat, log \in [0 .. n - 1 -> Entry], NEW i \in 0 .. n - 1,
           WalkTo(log, i + 1).aborted
    PROVE  Walk(log) = WalkTo(log, i + 1)
<1>1. /\ log = [k \in 0 .. n - 1 |-> log[k]]
      /\ \A k \in 0 .. n - 1 : log[k] \in Entry
      /\ i + 1 \in 0 .. n /\ n \in 0 .. n /\ i + 1 <= n
  OBVIOUS
<1>2. Extends(WalkTo(log, n), WalkTo(log, i + 1))
  BY <1>1, WalkExtends
<1> QED BY <1>1, <1>2, WalkIsWalkTo DEF Extends

(* An entry no key in force signed changes nothing the walk computes, or   *)
(* its signatures are unreadable and it ends the walk with what the        *)
(* entries before it established.                                          *)
THEOREM OutsidersNeverEstablish == Spec => []OutsidersEstablishNothing
<1>1. ASSUME NEW n \in Nat, log \in [0 .. n - 1 -> Entry],
             NEW i \in 0 .. n - 1, NEW e \in Entry, Statement[e].type = "other",
             NEW before, before = WalkTo(log, i), ~Authentic(before, log[i], i)
      PROVE  \/ Walk(log) = Walk([log EXCEPT ![i] = e])
             \/ ~Readable(log[i]) /\ Walk(log) = Abort(before)
  <2>1. CASE Ends(before, log[i], i)
    <3>1. ~Readable(log[i]) /\ WalkStep(before, log[i], i) = Abort(before)
      BY <1>1, <2>1, StepCases DEF Ends, Judges
    <3>2. WalkTo(log, i + 1) = Abort(before)
      BY <1>1, <3>1, WalkToOneMore
    <3>3. IsWalkState(before)
      <4>1. i \in 0 .. n /\ \A k \in 0 .. n - 1 : log[k] \in Entry
        BY <1>1
      <4> QED BY <1>1, <4>1, WalkShape
    <3>4. WalkTo(log, i + 1).aborted
      BY <3>2, <3>3 DEF Abort, IsWalkState
    <3>5. Walk(log) = WalkTo(log, i + 1)
      BY <1>1, <3>4, AbortedStays
    <3> QED BY <3>1, <3>2, <3>5
  <2>2. CASE ~Ends(before, log[i], i)
    <3>1. WalkStep(before, log[i], i) = before
      BY <1>1, <2>2, StepCases DEF Judges
    <3> QED BY <1>1, <3>1, ReplacedUnseen
  <2> QED BY <2>1, <2>2
<1>2. IInv => OutsidersEstablishNothing
  <2> SUFFICES ASSUME NEW n \in Nat, log \in [0 .. n - 1 -> Entry],
                      NEW i \in DOMAIN log, NEW e \in Entry, Statement[e].type = "other",
                      NEW before, before = Walk(Restrict(log, 0 .. i - 1)),
                      ~Authentic(before, log[i], i)
               PROVE  \/ Walk(log) = Walk([log EXCEPT ![i] = e])
                      \/ ~Readable(log[i]) /\ Walk(log) = Abort(before)
    BY DEF IInv, OutsidersEstablishNothing
  <2>1. i \in 0 .. n - 1
    OBVIOUS
  <2>2. before = WalkTo(log, i)
    BY DEF WalkTo, PrefixOf, Restrict
  <2> QED BY <1>1, <2>1, <2>2
<1> QED BY <1>2, LogIsContiguous, PTL

-----------------------------------------------------------------------------
(* Largest and smallest numbers.                                           *)
LEMMA MaxIs ==
    ASSUME NEW S \in SUBSET Int, NEW x \in S, \A y \in S : y <= x
    PROVE  Max(S) = x
<1>1. \A z \in S : (\A y \in S : z >= y) => z = x
  OBVIOUS
<1>2. \A y \in S : x >= y
  OBVIOUS
<1> QED BY <1>1, <1>2 DEF Max

LEMMA MinIs ==
    ASSUME NEW S \in SUBSET Int, NEW x \in S, \A y \in S : x <= y
    PROVE  Min(S) = x
<1>1. \A z \in S : (\A y \in S : z <= y) => z = x
  OBVIOUS
<1> QED BY <1>1 DEF Min

LEMMA MaxOfSome ==
    ASSUME NEW n \in Nat, NEW S \in SUBSET (0 .. n - 1), S # {}
    PROVE  Max(S) \in S /\ \A y \in S : y <= Max(S)
<1>1. IsFiniteSet(S) /\ S \in SUBSET Nat
  <2>1. IsFiniteSet(0 .. n - 1)
    BY FS_Interval
  <2>2. IsFiniteSet(S)
    BY <2>1, FS_Subset
  <2> QED BY <2>2
<1>2. PICK x \in S : \A y \in S : y <= x
  BY <1>1, GreatestNatural
<1>3. S \in SUBSET Int
  BY <1>1
<1>4. Max(S) = x
  BY <1>2, <1>3, MaxIs
<1> QED BY <1>2, <1>4

-----------------------------------------------------------------------------
(* What the walk itself takes as effective, in the terms of the account.   *)

Refuses(i) == Ends(WalkTo(log, i), log[i], i)
Takes(i) ==
    /\ Judges(WalkTo(log, i), log[i], i) /\ At(i).current
    /\ InPlace(WalkTo(log, i), log[i])
Effective == {i \in DOMAIN log : Takes(i)}

(* The activation bound a key was last given, if it is still granted: by   *)
(* the account, and by a map of keys.                                      *)
Granted(J, key, i) ==
    IF KeyEvents(J, key, i) # {}
    THEN {At(j).from : j \in {x \in {Max(KeyEvents(J, key, i))} : At(x).action = "add"}}
    ELSE LET granted == At(Max(ManifestsBefore(J, i))).producers
         IN {granted[x].from : x \in {y \in DOMAIN granted :
                /\ granted[y].key = key
                /\ \A z \in DOMAIN granted : z > y => granted[z].key # key}}
HeldBound(producers, key) == {producers[k] : k \in DOMAIN producers \cap {key}}

(* After k entries the versions are the effective manifests in order, the  *)
(* keys held are those granted, and the walk was aborted by a statement    *)
(* it refuses.                                                             *)
VersionsTracked(k) ==
    LET vs == WalkTo(log, k).versions IN
    /\ ManifestsBefore(Effective, k) = {vs[v].index : v \in 1 .. Len(vs)}
    /\ \A v \in 1 .. Len(vs) :
        /\ vs[v].index \in 0 .. k - 1
        /\ vs[v].entry = log[vs[v].index] /\ vs[v].epoch = At(vs[v].index).epoch
    /\ \A v, w \in 1 .. Len(vs) : v < w => vs[v].index < vs[w].index
    /\ \A v, w \in 1 .. Len(vs) : vs[v].epoch = vs[w].epoch
KeysTracked(k) ==
    Established(WalkTo(log, k)) =>
        \A key : Granted(Effective, key, k) = HeldBound(WalkTo(log, k).producers, key)
AbortTracked(k) == WalkTo(log, k).aborted <=> \E j \in 0 .. k - 1 : Refuses(j)

(* ws is vs with v after it.                                               *)
OneLonger(ws, vs, v) ==
    /\ Len(ws) = Len(vs) + 1 /\ ws[Len(vs) + 1] = v
    /\ \A i \in 1 .. Len(vs) : ws[i] = vs[i]

(* The step the walk makes at entry k.                                     *)
LEMMA StepAt ==
    ASSUME NEW n \in Nat, log \in [0 .. n - 1 -> Entry], NEW k \in 0 .. n - 1,
           NEW s, s = WalkTo(log, k), NEW t, t = WalkTo(log, k + 1)
    PROVE  /\ IsWalkState(s) /\ IsWalkState(t) /\ log[k] \in Entry
           /\ k \notin Effective =>
                t.versions = s.versions /\ t.producers = s.producers
           /\ k \in Effective /\ At(k).type = "manifest" =>
                /\ OneLonger(t.versions, s.versions, NewVersion(s, log[k], k))
                /\ t.producers = ListToMap(At(k).producers)
           /\ k \in Effective /\ At(k).type # "manifest" =>
                /\ Established(s) /\ At(k).type = "key"
                /\ t = ApplyKey(s, log[k], k)
                /\ t.versions = s.versions
           /\ k \in Effective => ~s.aborted /\ At(k).current
           /\ t.aborted <=> s.aborted \/ Refuses(k)
<1>1. log[k] \in Entry /\ k \in DOMAIN log /\ k \in Nat
  OBVIOUS
<1>2. IsWalkState(s) /\ IsWalkState(t)
  <2>1. k \in 0 .. n /\ k + 1 \in 0 .. n /\ \A i \in 0 .. n - 1 : log[i] \in Entry
    OBVIOUS
  <2> QED BY <2>1, WalkShape
<1>3. t = WalkStep(s, log[k], k)
  BY <1>1, WalkToOneMore
<1>4. k \in Effective <=> Judges(s, log[k], k) /\ At(k).current /\ InPlace(s, log[k])
  BY <1>1 DEF Effective, Takes
<1>5. /\ Refuses(k) <=> Ends(s, log[k], k)
      /\ ~Refuses(k) /\ Judges(s, log[k], k) => At(k).current
      /\ Refuses(k) => ~(Judges(s, log[k], k) /\ At(k).current)
  BY DEF Refuses, Ends, Judges, At
<1>6. CASE k \notin Effective /\ ~Refuses(k)
  <2>1. t = s
    BY <1>3, <1>4, <1>5, <1>6, StepCases DEF At, InPlace
  <2> QED BY <1>1, <1>2, <1>6, <2>1
<1>7. CASE Refuses(k)
  <2>1. t = Abort(s) /\ k \notin Effective
    BY <1>3, <1>4, <1>5, <1>7, StepCases DEF At
  <2>2. t.versions = s.versions /\ t.producers = s.producers /\ t.aborted
    BY <1>2, <2>1 DEF Abort, IsWalkState
  <2> QED BY <1>1, <1>2, <1>7, <2>1, <2>2
<1>8. CASE k \in Effective /\ At(k).type = "manifest"
  <2>1. t = Install(s, log[k], NewVersion(s, log[k], k)) /\ ~Refuses(k)
    BY <1>3, <1>4, <1>5, <1>8, StepCases DEF At
  <2>2. /\ t.versions = Append(s.versions, NewVersion(s, log[k], k))
        /\ t.producers = ListToMap(At(k).producers) /\ t.aborted = s.aborted
    BY <1>2, <2>1 DEF Install, IsWalkState, At
  <2>3. OneLonger(t.versions, s.versions, NewVersion(s, log[k], k))
    <3> DEFINE vs == s.versions
               ws == t.versions
               new == NewVersion(s, log[k], k)
    <3>1. vs \in Seq(SomeVersion)
      BY <1>2 DEF IsWalkState
    <3>2. ws = Append(vs, new)
      BY <2>2
    <3> HIDE DEF vs, ws, new
    <3>3. OneLonger(ws, vs, new)
      BY <3>1, <3>2 DEF OneLonger
    <3> QED BY <3>3 DEF vs, ws, new
  <2> QED BY <1>1, <1>2, <1>4, <1>8, <2>1, <2>2, <2>3 DEF Examines, Judges
<1>9. CASE k \in Effective /\ At(k).type # "manifest"
  <2>1. /\ Established(s) /\ At(k).type = "key" /\ ~s.aborted /\ At(k).current
        /\ Readable(log[k]) /\ Authentic(s, log[k], k)
    BY <1>4, <1>9 DEF Examines, Judges, At
  <2>2. t = ApplyKey(s, log[k], k) /\ ~Refuses(k)
    BY <1>3, <1>4, <1>5, <1>9, <2>1, StepCases DEF At
  <2>3. \E keys : t = s \/ t = [s EXCEPT !.producers = keys]
    BY <2>1, <2>2 DEF ApplyKey, At
  <2>4. t.versions = s.versions /\ t.aborted = s.aborted
    BY <1>2, <2>3 DEF IsWalkState
  <2> QED BY <1>1, <1>2, <1>9, <2>1, <2>2, <2>4
<1> QED BY <1>6, <1>7, <1>8, <1>9

(* The walk aborts with the first statement it refuses, and stays so.      *)
LEMMA AlwaysAbortTracked ==
    ASSUME NEW n \in Nat, log \in [0 .. n - 1 -> Entry]
    PROVE  \A k \in 0 .. n : AbortTracked(k)
<1> DEFINE S == {k \in Nat : k <= n => AbortTracked(k)}
<1>1. 0 \in S
  BY WalkToNothing DEF AbortTracked, Unestablished
<1>2. ASSUME NEW k \in S PROVE k + 1 \in S
  <2> SUFFICES ASSUME k + 1 <= n PROVE AbortTracked(k + 1)
    OBVIOUS
  <2>1. k \in 0 .. n - 1 /\ \A j : j \in 0 .. (k + 1) - 1 <=> j \in 0 .. k - 1 \/ j = k
    OBVIOUS
  <2>2. WalkTo(log, k + 1).aborted <=> WalkTo(log, k).aborted \/ Refuses(k)
    BY <2>1, StepAt
  <2> QED BY <2>1, <2>2 DEF AbortTracked
<1> HIDE DEF S
<1>3. \A k \in Nat : k \in S
  <2>1. S \in SUBSET Nat
    BY DEF S
  <2> QED BY <1>1, <1>2, <2>1, Order!EveryNatural
<1> QED BY <1>3 DEF S

(* What is effective below k + 1 is what is effective below k and perhaps k.*)
LEMMA OneMoreEffective ==
    ASSUME NEW J \in SUBSET Nat, NEW k \in Nat
    PROVE  /\ k \in J /\ At(k).type = "manifest" =>
                ManifestsBefore(J, k + 1) = ManifestsBefore(J, k) \cup {k}
           /\ ~(k \in J /\ At(k).type = "manifest") =>
                ManifestsBefore(J, k + 1) = ManifestsBefore(J, k)
<1>1. \A j \in J : j < k + 1 <=> j < k \/ j = k
  OBVIOUS
<1>2. \A j : j \in ManifestsBefore(J, k + 1) <=>
                \/ j \in ManifestsBefore(J, k)
                \/ j = k /\ k \in J /\ At(k).type = "manifest"
  BY <1>1 DEF ManifestsBefore
<1> QED BY <1>2

(* The versions are the effective manifests.                               *)
LEMMA AlwaysVersionsTracked ==
    ASSUME NEW n \in Nat, log \in [0 .. n - 1 -> Entry]
    PROVE  \A k \in 0 .. n : VersionsTracked(k)
<1> DEFINE S == {k \in Nat : k <= n => VersionsTracked(k)}
<1>1. 0 \in S
  <2>1. WalkTo(log, 0).versions = <<>> /\ Len(<<>>) = 0
    BY WalkToNothing DEF Unestablished
  <2>2. ManifestsBefore(Effective, 0) = {}
    BY DEF ManifestsBefore, Effective
  <2> QED BY <2>1, <2>2 DEF VersionsTracked
<1>2. ASSUME NEW k \in S PROVE k + 1 \in S
  <2> SUFFICES ASSUME k + 1 <= n PROVE VersionsTracked(k + 1)
    OBVIOUS
  <2> DEFINE s == WalkTo(log, k)
             t == WalkTo(log, k + 1)
             vs == s.versions
             ws == t.versions
  <2>1. k \in 0 .. n - 1 /\ VersionsTracked(k) /\ k \in Nat /\ (k + 1) - 1 = k
    OBVIOUS
  <2>2. IsWalkState(s) /\ vs \in Seq(SomeVersion) /\ Len(vs) \in Nat
    BY <2>1, StepAt DEF IsWalkState
  <2>3. Effective \in SUBSET Nat
    BY DEF Effective
  <2>4. /\ ManifestsBefore(Effective, k) = {vs[v].index : v \in 1 .. Len(vs)}
        /\ \A v \in 1 .. Len(vs) :
            /\ vs[v].index \in 0 .. k - 1
            /\ vs[v].entry = log[vs[v].index] /\ vs[v].epoch = At(vs[v].index).epoch
        /\ \A v, w \in 1 .. Len(vs) : v < w => vs[v].index < vs[w].index
        /\ \A v, w \in 1 .. Len(vs) : vs[v].epoch = vs[w].epoch
    BY <2>1 DEF VersionsTracked
  <2>5. CASE k \notin Effective \/ At(k).type # "manifest"
    <3>1. ws = vs
      BY <2>1, <2>5, StepAt
    <3>2. ManifestsBefore(Effective, k + 1) = ManifestsBefore(Effective, k)
      BY <2>1, <2>3, <2>5, OneMoreEffective
    <3>3. \A v \in 1 .. Len(vs) : vs[v].index \in 0 .. (k + 1) - 1
      BY <2>1, <2>4
    <3>4. ManifestsBefore(Effective, k + 1) = {ws[v].index : v \in 1 .. Len(ws)}
      BY ONLY <2>4, <3>1, <3>2
    <3>5. \A v \in 1 .. Len(ws) :
            /\ ws[v].index \in 0 .. (k + 1) - 1
            /\ ws[v].entry = log[ws[v].index] /\ ws[v].epoch = At(ws[v].index).epoch
      BY ONLY <2>4, <3>1, <3>3
    <3>6. /\ \A v, w \in 1 .. Len(ws) : v < w => ws[v].index < ws[w].index
          /\ \A v, w \in 1 .. Len(ws) : ws[v].epoch = ws[w].epoch
      BY ONLY <2>4, <3>1
    <3> QED BY ONLY <3>4, <3>5, <3>6 DEF VersionsTracked
  <2>6. CASE k \in Effective /\ At(k).type = "manifest"
    <3> DEFINE new == NewVersion(s, log[k], k)
    <3>1. OneLonger(ws, vs, new)
      BY <2>1, <2>6, StepAt
    <3>2. ManifestsBefore(Effective, k + 1) = ManifestsBefore(Effective, k) \cup {k}
      BY <2>1, <2>3, <2>6, OneMoreEffective
    <3>3. new.index = k /\ new.entry = log[k] /\ new.epoch = At(k).epoch
      BY DEF NewVersion, Version, At
    <3>4. Len(vs) # 0 => new.epoch = vs[Len(vs)].epoch
      <4> SUFFICES ASSUME Len(vs) # 0 PROVE new.epoch = vs[Len(vs)].epoch
        OBVIOUS
      <4>1. Established(s) /\ Governing(s) = vs[Len(vs)]
        BY <2>2 DEF Established, Governing
      <4>2. InPlace(s, log[k]) /\ Statement[log[k]].type = "manifest"
        BY <2>6 DEF Effective, Takes, At
      <4> QED BY <3>3, <4>1, <4>2 DEF InPlace, At
    <3> HIDE DEF s, t, vs, new
    <3> DEFINE len == Len(vs)
    <3>5. /\ Len(ws) = len + 1 /\ ws[len + 1] = new
          /\ \A v \in 1 .. len : ws[v] = vs[v]
          /\ \A v \in 1 .. len + 1 : v \in 1 .. len \/ v = len + 1
      BY <2>2, <3>1 DEF vs, OneLonger
    <3> HIDE DEF ws
    <3>6. ManifestsBefore(Effective, k + 1) = {ws[v].index : v \in 1 .. Len(ws)}
      <4>1. {ws[v].index : v \in 1 .. len + 1} = {ws[v].index : v \in 1 .. len} \cup {ws[len + 1].index}
        BY <2>2, <3>5
      <4>2. {ws[v].index : v \in 1 .. len} = {vs[v].index : v \in 1 .. len}
        BY <3>5
      <4> QED BY <2>4, <3>2, <3>3, <3>5, <4>1, <4>2
    <3>7. \A v \in 1 .. Len(ws) :
            /\ ws[v].index \in 0 .. (k + 1) - 1
            /\ ws[v].entry = log[ws[v].index] /\ ws[v].epoch = At(ws[v].index).epoch
      <4> SUFFICES ASSUME NEW v \in 1 .. len + 1
                   PROVE  /\ ws[v].index \in 0 .. k
                          /\ ws[v].entry = log[ws[v].index]
                          /\ ws[v].epoch = At(ws[v].index).epoch
        BY <2>1, <3>5
      <4>1. CASE v \in 1 .. len
        BY <2>1, <2>4, <3>5, <4>1
      <4>2. CASE v = len + 1
        BY <2>1, <3>3, <3>5, <4>2
      <4> QED BY <3>5, <4>1, <4>2
    <3>8. \A v, w \in 1 .. Len(ws) : v < w => ws[v].index < ws[w].index
      <4> SUFFICES ASSUME NEW v \in 1 .. Len(ws), NEW w \in 1 .. Len(ws), v < w
                   PROVE  ws[v].index < ws[w].index
        OBVIOUS
      <4>1. v \in 1 .. len
        BY <2>2, <3>5
      <4>2. CASE w \in 1 .. len
        BY <2>4, <3>5, <4>1, <4>2
      <4>3. CASE w = len + 1
        BY <2>1, <2>4, <3>3, <3>5, <4>1, <4>3
      <4> QED BY <3>5, <4>2, <4>3
    <3>9. \A v, w \in 1 .. Len(ws) : ws[v].epoch = ws[w].epoch
      <4>1. \A v \in 1 .. len : vs[v].epoch = new.epoch
        BY <2>2, <2>4, <3>4
      <4> QED BY <3>5, <4>1
    <3> QED BY <3>6, <3>7, <3>8, <3>9 DEF VersionsTracked, ws, t
  <2> QED BY <2>5, <2>6
<1> HIDE DEF S
<1>3. \A k \in Nat : k \in S
  <2>1. S \in SUBSET Nat
    BY DEF S
  <2> QED BY <1>1, <1>2, <2>1, Order!EveryNatural
<1> QED BY <1>3 DEF S

(* The version in force is the last effective manifest, of the epoch of    *)
(* the first; there is one exactly if there is such a manifest.            *)
LEMMA GoverningIsTheLast ==
    ASSUME NEW n \in Nat, log \in [0 .. n - 1 -> Entry], NEW k \in 0 .. n,
           NEW s, s = WalkTo(log, k),
           NEW before, before = ManifestsBefore(Effective, k)
    PROVE  /\ Established(s) <=> before # {}
           /\ before # {} =>
                /\ Max(before) \in before /\ Max(before) \in 0 .. k - 1
                /\ Governing(s).entry = log[Max(before)]
                /\ Governing(s).epoch = At(Min(before)).epoch
<1> DEFINE vs == s.versions
           len == Len(vs)
<1>1. VersionsTracked(k) /\ vs \in Seq(SomeVersion) /\ len \in Nat
  <2>1. IsWalkState(s)
    <3>1. \A i \in 0 .. n - 1 : log[i] \in Entry
      OBVIOUS
    <3> QED BY <3>1, WalkShape
  <2> QED BY <2>1, AlwaysVersionsTracked DEF IsWalkState
<1>2. /\ before = {vs[v].index : v \in 1 .. len}
      /\ \A v \in 1 .. len :
          /\ vs[v].index \in 0 .. k - 1
          /\ vs[v].entry = log[vs[v].index] /\ vs[v].epoch = At(vs[v].index).epoch
      /\ \A v, w \in 1 .. len : v < w => vs[v].index < vs[w].index
      /\ \A v, w \in 1 .. len : vs[v].epoch = vs[w].epoch
  BY <1>1 DEF VersionsTracked
<1>3. Established(s) <=> len # 0
  BY <1>1 DEF Established
<1>4. Governing(s) = vs[len]
  BY DEF Governing
<1> HIDE DEF vs, len
<1>5. len # 0 <=> before # {}
  <2>1. len # 0 => 1 \in 1 .. len
    BY <1>1
  <2>2. len = 0 => 1 .. len = {}
    OBVIOUS
  <2> QED BY <1>2, <2>1, <2>2
<1>6. ASSUME len # 0
      PROVE  /\ Max(before) = vs[len].index /\ Min(before) = vs[1].index
             /\ 1 \in 1 .. len /\ len \in 1 .. len
  <2>1. 1 \in 1 .. len /\ len \in 1 .. len
    BY <1>1, <1>6
  <2>2. before \in SUBSET Int /\ vs[1].index \in before /\ vs[len].index \in before
    BY <1>2, <2>1
  <2>3. \A v \in 1 .. len : vs[v].index <= vs[len].index /\ vs[1].index <= vs[v].index
    <3> SUFFICES ASSUME NEW v \in 1 .. len
                 PROVE  vs[v].index <= vs[len].index /\ vs[1].index <= vs[v].index
      OBVIOUS
    <3>1. vs[v].index \in Int /\ vs[len].index \in Int /\ vs[1].index \in Int
      BY <1>2, <2>1
    <3>2. (v < len \/ v = len) /\ (1 < v \/ 1 = v)
      BY <1>1
    <3> QED BY <1>2, <2>1, <3>1, <3>2
  <2>4. \A y \in before : y <= vs[len].index /\ vs[1].index <= y
    BY <1>2, <2>3
  <2> QED BY <2>1, <2>2, <2>4, MaxIs, MinIs
<1>7. ASSUME len # 0
      PROVE  /\ Max(before) \in before /\ Max(before) \in 0 .. k - 1
             /\ Governing(s).entry = log[Max(before)]
             /\ Governing(s).epoch = At(Min(before)).epoch
  BY <1>2, <1>4, <1>6, <1>7, ZenonT(30)
<1> QED BY <1>3, <1>5, <1>7

(* The map of a list of keys holds for each key what was said of it last.  *)
LEMMA LastGrantCounts ==
    ASSUME NEW keys, keys \in Seq(Range(keys)), NEW key
    PROVE  HeldBound(ListToMap(keys), key) =
             {keys[x].from : x \in {y \in DOMAIN keys :
                /\ keys[y].key = key
                /\ \A z \in DOMAIN keys : z > y => keys[z].key # key}}
<1> DEFINE matches == ListMatches(keys, key)
           lasts == {y \in DOMAIN keys :
                        /\ keys[y].key = key
                        /\ \A z \in DOMAIN keys : z > y => keys[z].key # key}
           map == ListToMap(keys)
<1>1. DOMAIN keys = 1 .. Len(keys) /\ Len(keys) \in Nat
  OBVIOUS
<1>2. DOMAIN map = {keys[i].key : i \in DOMAIN keys}
  BY DEF ListToMap
<1>3. CASE matches = {}
  <2>1. key \notin DOMAIN map
    BY <1>2, <1>3 DEF ListMatches
  <2>2. lasts = {}
    BY <1>3 DEF ListMatches
  <2> HIDE DEF map, lasts
  <2>3. HeldBound(map, key) = {}
    BY <2>1 DEF HeldBound
  <2> QED BY <2>2, <2>3 DEF map, lasts
<1>4. CASE matches # {}
  <2>1. matches \in SUBSET (0 .. (Len(keys) + 1) - 1) /\ Len(keys) + 1 \in Nat
    BY <1>1 DEF ListMatches
  <2>2. PICK last \in matches : \A y \in matches : y <= last
    <3> HIDE DEF matches
    <3> QED BY <1>4, <2>1, MaxOfSome
  <2>3. /\ matches \in SUBSET Int /\ last \in DOMAIN keys /\ keys[last].key = key
        /\ \A y \in DOMAIN keys : keys[y].key = key => y <= last
    BY <2>1, <2>2 DEF ListMatches
  <2>4. lasts = {last}
    BY <1>1, <2>3
  <2>5. key \in DOMAIN map
    BY <1>2, <2>3
  <2>6. map[key] = keys[CHOOSE i \in matches : \A j \in matches : j <= i].from
    BY <1>2, <2>5 DEF ListToMap
  <2> HIDE DEF matches, map, lasts
  <2>7. (CHOOSE i \in matches : \A j \in matches : j <= i) = last
    <3>1. \A i \in matches : (\A j \in matches : j <= i) => i = last
      BY <2>2, <2>3
    <3> QED BY <2>2, <3>1
  <2>8. HeldBound(map, key) = {keys[last].from}
    BY <2>5, <2>6, <2>7 DEF HeldBound
  <2> QED BY <2>4, <2>8 DEF map, lasts
<1> QED BY <1>3, <1>4

(* What has been said of a key below k + 1: nothing if k is a manifest,    *)
(* else what was said below k, and what k says of it.                      *)
LEMMA OneMoreEvent ==
    ASSUME NEW n \in Nat, log \in [0 .. n - 1 -> Entry], NEW k \in 0 .. n - 1, NEW key,
           NEW before, before = ManifestsBefore(Effective, k)
    PROVE  /\ k \in Effective /\ At(k).type = "manifest" =>
                /\ Max(ManifestsBefore(Effective, k + 1)) = k
                /\ KeyEvents(Effective, key, k + 1) = {}
           /\ ~(k \in Effective /\ At(k).type = "manifest") =>
                ManifestsBefore(Effective, k + 1) = before
           /\ ~(k \in Effective /\ At(k).type = "manifest") /\ before # {} =>
                /\ /\ k \in Effective /\ At(k).type = "key" /\ At(k).key = key
                   /\ At(k).action \in {"add", "retire"}
                   => /\ KeyEvents(Effective, key, k + 1) # {}
                      /\ Max(KeyEvents(Effective, key, k + 1)) = k
                /\ ~( /\ k \in Effective /\ At(k).type = "key" /\ At(k).key = key
                      /\ At(k).action \in {"add", "retire"} )
                   => KeyEvents(Effective, key, k + 1) = KeyEvents(Effective, key, k)
<1> DEFINE after == ManifestsBefore(Effective, k + 1)
<1>1. k \in Nat /\ Effective \in SUBSET Nat /\ k \in 0 .. n /\ \A j \in Effective : j < k + 1 <=> j < k \/ j = k
  BY DEF Effective
<1>2. \A y \in before : y \in Nat /\ y < k
  BY <1>1 DEF ManifestsBefore
<1>3. CASE k \in Effective /\ At(k).type = "manifest"
  <2>1. after = before \cup {k}
    BY <1>1, <1>3, OneMoreEffective
  <2>2. after \in SUBSET Int /\ k \in after /\ \A y \in after : y <= k
    BY <1>1, <1>2, <2>1
  <2> HIDE DEF after
  <2>3. Max(after) = k
    BY <2>2, MaxIs
  <2>4. KeyEvents(Effective, key, k + 1) = {}
    <3>1. \A j \in Effective : ~(k < j /\ j < k + 1)
      BY <1>1
    <3>2. \A j \in KeyEvents(Effective, key, k + 1) : j \in Effective /\ k < j /\ j < k + 1
      BY <2>3 DEF KeyEvents, after
    <3> QED BY <3>1, <3>2
  <2> QED BY <1>3, <2>3, <2>4 DEF after
<1>4. CASE ~(k \in Effective /\ At(k).type = "manifest")
  <2>1. after = before
    BY <1>1, <1>4, OneMoreEffective
  <2> DEFINE m == Max(before)
             Speaks(j) == At(j).type = "key" /\ At(j).key = key /\ At(j).action \in {"add", "retire"}
             short == KeyEvents(Effective, key, k)
             long == KeyEvents(Effective, key, k + 1)
  <2>2. short = {j \in Effective : m < j /\ j < k /\ Speaks(j)}
    BY DEF KeyEvents
  <2>3. long = {j \in Effective : m < j /\ j < k + 1 /\ Speaks(j)}
    BY <2>1 DEF KeyEvents
  <2>4. before # {} => m \in 0 .. k - 1
    <3>1. before # {} => Max(before) \in 0 .. k - 1
      BY <1>1, GoverningIsTheLast
    <3> QED BY <3>1
  <2> HIDE DEF after, m, Speaks, short, long
  <2>5. before # {} /\ k \in Effective /\ Speaks(k) => long # {} /\ Max(long) = k
    <3> SUFFICES ASSUME before # {}, k \in Effective, Speaks(k) PROVE long # {} /\ Max(long) = k
      OBVIOUS
    <3>1. k \in long
      BY <1>1, <2>3, <2>4
    <3>2. \A y \in long : y \in Effective /\ y < k + 1
      BY <2>3
    <3>3. \A y \in long : y \in Int /\ y <= k
      <4> SUFFICES ASSUME NEW y \in long PROVE y \in Int /\ y <= k
        OBVIOUS
      <4>1. y \in Nat /\ y < k + 1
        BY <1>1, <3>2
      <4> QED BY <1>1, <4>1
    <3>4. long \in SUBSET Int
      BY <3>3
    <3> QED BY <3>1, <3>3, <3>4, MaxIs
  <2>6. ~(k \in Effective /\ Speaks(k)) => long = short
    BY <1>1, <2>2, <2>3
  <2> QED BY <1>4, <2>1, <2>5, <2>6 DEF after, Speaks, short, long
<1> QED BY <1>3, <1>4

(* The keys held are the keys granted.                                     *)
LEMMA AlwaysKeysTracked ==
    ASSUME NEW n \in Nat, log \in [0 .. n - 1 -> Entry]
    PROVE  \A k \in 0 .. n : KeysTracked(k)
<1> DEFINE S == {k \in Nat : k <= n => KeysTracked(k)}
<1>1. 0 \in S
  BY WalkToNothing DEF KeysTracked, Unestablished, Established
<1>2. ASSUME NEW k \in S PROVE k + 1 \in S
  <2> SUFFICES ASSUME k + 1 <= n, Established(WalkTo(log, k + 1)), NEW key
               PROVE  Granted(Effective, key, k + 1) = HeldBound(WalkTo(log, k + 1).producers, key)
    BY DEF KeysTracked
  <2> DEFINE s == WalkTo(log, k)
             t == WalkTo(log, k + 1)
             before == ManifestsBefore(Effective, k)
             speaks == At(k).type = "key" /\ At(k).key = key /\ At(k).action \in {"add", "retire"}
  <2>1. k \in 0 .. n - 1 /\ k \in 0 .. n /\ k + 1 \in 0 .. n /\ k \in Nat /\ KeysTracked(k)
    OBVIOUS
  <2>2. Established(s) => Granted(Effective, key, k) = HeldBound(s.producers, key)
    BY <2>1 DEF KeysTracked
  <2>3. CASE k \in Effective /\ At(k).type = "manifest"
    <3>1. t.producers = ListToMap(At(k).producers)
      BY <2>1, <2>3, StepAt
    <3>2. At(k).producers \in Seq(Range(At(k).producers))
      <4>1. log[k] \in Entry
        BY <2>1
      <4> QED BY <2>3, <4>1, ProducersAssumption DEF At
    <3>3. Max(ManifestsBefore(Effective, k + 1)) = k /\ KeyEvents(Effective, key, k + 1) = {}
      BY <2>1, <2>3, OneMoreEvent
    <3> QED BY <3>1, <3>2, <3>3, LastGrantCounts DEF Granted
  <2>4. CASE ~(k \in Effective /\ At(k).type = "manifest")
    <3>1. ManifestsBefore(Effective, k + 1) = before
      BY <2>1, <2>4, OneMoreEvent
    <3>2. before # {} /\ Established(s)
      BY <2>1, <3>1, GoverningIsTheLast
    <3>3. Granted(Effective, key, k) = HeldBound(s.producers, key)
      BY <2>2, <3>2
    <3>4. CASE k \in Effective /\ speaks
      <4>1. Granted(Effective, key, k + 1) = {At(j).from : j \in {x \in {k} : At(x).action = "add"}}
        <5>1. KeyEvents(Effective, key, k + 1) # {} /\ Max(KeyEvents(Effective, key, k + 1)) = k
          BY <2>1, <2>4, <3>2, <3>4, OneMoreEvent
        <5> QED BY <5>1 DEF Granted
      <4>2. t = ApplyKey(s, log[k], k) /\ IsWalkState(s) /\ ~s.aborted /\ At(k).current
        BY <2>1, <2>4, <3>4, StepAt
      <4>3. Readable(log[k]) /\ Authentic(s, log[k], k)
        BY <3>4 DEF Effective, Takes, Judges
      <4>4. CASE At(k).action = "add"
        <5>1. t = [s EXCEPT !.producers = [x \in DOMAIN @ \cup {key} |->
                                              IF x = key THEN At(k).from ELSE @[x]]]
          BY <3>4, <4>2, <4>3, <4>4 DEF ApplyKey, At
        <5>2. t.producers = [x \in DOMAIN s.producers \cup {key} |->
                                IF x = key THEN At(k).from ELSE s.producers[x]]
          BY <4>2, <5>1 DEF IsWalkState
        <5>3. HeldBound(t.producers, key) = {At(k).from}
          BY <5>2 DEF HeldBound
        <5> QED BY <4>1, <4>4, <5>3
      <4>5. CASE At(k).action = "retire"
        <5>1. t = [s EXCEPT !.producers = Restrict(@, DOMAIN @ \ {key})]
          BY <3>4, <4>2, <4>3, <4>5 DEF ApplyKey, At
        <5>2. t.producers = Restrict(s.producers, DOMAIN s.producers \ {key})
          BY <4>2, <5>1 DEF IsWalkState
        <5>3. HeldBound(t.producers, key) = {}
          BY <5>2 DEF HeldBound, Restrict
        <5> QED BY <4>1, <4>5, <5>3
      <4> QED BY <3>4, <4>4, <4>5
    <3>5. CASE ~(k \in Effective /\ speaks)
      <4>1. Granted(Effective, key, k + 1) = Granted(Effective, key, k)
        <5>1. KeyEvents(Effective, key, k + 1) = KeyEvents(Effective, key, k)
          BY <2>1, <2>4, <3>2, <3>5, OneMoreEvent
        <5> QED BY <3>1, <5>1 DEF Granted
      <4>2. HeldBound(t.producers, key) = HeldBound(s.producers, key)
        <5>1. CASE k \notin Effective
          BY <2>1, <5>1, StepAt
        <5>2. CASE k \in Effective
          <6>1. /\ t = ApplyKey(s, log[k], k) /\ IsWalkState(s) /\ At(k).current
                /\ At(k).type = "key"
            BY <2>1, <2>4, <5>2, StepAt
          <6>2. Readable(log[k]) /\ Authentic(s, log[k], k)
            BY <5>2 DEF Effective, Takes, Judges
          <6>3. CASE At(k).action = "add"
            <7>1. t = [s EXCEPT !.producers = [x \in DOMAIN @ \cup {At(k).key} |->
                                                  IF x = At(k).key THEN At(k).from ELSE @[x]]]
              BY <6>1, <6>2, <6>3 DEF ApplyKey, At
            <7>2. t.producers = [x \in DOMAIN s.producers \cup {At(k).key} |->
                                    IF x = At(k).key THEN At(k).from ELSE s.producers[x]]
              BY <6>1, <7>1 DEF IsWalkState
            <7> QED BY <3>5, <5>2, <6>1, <6>3, <7>2 DEF HeldBound
          <6>4. CASE At(k).action = "retire"
            <7>1. t = [s EXCEPT !.producers = Restrict(@, DOMAIN @ \ {At(k).key})]
              BY <6>1, <6>2, <6>4 DEF ApplyKey, At
            <7>2. t.producers = Restrict(s.producers, DOMAIN s.producers \ {At(k).key})
              BY <6>1, <7>1 DEF IsWalkState
            <7> QED BY <3>5, <5>2, <6>1, <6>4, <7>2 DEF HeldBound, Restrict
          <6>5. CASE At(k).action \notin {"add", "retire"}
            BY <6>1, <6>2, <6>5 DEF ApplyKey, At
          <6> QED BY <6>3, <6>4, <6>5
        <5> QED BY <5>1, <5>2
      <4> QED BY <3>3, <4>1, <4>2
    <3> QED BY <3>4, <3>5
  <2> QED BY <2>3, <2>4
<1> HIDE DEF S
<1>3. \A k \in Nat : k \in S
  <2>1. S \in SUBSET Nat
    BY DEF S
  <2> QED BY <1>1, <1>2, <2>1, Order!EveryNatural
<1> QED BY <1>3 DEF S

-----------------------------------------------------------------------------
(* The account's questions, asked of the effective statements, are the     *)
(* walk's.                                                                 *)

(* A key is in force by the account exactly if the walk holds it.          *)
LEMMA InForceIsHeld ==
    ASSUME NEW n \in Nat, log \in [0 .. n - 1 -> Entry], NEW k \in 0 .. n, NEW key,
           NEW s, s = WalkTo(log, k)
    PROVE  InForce(Effective, key, k) <=>
             IF Established(s) THEN MapAuthorises(s.producers, key, k)
                               ELSE ListAuthorises(GenesisKeys, key, k)
<1> DEFINE before == ManifestsBefore(Effective, k)
           events == KeyEvents(Effective, key, k)
           granted == At(Max(before)).producers
           lasts == {y \in DOMAIN granted :
                        /\ granted[y].key = key
                        /\ \A z \in DOMAIN granted : z > y => granted[z].key # key}
<1>1. Established(s) <=> before # {}
  BY GoverningIsTheLast
<1>2. CASE before = {}
  BY <1>1, <1>2 DEF InForce
<1>3. CASE before # {}
  <2>1. Granted(Effective, key, k) = HeldBound(s.producers, key)
    BY <1>1, <1>3, AlwaysKeysTracked DEF KeysTracked
  <2>2. MapAuthorises(s.producers, key, k) <=> \E f \in HeldBound(s.producers, key) : f <= k
    BY DEF MapAuthorises, HeldBound
  <2>3. CASE events # {}
    <3> DEFINE last == Max(events)
    <3>1. InForce(Effective, key, k) <=> At(last).action = "add" /\ At(last).from <= k
      BY <1>3, <2>3 DEF InForce
    <3>2. Granted(Effective, key, k) = {At(j).from : j \in {x \in {last} : At(x).action = "add"}}
      BY <2>3 DEF Granted
    <3> HIDE DEF last
    <3>3. InForce(Effective, key, k) <=> \E f \in Granted(Effective, key, k) : f <= k
      BY <3>1, <3>2
    <3> QED BY <1>1, <1>3, <2>1, <2>2, <3>3
  <2>4. CASE events = {}
    <3>1. InForce(Effective, key, k) <=>
            \E x \in DOMAIN granted :
                /\ granted[x].key = key /\ granted[x].from <= k
                /\ \A y \in DOMAIN granted : y > x => granted[y].key # key
      BY <1>3, <2>4 DEF InForce
    <3>2. Granted(Effective, key, k) = {granted[x].from : x \in lasts}
      BY <2>4 DEF Granted
    <3> HIDE DEF granted
    <3>3. InForce(Effective, key, k) <=> \E x \in lasts : granted[x].from <= k
      BY <3>1
    <3>4. InForce(Effective, key, k) <=> \E f \in Granted(Effective, key, k) : f <= k
      BY <3>2, <3>3
    <3> QED BY <1>1, <1>3, <2>1, <2>2, <3>4
  <2> QED BY <2>3, <2>4
<1> QED BY <1>2, <1>3

(* A candidate is a statement the walk judges, and well placed if the walk *)
(* finds it in place.                                                      *)
LEMMA CandidateIsJudged ==
    ASSUME NEW n \in Nat, log \in [0 .. n - 1 -> Entry], NEW i \in 0 .. n - 1,
           NEW s, s = WalkTo(log, i)
    PROVE  /\ ~s.aborted => /\ Examined(Effective, i) <=> Examines(s, log[i])
                            /\ Candidate(Effective, i) <=> Judges(s, log[i], i)
           /\ WellPlaced(Effective, i) <=> InPlace(s, log[i])
<1> DEFINE before == ManifestsBefore(Effective, i)
<1>1. i \in 0 .. n
  OBVIOUS
<1>2. InForce(Effective, At(i).signer, i) <=> Authentic(s, log[i], i)
  BY <1>1, InForceIsHeld DEF Authentic, At
<1>3. /\ Established(s) <=> before # {}
      /\ before # {} => /\ Governing(s).entry = log[Max(before)]
                        /\ Governing(s).epoch = At(Min(before)).epoch
  BY <1>1, GoverningIsTheLast
<1>4. ~s.aborted => /\ Examined(Effective, i) <=> Examines(s, log[i])
                    /\ Candidate(Effective, i) <=> Judges(s, log[i], i)
  <2>1. ~s.aborted => (Examined(Effective, i) <=> Examines(s, log[i]))
    BY <1>3 DEF Examined, Examines, At
  <2> QED BY <1>2, <2>1 DEF Candidate, Judges
<1>5. WellPlaced(Effective, i) <=> InPlace(s, log[i])
  <2>1. CASE before = {}
    BY <1>3, <2>1 DEF WellPlaced, InPlace, At
  <2>2. CASE before # {}
    BY <1>3, <2>2 DEF WellPlaced, InPlace, At
  <2> QED BY <2>1, <2>2
<1> QED BY <1>4, <1>5

(* The effective statements justify themselves, and something aborts them  *)
(* exactly if the walk is aborted.                                         *)
LEMMA EffectiveJustified ==
    ASSUME NEW n \in Nat, log \in [0 .. n - 1 -> Entry]
    PROVE  /\ Effective \in Accounts
           /\ WalkTo(log, n).aborted <=> Aborting(Effective) # {}
<1> DEFINE State(i) == WalkTo(log, i)
           placed == {i \in DOMAIN log : Candidate(Effective, i) /\ WellPlaced(Effective, i)}
<1>1. DOMAIN log = 0 .. n - 1
  OBVIOUS
<1>2. \A i \in 0 .. n : State(i).aborted <=> \E j \in 0 .. i - 1 : Refuses(j)
  BY AlwaysAbortTracked DEF AbortTracked
<1>3. ASSUME NEW i \in 0 .. n - 1
      PROVE  /\ i \in 0 .. n /\ i \in Int
             /\ ~State(i).aborted =>
                    /\ Candidate(Effective, i) <=> Judges(State(i), log[i], i)
                    /\ i \in Aborting(Effective) <=> Refuses(i)
             /\ WellPlaced(Effective, i) <=> InPlace(State(i), log[i])
             /\ Judges(State(i), log[i], i) => ~State(i).aborted
             /\ Refuses(i) => ~State(i).aborted
             /\ i \in Effective => ~Refuses(i)
  <2>1. i \in 0 .. n /\ i \in Int
    OBVIOUS
  <2>2. /\ ~State(i).aborted => /\ Examined(Effective, i) <=> Examines(State(i), log[i])
                                /\ Candidate(Effective, i) <=> Judges(State(i), log[i], i)
        /\ WellPlaced(Effective, i) <=> InPlace(State(i), log[i])
    BY CandidateIsJudged
  <2>3. i \in Aborting(Effective) <=>
            \/ Examined(Effective, i) /\ ~Readable(log[i])
            \/ Candidate(Effective, i) /\ ~At(i).current
    BY <1>1 DEF Aborting
  <2>4. Refuses(i) <=>
            \/ Examines(State(i), log[i]) /\ ~Readable(log[i])
            \/ Judges(State(i), log[i], i) /\ ~At(i).current
    BY DEF Refuses, Ends, At
  <2>5. /\ Judges(State(i), log[i], i) => Readable(log[i])
        /\ Judges(State(i), log[i], i) => Examines(State(i), log[i])
        /\ Examines(State(i), log[i]) => ~State(i).aborted
    BY DEF Judges, Examines
  <2>6. i \in Effective => Judges(State(i), log[i], i) /\ At(i).current
    BY DEF Effective, Takes
  <2> HIDE DEF State
  <2> QED BY <2>1, <2>2, <2>3, <2>4, <2>5, <2>6
<1>4. \A i \in 0 .. n - 1 :
        i \in Effective <=>
            /\ Judges(State(i), log[i], i) /\ At(i).current /\ InPlace(State(i), log[i])
  BY <1>1 DEF Effective, Takes
<1>5. \A i \in 0 .. n - 1 :
        Judges(State(i), log[i], i) /\ ~Refuses(i) => At(i).current
  BY DEF Refuses, Ends, At
<1>6. Aborting(Effective) \subseteq 0 .. n - 1
  BY <1>1 DEF Aborting
<1>8. Effective \subseteq placed
  BY <1>1, <1>3, <1>4 DEF Effective
<1> HIDE DEF State
<1>9. ASSUME NEW i \in 0 .. n - 1
      PROVE  ~State(i).aborted <=> \A j \in Aborting(Effective) : i <= j
  <2>1. ASSUME ~State(i).aborted, NEW j \in Aborting(Effective), ~(i <= j) PROVE FALSE
    <3>1. j \in 0 .. n - 1 /\ j \in 0 .. i - 1 /\ i \in 0 .. n
      BY <1>6, <2>1
    <3>2. ~State(j).aborted
      <4>1. j \in 0 .. n /\ \A x \in 0 .. j - 1 : x \in 0 .. i - 1
        BY <3>1
      <4> QED BY <1>2, <2>1, <3>1, <4>1
    <3>3. Refuses(j)
      BY <1>3, <2>1, <3>1, <3>2
    <3> QED BY <1>2, <2>1, <3>1, <3>3
  <2>2. ASSUME State(i).aborted PROVE \E j \in Aborting(Effective) : ~(i <= j)
    <3>1. PICK j \in 0 .. i - 1 : Refuses(j)
      BY <1>2, <1>3, <2>2
    <3>2. j \in 0 .. n - 1 /\ ~(i <= j)
      OBVIOUS
    <3>3. j \in Aborting(Effective)
      BY <1>3, <3>1, <3>2
    <3> QED BY <3>2, <3>3
  <2> QED BY <2>1, <2>2
<1>10. Effective = {i \in placed : \A j \in Aborting(Effective) : i < j}
  <2>1. ASSUME NEW i \in Effective, NEW j \in Aborting(Effective) PROVE i < j
    <3>1. i \in 0 .. n - 1 /\ j \in 0 .. n - 1
      BY <1>1, <1>6 DEF Effective
    <3>2. ~State(i).aborted /\ ~Refuses(i)
      BY <1>3, <1>4, <2>1, <3>1
    <3>3. i <= j /\ i # j
      BY <1>3, <1>9, <2>1, <3>1, <3>2
    <3> QED BY <3>1, <3>3
  <2>2. ASSUME NEW i \in placed, \A j \in Aborting(Effective) : i < j PROVE i \in Effective
    <3>1. i \in 0 .. n - 1
      BY <1>1
    <3>2. \A j \in Aborting(Effective) : i <= j
      <4>1. \A j \in Aborting(Effective) : j \in Int
        BY <1>6
      <4> QED BY <2>2, <3>1, <4>1
    <3>3. ~State(i).aborted
      BY <1>9, <3>1, <3>2
    <3>4. At(i).current
      <4>1. i \notin Aborting(Effective)
        BY <2>2, <3>1
      <4> QED BY <1>3, <1>5, <3>1, <3>3, <4>1
    <3> QED BY <1>3, <1>4, <3>1, <3>3, <3>4
  <2> QED BY <1>8, <2>1, <2>2
<1>11. Effective \in Accounts
  <2>1. \A i \in Effective : i \in DOMAIN log /\ At(i).type \in {"manifest", "key"}
    BY DEF Effective, Takes, Examines, Judges, At
  <2>2. Effective \in SUBSET {i \in DOMAIN log : At(i).type # "other"}
    BY <2>1
  <2>3. Justified(Effective)
    BY <1>8, <1>10 DEF Justified
  <2> QED BY <2>2, <2>3 DEF Accounts
<1>12. State(n).aborted <=> Aborting(Effective) # {}
  <2>1. n \in 0 .. n
    OBVIOUS
  <2>2. State(n).aborted <=> \E j \in 0 .. n - 1 : Refuses(j)
    BY <1>2, <2>1
  <2>3. ASSUME NEW j \in 0 .. n - 1, Refuses(j) PROVE Aborting(Effective) # {}
    BY <1>3, <2>3
  <2>4. ASSUME NEW j \in Aborting(Effective), \A x \in 0 .. n - 1 : ~Refuses(x) PROVE FALSE
    <3>1. j \in 0 .. n - 1
      BY <1>6
    <3>2. ~State(j).aborted
      <4>1. \A x \in 0 .. j - 1 : x \in 0 .. n - 1
        BY <3>1
      <4> QED BY <1>2, <1>3, <2>4, <3>1, <4>1
    <3> QED BY <1>3, <2>4, <3>1, <3>2
  <2> QED BY <2>2, <2>3, <2>4
<1> QED BY <1>11, <1>12 DEF State

-----------------------------------------------------------------------------
(* There is no other account: whether an index belongs to one is decided   *)
(* by what belongs to it below.                                            *)

(* The account's questions at i look no further than i.                    *)
LEMMA AccountIsLocal ==
    ASSUME NEW J \in SUBSET Nat, NEW K \in SUBSET Nat, NEW i \in Nat,
           \A j \in 0 .. i - 1 : j \in J <=> j \in K
    PROVE  /\ Examined(J, i) <=> Examined(K, i)
           /\ Candidate(J, i) <=> Candidate(K, i)
           /\ WellPlaced(J, i) <=> WellPlaced(K, i)
<1>1. \A j \in Nat : j < i => (j \in J <=> j \in K)
  OBVIOUS
<1>2. ManifestsBefore(J, i) = ManifestsBefore(K, i)
  BY <1>1 DEF ManifestsBefore
<1>3. ASSUME NEW key PROVE InForce(J, key, i) <=> InForce(K, key, i)
  <2>1. KeyEvents(J, key, i) = KeyEvents(K, key, i)
    BY <1>1, <1>2 DEF KeyEvents
  <2> QED BY <1>2, <2>1 DEF InForce
<1>4. Examined(J, i) <=> Examined(K, i)
  BY <1>2 DEF Examined
<1>5. Candidate(J, i) <=> Candidate(K, i)
  BY <1>3, <1>4 DEF Candidate
<1>6. WellPlaced(J, i) <=> WellPlaced(K, i)
  BY <1>2 DEF WellPlaced
<1> QED BY <1>4, <1>5, <1>6

(* Two accounts of one log are the same.                                   *)
LEMMA OneAccount ==
    ASSUME NEW n \in Nat, log \in [0 .. n - 1 -> Entry], NEW J \in Accounts, NEW K \in Accounts
    PROVE  J = K
<1> DEFINE S == {k \in Nat : \A j \in 0 .. k - 1 : j \in J <=> j \in K}
           Stops(I, j) ==
                \/ Examined(I, j) /\ ~Readable(log[j])
                \/ Candidate(I, j) /\ ~At(j).current
<1>1. DOMAIN log = 0 .. n - 1
  OBVIOUS
<1>2. J \in SUBSET (0 .. n - 1) /\ K \in SUBSET (0 .. n - 1)
  BY <1>1 DEF Accounts
<1>3. ASSUME NEW I \in {J, K}, NEW k \in 0 .. n - 1
      PROVE  k \in I <=> /\ Candidate(I, k) /\ WellPlaced(I, k)
                         /\ \A j \in 0 .. k : ~Stops(I, j)
  <2>1. Justified(I)
    BY DEF Accounts
  <2>2. k \in I <=> /\ Candidate(I, k) /\ WellPlaced(I, k)
                    /\ \A j \in Aborting(I) : k < j
    BY <1>1, <2>1 DEF Justified
  <2>3. \A j : j \in Aborting(I) <=> j \in 0 .. n - 1 /\ Stops(I, j)
    BY <1>1 DEF Aborting
  <2>4. \A j \in 0 .. n - 1 : k < j <=> j \notin 0 .. k
    OBVIOUS
  <2>5. \A j \in 0 .. k : j \in 0 .. n - 1
    OBVIOUS
  <2> HIDE DEF Stops
  <2> QED BY <2>2, <2>3, <2>4, <2>5
<1>4. 0 \in S
  OBVIOUS
<1>5. ASSUME NEW k \in S PROVE k + 1 \in S
  <2>1. ASSUME k \in 0 .. n - 1 PROVE k \in J <=> k \in K
    <3>1. J \in SUBSET Nat /\ K \in SUBSET Nat
      BY <1>2
    <3>2. ASSUME NEW j \in 0 .. k
          PROVE  /\ Stops(J, j) <=> Stops(K, j)
                 /\ Candidate(J, j) <=> Candidate(K, j)
                 /\ WellPlaced(J, j) <=> WellPlaced(K, j)
      <4>1. j \in Nat /\ \A x \in 0 .. j - 1 : x \in J <=> x \in K
        BY <2>1
      <4> QED BY <3>1, <4>1, AccountIsLocal
    <3>3. k \in 0 .. k
      BY <2>1
    <3> HIDE DEF Stops
    <3> QED BY <1>3, <2>1, <3>2, <3>3
  <2>2. k \notin 0 .. n - 1 => k \notin J /\ k \notin K
    BY <1>2
  <2>3. \A j \in 0 .. (k + 1) - 1 : j \in 0 .. k - 1 \/ j = k
    OBVIOUS
  <2> QED BY <2>1, <2>2, <2>3
<1> HIDE DEF S
<1>6. n \in S
  <2>1. S \in SUBSET Nat
    BY DEF S
  <2> QED BY <1>4, <1>5, <2>1, Order!EveryNatural
<1>7. \A j \in 0 .. n - 1 : j \in J <=> j \in K
  BY <1>6 DEF S
<1> QED BY <1>2, <1>7

(* The walk over any log agrees with the account: one set of statements    *)
(* justifies itself, its manifests are the versions in order, its grants   *)
(* are the keys in force, and the walk refuses exactly what aborts it.     *)
THEOREM WalkAlwaysMatchesAccount == Spec => []WalkMatchesAccount
<1>1. ASSUME NEW n \in Nat, log \in [0 .. n - 1 -> Entry]
      PROVE  WalkMatchesAccount
  <2> DEFINE walk == Walk(log)
             vs == walk.versions
  <2>1. Cardinality(DOMAIN log) = n /\ walk = WalkTo(log, n) /\ n \in 0 .. n
    BY <1>1, LogLength
  <2>2. Accounts = {Effective}
    BY <1>1, EffectiveJustified, OneAccount
  <2>3. Cardinality(Accounts) = 1
    BY <2>2, FS_Singleton
  <2>4. /\ {vs[v].index : v \in 1 .. Len(vs)} = ManifestsBefore(Effective, n)
        /\ \A v, w \in 1 .. Len(vs) : v < w => vs[v].index < vs[w].index
    <3>1. VersionsTracked(n)
      BY <1>1, <2>1, AlwaysVersionsTracked
    <3> QED BY <2>1, <3>1 DEF VersionsTracked
  <2>5. walk.aborted <=> Aborting(Effective) # {}
    BY <1>1, <2>1, EffectiveJustified
  <2>6. ASSUME Established(walk), NEW k
        PROVE  InForce(Effective, k, n) <=> MapAuthorises(walk.producers, k, n)
    BY <1>1, <2>1, <2>6, InForceIsHeld
  <2> HIDE DEF walk
  <2> QED BY <2>1, <2>2, <2>3, <2>4, <2>5, <2>6 DEF WalkMatchesAccount, walk
<1>2. IInv => WalkMatchesAccount
  BY <1>1 DEF IInv
<1> QED BY <1>2, LogIsContiguous, PTL
=============================================================================
