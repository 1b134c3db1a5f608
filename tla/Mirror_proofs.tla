---------------------------- MODULE Mirror_proofs ----------------------------
(***************************************************************************)
(* What holds of the write side of the mirror for any set of request       *)
(* slots, any submissions and any governance.  The walk of module          *)
(* Governance is never expanded: the proofs hold whatever it computes.     *)
(***************************************************************************)
EXTENDS Mirror, Governance_proofs

-----------------------------------------------------------------------------
(* Logs: functions on 0 .. n-1.                                            *)

(* The length of a log is a natural and its domain the indices below it.   *)
LEMMA LogDomain ==
    ASSUME NEW f, IsLog(f)
    PROVE  /\ Cardinality(DOMAIN f) \in Nat
           /\ DOMAIN f = 0 .. Cardinality(DOMAIN f) - 1
           /\ f = [i \in DOMAIN f |-> f[i]]
           /\ \A i \in DOMAIN f : f[i] \in Entry
  BY FS_CardinalityType DEF IsLog

(* Every function from 0 .. n-1 to entries is a log of length n.           *)
LEMMA IntervalIsLog ==
    ASSUME NEW n \in Nat, NEW f \in [0 .. n - 1 -> Entry]
    PROVE  IsLog(f) /\ Cardinality(DOMAIN f) = n
<1>1. IsFiniteSet(0 .. n - 1) /\ Cardinality(0 .. n - 1) = n
  BY FS_Interval
<1>2. DOMAIN f = 0 .. n - 1
  OBVIOUS
<1> QED BY <1>1, <1>2 DEF IsLog

(* MAX(entry_index) + 1 over a gap-free table is its length.               *)
LEMMA NextIndexIsLength ==
    ASSUME NEW f, IsLog(f)
    PROVE  NextIndex(f) = Cardinality(DOMAIN f)
<1> DEFINE n == Cardinality(DOMAIN f)
<1>1. n \in Nat /\ DOMAIN f = 0 .. n - 1
  BY LogDomain
<1>2. CASE n = 0
  BY <1>1, <1>2 DEF NextIndex
<1>3. CASE n > 0
  <2>1. n - 1 \in DOMAIN f /\ \A y \in DOMAIN f : n - 1 >= y
    BY <1>1, <1>3
  <2>2. \A x \in DOMAIN f : (\A y \in DOMAIN f : x >= y) => x = n - 1
    BY <1>1, <2>1
  <2>3. Max(DOMAIN f) = n - 1
    BY <2>1, <2>2 DEF Max
  <2> QED BY <1>1, <1>3, <2>1, <2>3 DEF NextIndex
<1> QED BY <1>1, <1>2, <1>3

(* Appending at the next index keeps a table gap-free.                     *)
LEMMA ExtendIsLog ==
    ASSUME NEW f, IsLog(f), NEW claim \in Claim, claim.index = NextIndex(f)
    PROVE  /\ IsLog(Extend(f, claim))
           /\ claim.index \notin DOMAIN f
           /\ DOMAIN Extend(f, claim) = DOMAIN f \cup {claim.index}
           /\ Extend(f, claim)[claim.index] = claim.entry
           /\ \A i \in DOMAIN f : Extend(f, claim)[i] = f[i]
<1> DEFINE n == Cardinality(DOMAIN f)
<1>1. n \in Nat /\ DOMAIN f = 0 .. n - 1 /\ \A i \in DOMAIN f : f[i] \in Entry
  BY LogDomain
<1>2. claim.index = n /\ claim.entry \in Entry
  BY NextIndexIsLength DEF Claim
<1>3. DOMAIN f \cup {claim.index} = 0 .. (n + 1) - 1
  BY <1>1, <1>2
<1>4. Extend(f, claim) \in [0 .. (n + 1) - 1 -> Entry]
  BY <1>1, <1>2, <1>3 DEF Extend
<1>5. IsLog(Extend(f, claim))
  BY <1>1, <1>4, IntervalIsLog
<1> QED BY <1>1, <1>2, <1>3, <1>5 DEF Extend

(* The empty table is a log.                                               *)
LEMMA EmptyIsLog == IsLog(EmptyTable) /\ DOMAIN EmptyTable = {}
<1>1. EmptyTable \in [0 .. 0 - 1 -> Entry]
  BY DEF EmptyTable
<1> QED BY <1>1, IntervalIsLog DEF EmptyTable

(* The rows below an index are a log of the same entries.                  *)
LEMMA BelowIsLog ==
    ASSUME NEW f, IsLog(f), NEW n \in Nat
    PROVE  /\ IsLog(Below(f, n))
           /\ DOMAIN Below(f, n) = DOMAIN f \cap 0 .. n - 1
           /\ \A i \in DOMAIN Below(f, n) : Below(f, n)[i] = f[i]
<1> DEFINE len == Cardinality(DOMAIN f)
           m == IF len <= n THEN len ELSE n
<1>1. len \in Nat /\ DOMAIN f = 0 .. len - 1 /\ \A i \in DOMAIN f : f[i] \in Entry
  BY LogDomain
<1>2. m \in Nat /\ {i \in DOMAIN f : i < n} = 0 .. m - 1
  BY <1>1
<1>3. Below(f, n) = [i \in 0 .. m - 1 |-> f[i]]
  BY <1>2 DEF Below, Restrict
<1>4. Below(f, n) \in [0 .. m - 1 -> Entry]
  BY <1>1, <1>2, <1>3
<1> QED BY <1>1, <1>2, <1>3, <1>4, IntervalIsLog

(* The first rows of a table that holds them are a log.                    *)
LEMMA RootIsLog ==
    ASSUME NEW f, IsLog(f), NEW n \in Nat, HoldsPrefix(f, n)
    PROVE  /\ IsLog(Root(f, n))
           /\ DOMAIN Root(f, n) = 0 .. n - 1
           /\ Cardinality(DOMAIN Root(f, n)) = n
           /\ \A i \in DOMAIN Root(f, n) : i \in DOMAIN f /\ Root(f, n)[i] = f[i]
<1>1. Root(f, n) \in [0 .. n - 1 -> Entry]
  BY LogDomain DEF Root, Restrict, HoldsPrefix
<1>2. DOMAIN Root(f, n) = 0 .. n - 1 /\ \A i \in 0 .. n - 1 : Root(f, n)[i] = f[i]
  BY DEF Root, Restrict
<1> QED BY <1>1, <1>2, IntervalIsLog DEF HoldsPrefix

(* The rows below an index are the first rows, up to some length.          *)
LEMMA BelowIsRoot ==
    ASSUME NEW f, IsLog(f), NEW n \in Nat
    PROVE  \E m \in 0 .. n : HoldsPrefix(f, m) /\ Below(f, n) = Root(f, m)
<1> DEFINE len == Cardinality(DOMAIN f)
           m == IF len <= n THEN len ELSE n
<1>1. len \in Nat /\ DOMAIN f = 0 .. len - 1
  BY LogDomain
<1>2. m \in 0 .. n /\ {i \in DOMAIN f : i < n} = 0 .. m - 1 /\ 0 .. m - 1 \subseteq DOMAIN f
  BY <1>1
<1> HIDE DEF m
<1>3. HoldsPrefix(f, m) /\ Below(f, n) = Root(f, m)
  BY <1>2 DEF HoldsPrefix, Below, Root
<1> QED BY <1>2, <1>3

(* The visible prefix is a log; each of its leaves is a canonical row read *)
(* before or a claim of the batch at its own index.                        *)
LEMMA VisiblePrefixIsLog ==
    ASSUME NEW cp, cp.size \in Nat,
           NEW batch \in Seq(Claim),
           NEW seen, IsLog(seen)
    PROVE  LET log == VisiblePrefix(cp, batch, seen)
           IN  /\ IsLog(log)
               /\ \A i \in DOMAIN log :
                    \/ i \in DOMAIN seen /\ log[i] = seen[i]
                    \/ \E x \in DOMAIN batch : batch[x].index = i /\ batch[x].entry = log[i]
<1> DEFINE log == VisiblePrefix(cp, batch, seen)
           len == Cardinality(DOMAIN seen)
           rel == Relevant(cp, batch, len)
           supplied == {batch[x].index : x \in rel}
           reach == {i \in 0 .. cp.size - 1 : i < len \/ len .. i \subseteq supplied}
           claim(i) == CHOOSE x \in rel : batch[x].index = i
<1>1. /\ len \in Nat
      /\ DOMAIN seen = 0 .. len - 1
      /\ \A i \in DOMAIN seen : seen[i] \in Entry
  BY LogDomain
<1>2. rel \subseteq DOMAIN batch /\ \A x \in DOMAIN batch : batch[x] \in Claim
  BY DEF Relevant
<1>3. log = [i \in reach |-> IF i < len THEN seen[i] ELSE batch[claim(i)].entry]
  BY DEF VisiblePrefix
<1>4. \A i \in reach : i >= len => claim(i) \in rel /\ batch[claim(i)].index = i
  <2> SUFFICES ASSUME NEW i \in reach, i >= len
               PROVE  claim(i) \in rel /\ batch[claim(i)].index = i
    OBVIOUS
  <2>1. i \in len .. i /\ len .. i \subseteq supplied
    BY <1>1
  <2>2. \E x \in rel : batch[x].index = i
    BY <2>1
  <2> QED BY <2>2
<1>5. Cardinality(reach) \in Nat /\ reach = 0 .. Cardinality(reach) - 1
  <2>1. reach \in SUBSET (0 .. cp.size - 1)
    OBVIOUS
  <2>2. IsFiniteSet(0 .. cp.size - 1)
    BY FS_Interval, SMTT(20)
  <2>3. IsFiniteSet(reach)
    BY <2>1, <2>2, FS_Subset
  <2>4. \A k \in reach : 0 .. k \subseteq reach
    <3> SUFFICES ASSUME NEW k \in reach, NEW j \in 0 .. k PROVE j \in reach
      OBVIOUS
    <3>1. j \in 0 .. cp.size - 1
      OBVIOUS
    <3>2. j < len \/ len .. j \subseteq len .. k
      BY <1>1
    <3> QED BY <1>1, <3>1, <3>2, SMTT(20)
  <2>5. reach \subseteq Nat
    OBVIOUS
  <2> HIDE DEF reach
  <2> QED BY <2>3, <2>4, <2>5, DownwardClosedIsInterval
<1>6. \A i \in reach : (IF i < len THEN seen[i] ELSE batch[claim(i)].entry) \in Entry
  <2> SUFFICES ASSUME NEW i \in reach
               PROVE  (IF i < len THEN seen[i] ELSE batch[claim(i)].entry) \in Entry
    OBVIOUS
  <2>1. CASE i < len
    BY <1>1, <2>1
  <2>2. CASE ~(i < len)
    <3>1. batch[claim(i)] \in Claim
      BY <1>1, <1>2, <1>4, <2>2
    <3> QED BY <2>2, <3>1 DEF Claim
  <2> QED BY <2>1, <2>2
<1>7. IsLog(log)
  <2> HIDE DEF reach, claim, len
  <2>1. log \in [0 .. Cardinality(reach) - 1 -> Entry]
    BY <1>3, <1>5, <1>6
  <2> HIDE DEF log
  <2> QED BY <1>5, <2>1, IntervalIsLog
<1>8. ASSUME NEW i \in DOMAIN log
      PROVE  \/ i \in DOMAIN seen /\ log[i] = seen[i]
             \/ \E x \in DOMAIN batch : batch[x].index = i /\ batch[x].entry = log[i]
  <2>1. i \in reach
    BY <1>3
  <2>2. CASE i < len
    BY <1>1, <1>3, <2>1, <2>2
  <2>3. CASE ~(i < len)
    <3>1. claim(i) \in DOMAIN batch /\ batch[claim(i)].index = i
      BY <1>1, <1>2, <1>4, <2>1, <2>3
    <3>2. log[i] = batch[claim(i)].entry
      BY <1>3, <2>1, <2>3
    <3> QED BY <3>1, <3>2
  <2> QED BY <2>2, <2>3
<1> QED BY <1>7, <1>8

-----------------------------------------------------------------------------
(* Type correctness.                                                       *)

(* What submitters post is well formed.                                    *)
LEMMA SubmissionsTyped ==
    /\ \A cp \in Published : IsCheckpoint(cp) /\ cp.size \in Nat
    /\ \A claim \in Claims : claim \in Claim
<1>1. ASSUME NEW cp \in Published
      PROVE  IsCheckpoint(cp) /\ cp.size \in Nat
  BY SubmissionAssumption DEF Published, IsCheckpoint
<1>2. ASSUME NEW claim \in Claims
      PROVE  claim \in Claim
  <2>1. PICK s \in Submission : claim \in Range(s.batch)
    BY DEF Claims
  <2>2. s.batch \in Seq(Claim)
    BY SubmissionAssumption
  <2> QED BY <2>1, <2>2 DEF Range
<1> QED BY <1>1, <1>2

(* A request that has read or resolved carries a well formed submission.   *)
LEMMA CallTyped ==
    ASSUME NEW c, IsCall(c), c.step = "read" \/ c.step = "ready"
    PROVE  /\ c.cp \in Published /\ IsCheckpoint(c.cp) /\ c.cp.size \in Nat
           /\ c.batch \in Seq(Claim)
           /\ IsLog(c.seen)
<1>1. c # Idle
  BY DEF Idle
<1>2. c.cp \in Published /\ c.batch \in Seq(Claim) /\ IsLog(c.seen)
  BY <1>1 DEF IsCall
<1> QED BY <1>2, SubmissionsTyped

(* The claim a transaction works on is one of its request's batch.         *)
LEMMA NextClaimTyped ==
    ASSUME TypeOK, NEW p \in Request, Owns(p), Pending(p)
    PROVE  /\ NextClaim(p) \in Claim
           /\ IsLog(tx.table)
           /\ tx.done \in Nat /\ tx.done + 1 \in DOMAIN call[p].batch
<1>1. tx.open /\ tx.owner = p /\ tx # Closed
  BY DEF Owns, Closed
<1>2. IsLog(tx.table) /\ tx.done \in 0 .. Len(call[p].batch) /\ call[p].step = "ready"
  BY <1>1 DEF TypeOK
<1>3. call[p].batch \in Seq(Claim)
  BY <1>2, CallTyped DEF TypeOK
<1> QED BY <1>2, <1>3 DEF Pending, NextClaim

(* Every action keeps every variable in its type.                          *)
LEMMA TypeStep == TypeOK /\ [Next]_vars => TypeOK'
<1> SUFFICES ASSUME TypeOK, [Next]_vars PROVE TypeOK'
  OBVIOUS
<1>1. ASSUME NEW e \in Entry, Stage(e) PROVE TypeOK'
  BY <1>1 DEF Stage, TypeOK
<1>2. ASSUME NEW p \in Request, NEW s \in Submission, IngestRead(p, s) PROVE TypeOK'
  <2>1. IsLog(Below(entries, s.cp.size)) /\ s.cp \in Published /\ s.batch \in Seq(Claim)
    BY BelowIsLog, SubmissionsTyped, SubmissionAssumption DEF TypeOK, Published
  <2> DEFINE c == [ step |-> "read", cp |-> s.cp, batch |-> s.batch, named |-> s.named,
                    seen |-> Below(entries, s.cp.size) ]
  <2>2. \A q \in Request : IsCall(call'[q])
    <3>1. [cp |-> c.cp, batch |-> c.batch, named |-> c.named] \in Submission
      BY SubmissionAssumption
    <3>2. c.cp.size <= MaxTreeSize /\ c.step = "read"
      BY <1>2 DEF IngestRead
    <3>3. c.cp = s.cp /\ c.batch = s.batch /\ c.seen = Below(entries, s.cp.size)
      OBVIOUS
    <3> HIDE DEF c
    <3>4. IsCall(c)
      BY <2>1, <3>1, <3>2, <3>3 DEF IsCall
    <3>5. \A q \in Request : call'[q] = c \/ call'[q] = call[q]
      BY <1>2 DEF IngestRead, TypeOK, c
    <3> QED BY <3>4, <3>5 DEF TypeOK
  <2>3. tx = Closed
    BY <1>2 DEF IngestRead, TypeOK
  <2> QED BY <1>2, <2>2, <2>3 DEF IngestRead, TypeOK
<1>3. ASSUME NEW p \in Request, IngestResolve(p) PROVE TypeOK'
  <2> DEFINE log == VisiblePrefix(call[p].cp, call[p].batch, call[p].seen)
  <2>1. call[p].cp \in Published /\ call[p].batch \in Seq(Claim) /\ IsLog(call[p].seen)
    BY <1>3, CallTyped DEF IngestResolve, TypeOK
  <2>2. IsLog(log)
    BY <2>1, VisiblePrefixIsLog, SubmissionsTyped
  <2> DEFINE m == VerifiesUnder(Active(log), call[p].cp)
             anchored == Anchors(log, call[p].cp)
  <2>3. m \in BOOLEAN
    BY DEF VerifiesUnder, LogKeyActive, ListAuthorises
  <2>4. \/ call'[p] = Idle
        \/ call'[p] = [ step |-> "ready", records |-> TRUE, cp |-> call[p].cp,
                        batch |-> call[p].batch, named |-> call[p].named, seen |-> log,
                        member |-> m, anchors |-> anchored ]
    BY <1>3 DEF IngestResolve, TypeOK
  <2>5. IsCall(call'[p])
    <3> HIDE DEF log, m, anchored
    <3> DEFINE c == [ step |-> "ready", records |-> TRUE, cp |-> call[p].cp,
                      batch |-> call[p].batch, named |-> call[p].named, seen |-> log,
                      member |-> m, anchors |-> anchored ]
    <3>1. /\ c.step = "ready" /\ c.cp = call[p].cp /\ c.batch = call[p].batch
          /\ c.seen = log /\ c.records = TRUE /\ c.named = call[p].named
      OBVIOUS
    <3>2. c.member = m
      BY Zenon
    <3>3. c.member \in BOOLEAN
      BY <2>3, <3>2, Zenon
    <3> HIDE DEF c
    <3>4. /\ [cp |-> call[p].cp, batch |-> call[p].batch, named |-> call[p].named] \in Submission
          /\ call[p].cp.size <= MaxTreeSize
      BY <1>3 DEF IngestResolve, TypeOK, IsCall, Idle
    <3>5. IsCall(c)
      BY <2>1, <2>2, <3>1, <3>3, <3>4 DEF IsCall
    <3> QED BY <2>4, <3>5 DEF IsCall, c
  <2>6. \A q \in Request : q # p => call'[q] = call[q]
    BY <1>3 DEF IngestResolve
  <2>7. tx = Closed
    BY <1>3 DEF IngestResolve, TypeOK
  <2> QED BY <1>3, <2>5, <2>6, <2>7 DEF IngestResolve, TypeOK
<1>4. ASSUME NEW p \in Request, NEW cp \in checkpoints, NEW claim \in Claims,
             PromoteRead(p, cp, claim)
      PROVE  TypeOK'
  <2>1. cp \in Published /\ <<claim>> \in Seq(Claim)
    BY SubmissionsTyped DEF TypeOK
  <2>2. IsLog(EmptyTable)
    BY EmptyIsLog
  <2>3. \A q \in Request : IsCall(call'[q])
    BY <1>4, <2>1, <2>2 DEF PromoteRead, TypeOK, IsCall
  <2>4. tx = Closed
    BY <1>4 DEF PromoteRead, TypeOK
  <2> QED BY <1>4, <2>3, <2>4 DEF PromoteRead, TypeOK
<1>5. ASSUME NEW p \in Request, TxBegin(p) PROVE TypeOK'
  <2>1. call[p].batch \in Seq(Claim)
    BY <1>5, CallTyped DEF TxBegin, TypeOK
  <2>2. 0 \in 0 .. Len(call[p].batch)
    BY <2>1
  <2> QED BY <1>5, <2>2 DEF TxBegin, TypeOK
<1>6. ASSUME NEW p \in Request, PromoteRepeated(p) PROVE TypeOK'
  <2>1. tx.done \in Nat /\ tx.done + 1 \in 0 .. Len(call[p].batch)
    BY <1>6, NextClaimTyped DEF PromoteRepeated, Pending, TypeOK, Owns, Closed
  <2>2. /\ tx' = [tx EXCEPT !.done = @ + 1] /\ tx.open /\ tx.owner = p /\ tx # Closed
    BY <1>6 DEF PromoteRepeated, Owns, Closed
  <2>3. tx'.open = tx.open /\ tx'.owner = p /\ tx'.table = tx.table /\ tx'.done = tx.done + 1
    BY <1>6, <2>2 DEF PromoteRepeated, TypeOK
  <2> QED BY <1>6, <2>1, <2>2, <2>3 DEF PromoteRepeated, TypeOK
<1>7. ASSUME NEW p \in Request, PromoteNew(p) PROVE TypeOK'
  <2>1. /\ tx.done \in Nat /\ tx.done + 1 \in 0 .. Len(call[p].batch)
        /\ IsLog(Extend(tx.table, NextClaim(p)))
    <3>1. /\ NextClaim(p) \in Claim /\ IsLog(tx.table)
          /\ tx.done \in Nat /\ tx.done + 1 \in DOMAIN call[p].batch
      BY <1>7, NextClaimTyped DEF PromoteNew
    <3>2. NextClaim(p).index = NextIndex(tx.table)
      BY <1>7 DEF PromoteNew, IsNext
    <3>3. tx.done \in 0 .. Len(call[p].batch)
      BY <1>7 DEF PromoteNew, TypeOK, Owns, Closed
    <3>4. tx.done + 1 \in 0 .. Len(call[p].batch)
      BY <1>7, <3>1, <3>3 DEF PromoteNew, Pending
    <3> QED BY <3>1, <3>2, <3>4, ExtendIsLog
  <2>2. tx.open /\ tx.owner = p /\ tx # Closed
    BY <1>7 DEF PromoteNew, Owns, Closed
  <2>3. tx' = [ open |-> TRUE, owner |-> p, table |-> Extend(tx.table, NextClaim(p)),
                done |-> tx.done + 1 ]
    BY <1>7, <2>2 DEF PromoteNew, TypeOK
  <2> QED BY <1>7, <2>1, <2>2, <2>3 DEF PromoteNew, TypeOK
<1>8. ASSUME NEW p \in Request, Rollback(p) PROVE TypeOK'
  BY <1>8 DEF Rollback, TypeOK, IsCall
<1>9. ASSUME NEW p \in Request, CommitIngest(p) PROVE TypeOK'
  <2>1. tx.open /\ tx.owner = p /\ tx # Closed /\ call[p].step = "ready" /\ IsLog(tx.table)
    BY <1>9 DEF CommitIngest, Owns, Closed, TypeOK
  <2>2. call[p].cp \in Published
    BY <2>1, CallTyped DEF TypeOK
  <2>3. checkpoints' \subseteq Published
    BY <1>9, <2>2 DEF CommitIngest, TypeOK, NewMembers
  <2>4. \A r \in rotations' : r = [manifest |-> r.manifest, cp |-> r.cp] /\ r.cp \in Published
    BY <1>9, <2>2 DEF CommitIngest, TypeOK, NewAnchors
  <2>5. \A q \in Request : IsCall(call'[q])
    BY <1>9 DEF CommitIngest, TypeOK, IsCall
  <2>6. \A a \in admitted' : a.cp \in Published
    <3> DEFINE a == [ cp |-> call[p].cp, batch |-> call[p].batch, seen |-> call[p].seen,
                      member |-> call[p].member, anchors |-> call[p].anchors ]
    <3>1. a.cp = call[p].cp
      OBVIOUS
    <3>2. admitted' = admitted \cup {a}
      BY <1>9 DEF CommitIngest
    <3> HIDE DEF a
    <3> QED BY <2>2, <3>1, <3>2 DEF TypeOK
  <2> QED BY <1>9, <2>1, <2>3, <2>4, <2>5, <2>6 DEF CommitIngest, TypeOK
<1>10. ASSUME NEW p \in Request, CommitPromote(p) PROVE TypeOK'
  <2>1. IsLog(tx.table)
    BY <1>10 DEF CommitPromote, Owns, Closed, TypeOK
  <2>2. \A q \in Request : IsCall(call'[q])
    BY <1>10 DEF CommitPromote, TypeOK, IsCall
  <2> QED BY <1>10, <2>1, <2>2 DEF CommitPromote, TypeOK
<1>11. CASE Crash
  BY <1>11 DEF Crash, TypeOK, IsCall
<1>12. CASE UNCHANGED vars
  BY <1>12 DEF vars, TypeOK
<1> QED BY <1>1, <1>2, <1>3, <1>4, <1>5, <1>6, <1>7, <1>8, <1>9, <1>10, <1>11, <1>12
       DEF Next, Submit, Work, PromoteRefused, RecordRefused

(* Types hold in every reachable state.                                    *)
THEOREM TypeCorrect == Spec => []TypeOK
<1>1. Init => TypeOK
  BY EmptyIsLog DEF Init, TypeOK, IsCall
<1>2. TypeOK /\ [Next]_vars => TypeOK'
  BY TypeStep
<1> QED BY <1>1, <1>2, PTL DEF Spec

-----------------------------------------------------------------------------
(* Requests in flight.                                                     *)

(* What a request may rely on survives any growth of the tables.           *)
LEMMA CallSoundMonotone ==
    ASSUME NEW c, NEW t, NEW u, NEW S, NEW T,
           IsRestriction(t, u), S \subseteq T, CallSound(c, t, S)
    PROVE  CallSound(c, u, T)
<1>1. ASSUME NEW n, HoldsPrefix(t, n)
      PROVE  HoldsPrefix(u, n) /\ Root(u, n) = Root(t, n)
  BY <1>1 DEF HoldsPrefix, Root, Restrict, IsRestriction
<1> QED BY <1>1 DEF CallSound

(* An idle slot relies on nothing.                                         *)
LEMMA IdleIsSound ==
    ASSUME NEW t, NEW S
    PROVE  CallSound(Idle, t, S)
  BY DEF CallSound, Idle

(* A step of one request leaves sound what the others rely on.             *)
LEMMA OthersUndisturbed ==
    ASSUME TypeOK, InFlightSound, NEW p \in Request,
           \A q \in Request : q # p => call'[q] = call[q],
           IsRestriction(entries, entries'), checkpoints \subseteq checkpoints',
           CallSound(call'[p], entries', checkpoints')
    PROVE  \A q \in Request : CallSound(call'[q], entries', checkpoints')
<1> SUFFICES ASSUME NEW q \in Request, q # p
             PROVE  CallSound(call'[q], entries', checkpoints')
  OBVIOUS
<1>1. CallSound(call[q], entries, checkpoints)
  BY DEF InFlightSound
<1>2. CallSound(call[q], entries', checkpoints')
  BY <1>1, CallSoundMonotone
<1> QED BY <1>2

(* A table restricts itself.                                               *)
LEMMA RestrictionReflexive ==
    ASSUME NEW t
    PROVE  IsRestriction(t, t)
  BY DEF IsRestriction

(* Every step only adds to the tables.                                     *)
LEMMA TablesGrow ==
    ASSUME TypeOK, TxSound, [Next]_vars
    PROVE  /\ IsRestriction(entries, entries')
           /\ staged \subseteq staged'
           /\ checkpoints \subseteq checkpoints'
           /\ rotations \subseteq rotations'
           /\ admitted \subseteq admitted'
<1>1. ASSUME NEW p \in Request, CommitIngest(p) \/ CommitPromote(p)
      PROVE  /\ IsRestriction(entries, entries')
             /\ staged \subseteq staged' /\ checkpoints \subseteq checkpoints'
             /\ rotations \subseteq rotations' /\ admitted \subseteq admitted'
  BY <1>1 DEF CommitIngest, CommitPromote, TxSound, Owns
<1>2. CASE /\ UNCHANGED <<entries, checkpoints, rotations, admitted>>
           /\ staged \subseteq staged'
  BY <1>2, RestrictionReflexive
<1> QED BY <1>1, <1>2
       DEF Next, Submit, Work, Stage, IngestRead, IngestResolve, PromoteRead, TxBegin,
           PromoteRepeated, PromoteNew, PromoteRefused, RecordRefused, Rollback, Crash, vars

(* A transaction stays sound from begin to commit.                         *)
LEMMA TxSoundStep ==
    ASSUME TypeOK, EntriesSound, TxSound, [Next]_vars
    PROVE  TxSound'
<1>1. ASSUME NEW e \in Entry, Stage(e) PROVE TxSound'
  BY <1>1 DEF Stage, TxSound, Proved
<1>2. ASSUME UNCHANGED tx, ~tx.open PROVE TxSound'
  BY <1>2 DEF TxSound
<1>3. ASSUME NEW p \in Request, TxBegin(p) PROVE TxSound'
  <2>1. tx'.table = entries /\ tx'.done = 0 /\ UNCHANGED <<staged, entries, call>>
    BY <1>3 DEF TxBegin
  <2>2. 1 .. 0 = {}
    OBVIOUS
  <2> QED BY <2>1, <2>2, RestrictionReflexive DEF TxSound, EntriesSound
<1>4. ASSUME NEW p \in Request, PromoteRepeated(p) PROVE TxSound'
  <2>1. tx.open /\ tx.owner = p /\ tx # Closed /\ tx.done \in Nat
    BY <1>4, NextClaimTyped DEF PromoteRepeated, Owns, Closed
  <2>2. /\ tx'.open /\ tx'.owner = p /\ tx'.table = tx.table /\ tx'.done = tx.done + 1
        /\ UNCHANGED <<staged, entries, call>>
    BY <1>4, <2>1 DEF PromoteRepeated, TypeOK
  <2>3. \A x \in 1 .. tx.done + 1 :
            AlreadyPresent(tx.table, call[p].batch[x]) /\ Proved(p, call[p].batch[x])
    <3> SUFFICES ASSUME NEW x \in 1 .. tx.done + 1
                 PROVE  AlreadyPresent(tx.table, call[p].batch[x]) /\ Proved(p, call[p].batch[x])
      OBVIOUS
    <3>1. CASE x \in 1 .. tx.done
      BY <2>1, <3>1 DEF TxSound
    <3>2. CASE x = tx.done + 1
      BY <1>4, <3>2 DEF PromoteRepeated, NextClaim
    <3> QED BY <2>1, <3>1, <3>2
  <2>4. \A x \in 1 .. tx.done : x \in 1 .. tx.done + 1
    BY <2>1
  <2> QED BY <2>1, <2>2, <2>3, <2>4 DEF TxSound, Proved
<1>5. ASSUME NEW p \in Request, PromoteNew(p) PROVE TxSound'
  <2> DEFINE claim == NextClaim(p)
             old == tx.table
             new == Extend(old, claim)
  <2>1. /\ tx.open /\ tx.owner = p /\ tx # Closed
        /\ tx.done \in Nat /\ claim \in Claim /\ IsLog(old)
    BY <1>5, NextClaimTyped DEF PromoteNew, Owns, Closed
  <2>2. /\ tx'.open /\ tx'.owner = p /\ tx'.table = new /\ tx'.done = tx.done + 1
        /\ UNCHANGED <<staged, entries, call>>
    BY <1>5, <2>1 DEF PromoteNew, TypeOK
  <2>3. /\ claim.index = NextIndex(old) /\ claim.entry \notin Range(old)
        /\ claim.entry \in staged /\ Opens(call[p].cp, claim)
    BY <1>5 DEF PromoteNew, IsNext, Proved
  <2>4. /\ claim.index \notin DOMAIN old
        /\ DOMAIN new = DOMAIN old \cup {claim.index}
        /\ new[claim.index] = claim.entry
        /\ \A i \in DOMAIN old : new[i] = old[i]
    BY <2>1, <2>3, ExtendIsLog
  <2>5. IsRestriction(entries, new)
    BY <2>1, <2>4 DEF TxSound, IsRestriction
  <2>6. IsInjective(new)
    BY <2>1, <2>3, <2>4 DEF TxSound, IsInjective, Range
  <2>7. \A i \in DOMAIN new :
            /\ new[i] \in staged
            /\ \/ i \in DOMAIN entries
               \/ \E x \in 1 .. tx.done + 1 : call[p].batch[x].index = i
    <3> SUFFICES ASSUME NEW i \in DOMAIN new
                 PROVE  /\ new[i] \in staged
                        /\ \/ i \in DOMAIN entries
                           \/ \E x \in 1 .. tx.done + 1 : call[p].batch[x].index = i
      OBVIOUS
    <3>1. CASE i \in DOMAIN old
      <4>1. \A x \in 1 .. tx.done : x \in 1 .. tx.done + 1
        BY <2>1
      <4> QED BY <2>1, <2>4, <3>1, <4>1 DEF TxSound
    <3>2. CASE i = claim.index
      <4>1. tx.done + 1 \in 1 .. tx.done + 1
        BY <2>1
      <4> QED BY <2>3, <2>4, <3>2, <4>1 DEF NextClaim
    <3> QED BY <2>4, <3>1, <3>2
  <2>8. \A x \in 1 .. tx.done + 1 :
            AlreadyPresent(new, call[p].batch[x]) /\ Proved(p, call[p].batch[x])
    <3> SUFFICES ASSUME NEW x \in 1 .. tx.done + 1
                 PROVE  AlreadyPresent(new, call[p].batch[x]) /\ Proved(p, call[p].batch[x])
      OBVIOUS
    <3>1. CASE x \in 1 .. tx.done
      BY <2>1, <2>4, <3>1 DEF TxSound, AlreadyPresent
    <3>2. CASE x = tx.done + 1
      BY <1>5, <2>4, <3>2 DEF PromoteNew, NextClaim, AlreadyPresent
    <3> QED BY <2>1, <3>1, <3>2
  <2> QED BY <2>1, <2>2, <2>5, <2>6, <2>7, <2>8 DEF TxSound, Proved
<1>6. ASSUME tx' = Closed PROVE TxSound'
  BY <1>6 DEF TxSound, Closed
<1>7. CASE UNCHANGED vars
  BY <1>7 DEF vars, TxSound, Proved
<1> QED BY <1>1, <1>2, <1>3, <1>4, <1>5, <1>6, <1>7
       DEF Next, Submit, Work, IngestRead, IngestResolve, PromoteRead, PromoteRefused, RecordRefused, Rollback, CommitIngest,
           CommitPromote, Crash

(* The snapshots of requests in flight stay true.                          *)
LEMMA InFlightStep ==
    ASSUME TypeOK, EntriesSound, InFlightSound, [Next]_vars
    PROVE  InFlightSound'
<1> USE RestrictionReflexive
<1>1. TxSound /\ TxSound'
  BY TxSoundStep DEF InFlightSound
<1>2. IsRestriction(entries, entries') /\ checkpoints \subseteq checkpoints'
  BY <1>1, TablesGrow
<1>3. ASSUME call' = call
      PROVE  \A q \in Request : CallSound(call'[q], entries', checkpoints')
  BY <1>2, <1>3, CallSoundMonotone DEF InFlightSound
<1>4. ASSUME NEW p \in Request, call' = [call EXCEPT ![p] = Idle]
      PROVE  \A q \in Request : CallSound(call'[q], entries', checkpoints')
  <2>1. call'[p] = Idle /\ \A q \in Request : q # p => call'[q] = call[q]
    BY <1>4 DEF TypeOK
  <2> QED BY <1>2, <2>1, IdleIsSound, OthersUndisturbed
<1>5. ASSUME NEW p \in Request, NEW s \in Submission, IngestRead(p, s)
      PROVE  \A q \in Request : CallSound(call'[q], entries', checkpoints')
  <2> DEFINE seen == Below(entries, s.cp.size)
  <2>1. /\ call'[p] = [ step |-> "read", cp |-> s.cp, batch |-> s.batch,
                        named |-> s.named, seen |-> seen ]
        /\ \A q \in Request : q # p => call'[q] = call[q]
        /\ UNCHANGED <<entries, checkpoints>>
    BY <1>5 DEF IngestRead, TypeOK
  <2>2. \E n \in 0 .. s.cp.size : HoldsPrefix(entries, n) /\ seen = Root(entries, n)
    <3>1. s.cp.size \in Nat /\ IsLog(entries)
      BY SubmissionAssumption DEF TypeOK, IsCheckpoint
    <3> QED BY <3>1, BelowIsRoot
  <2> HIDE DEF seen
  <2>3. CallSound(call'[p], entries', checkpoints')
    BY <2>1, <2>2 DEF CallSound
  <2> QED BY <1>2, <2>1, <2>3, OthersUndisturbed
<1>6. ASSUME NEW p \in Request, IngestResolve(p)
      PROVE  \A q \in Request : CallSound(call'[q], entries', checkpoints')
  <2> DEFINE log == VisiblePrefix(call[p].cp, call[p].batch, call[p].seen)
             c == [ step |-> "ready", records |-> TRUE, cp |-> call[p].cp,
                    batch |-> call[p].batch,
                    named |-> call[p].named, seen |-> log,
                    member |-> VerifiesUnder(Active(log), call[p].cp),
                    anchors |-> Anchors(log, call[p].cp) ]
  <2>1. /\ call'[p] = Idle \/ call'[p] = c
        /\ \A q \in Request : q # p => call'[q] = call[q]
        /\ UNCHANGED <<entries, checkpoints>>
        /\ call[p].step = "read"
    BY <1>6 DEF IngestResolve, TypeOK
  <2>2. \E n \in 0 .. call[p].cp.size :
            HoldsPrefix(entries, n) /\ log = VisiblePrefix(call[p].cp, call[p].batch, Root(entries, n))
    BY <2>1 DEF InFlightSound, CallSound
  <2>3. CASE call'[p] = Idle
    BY <1>2, <2>1, <2>3, IdleIsSound, OthersUndisturbed
  <2>4. CASE call'[p] # Idle
    <3>1. Admissible(log, call[p].cp, call[p].named)
      BY <1>6, <2>4 DEF IngestResolve, TypeOK
    <3>2. CallSound(c, entries, checkpoints)
      <4>1. /\ c.step = "ready" /\ c.seen = log /\ c.batch = call[p].batch
            /\ c.cp = call[p].cp /\ c.anchors = Anchors(log, call[p].cp)
            /\ c.records = TRUE /\ c.named = call[p].named
        OBVIOUS
      <4>2. c.member <=> VerifiesUnder(Active(log), call[p].cp)
        BY Zenon
      <4> HIDE DEF c, log
      <4> QED BY <2>2, <3>1, <4>1, <4>2 DEF CallSound
    <3> HIDE DEF c
    <3>3. CallSound(call'[p], entries', checkpoints')
      BY <2>1, <2>4, <3>2
    <3> QED BY <1>2, <2>1, <3>3, OthersUndisturbed
  <2> QED BY <2>3, <2>4
<1>7. ASSUME NEW p \in Request, NEW cp \in checkpoints, NEW claim, PromoteRead(p, cp, claim)
      PROVE  \A q \in Request : CallSound(call'[q], entries', checkpoints')
  <2>1. /\ call'[p] = [ step |-> "ready", records |-> FALSE, cp |-> cp, batch |-> <<claim>>,
                        named |-> NotNamed, seen |-> EmptyTable, member |-> FALSE, anchors |-> {} ]
        /\ \A q \in Request : q # p => call'[q] = call[q]
        /\ UNCHANGED <<entries, checkpoints>>
    BY <1>7 DEF PromoteRead, TypeOK
  <2>2. CallSound(call'[p], entries', checkpoints')
    BY <2>1 DEF CallSound
  <2> QED BY <1>2, <2>1, <2>2, OthersUndisturbed
<1>8. ASSUME Crash
      PROVE  \A q \in Request : CallSound(call'[q], entries', checkpoints')
  BY <1>8, IdleIsSound DEF Crash
<1>9. \A q \in Request : CallSound(call'[q], entries', checkpoints')
  BY <1>3, <1>4, <1>5, <1>6, <1>7, <1>8
     DEF Next, Submit, Work, Stage, TxBegin, PromoteRepeated, PromoteNew, PromoteRefused,
         RecordRefused, Rollback, CommitIngest, CommitPromote, vars
<1> QED BY <1>1, <1>9 DEF InFlightSound

-----------------------------------------------------------------------------
(* Safety.  What is published changes only when a transaction commits.     *)

(* Every other step leaves the canonical tables and the answers alone.     *)
LEMMA OnlyCommitsPublish ==
    ASSUME [Next]_vars
    PROVE  \/ staged \subseteq staged' /\ UNCHANGED <<entries, checkpoints, rotations, admitted>>
           \/ \E p \in Request : CommitIngest(p) \/ CommitPromote(p)
  BY DEF Next, Submit, Work, Stage, IngestRead, IngestResolve, PromoteRead, TxBegin,
         PromoteRepeated, PromoteNew, PromoteRefused, RecordRefused, Rollback, Crash, vars

(* What a commit finds: the copy it installs extends the table by claims   *)
(* its checkpoint proves, and its request was judged soundly.              *)
LEMMA CommitFacts ==
    ASSUME TypeOK, InFlightSound, NEW p \in Request, CommitIngest(p) \/ CommitPromote(p)
    PROVE  /\ tx.open /\ tx.owner = p /\ call[p].step = "ready"
           /\ entries' = tx.table /\ staged' = staged
           /\ IsLog(tx.table) /\ IsLog(call[p].seen)
           /\ call[p].cp \in Published /\ IsCheckpoint(call[p].cp)
           /\ IsRestriction(entries, tx.table)
           /\ IsInjective(tx.table)
           /\ CallSound(call[p], entries, checkpoints)
           /\ \A i \in DOMAIN tx.table :
                /\ tx.table[i] \in staged
                /\ \/ i \in DOMAIN entries
                   \/ \E x \in DOMAIN call[p].batch : call[p].batch[x].index = i
           /\ \A x \in DOMAIN call[p].batch :
                /\ call[p].batch[x] \in Claim
                /\ AlreadyPresent(tx.table, call[p].batch[x])
                /\ Proved(p, call[p].batch[x])
<1>1. /\ tx.open /\ tx.owner = p /\ tx # Closed /\ ~Pending(p)
      /\ entries' = tx.table /\ staged' = staged
  BY DEF CommitIngest, CommitPromote, Owns, Closed
<1>2. /\ call[p].step = "ready" /\ IsLog(tx.table)
      /\ tx.done \in 0 .. Len(call[p].batch)
  BY <1>1 DEF TypeOK
<1>3. call[p].batch \in Seq(Claim) /\ IsLog(call[p].seen) /\ call[p].cp \in Published
  BY <1>2, CallTyped DEF TypeOK
<1>4. 1 .. tx.done = DOMAIN call[p].batch
  BY <1>1, <1>2, <1>3 DEF Pending
<1>5. TxSound /\ CallSound(call[p], entries, checkpoints)
  BY DEF InFlightSound
<1> QED BY <1>1, <1>2, <1>3, <1>4, <1>5, SubmissionsTyped DEF TxSound

(* A commit leaves the entries staged and distinct.                        *)
LEMMA EntriesSoundStep ==
    ASSUME TypeOK, InFlightSound, EntriesSound, [Next]_vars
    PROVE  EntriesSound'
<1>1. CASE staged \subseteq staged' /\ UNCHANGED <<entries, checkpoints, rotations, admitted>>
  BY <1>1 DEF EntriesSound
<1>2. ASSUME NEW p \in Request, CommitIngest(p) \/ CommitPromote(p)
      PROVE  EntriesSound'
  BY <1>2, CommitFacts DEF EntriesSound
<1> QED BY <1>1, <1>2, OnlyCommitsPublish

(* The tables only ever receive the checkpoint being answered.             *)
LEMMA RecordsAnsweredStep ==
    ASSUME TypeOK, InFlightSound, RecordsAnswered, [Next]_vars
    PROVE  RecordsAnswered'
<1>1. CASE UNCHANGED <<entries, checkpoints, rotations, admitted>>
  BY <1>1 DEF RecordsAnswered
<1>2. ASSUME NEW p \in Request, CommitIngest(p)
      PROVE  RecordsAnswered'
  <2> DEFINE a == [ cp |-> call[p].cp, batch |-> call[p].batch, seen |-> call[p].seen,
                    member |-> call[p].member, anchors |-> call[p].anchors ]
  <2>1. admitted' = admitted \cup {a}
    BY <1>2 DEF CommitIngest
  <2>2. a.cp = call[p].cp /\ a.anchors = call[p].anchors
    OBVIOUS
  <2>3. a.member <=> call[p].member
    BY Zenon
  <2> HIDE DEF a
  <2>4. \A cp \in checkpoints' : \E b \in admitted' : b.cp = cp /\ b.member
    <3> SUFFICES ASSUME NEW cp \in checkpoints' PROVE \E b \in admitted' : b.cp = cp /\ b.member
      OBVIOUS
    <3>1. CASE cp \in checkpoints
      BY <2>1, <3>1 DEF RecordsAnswered
    <3>2. CASE cp \notin checkpoints
      <4>1. call[p].member /\ cp = call[p].cp
        BY <1>2, <3>2 DEF CommitIngest, NewMembers
      <4> QED BY <2>1, <2>2, <2>3, <4>1
    <3> QED BY <3>1, <3>2
  <2>5. \A r \in rotations' : \E b \in admitted' : b.cp = r.cp /\ r.manifest \in b.anchors
    <3> SUFFICES ASSUME NEW r \in rotations'
                 PROVE  \E b \in admitted' : b.cp = r.cp /\ r.manifest \in b.anchors
      OBVIOUS
    <3>1. CASE r \in rotations
      BY <2>1, <3>1 DEF RecordsAnswered
    <3>2. CASE r \in NewAnchors(rotations, call[p])
      <4>1. r.cp = call[p].cp /\ r.manifest \in call[p].anchors
        BY <3>2 DEF NewAnchors
      <4> QED BY <2>1, <2>2, <4>1
    <3> QED BY <1>2, <3>1, <3>2 DEF CommitIngest
  <2> QED BY <2>4, <2>5 DEF RecordsAnswered
<1>3. ASSUME NEW p \in Request, CommitPromote(p)
      PROVE  RecordsAnswered'
  BY <1>3 DEF CommitPromote, RecordsAnswered
<1> QED BY <1>1, <1>2, <1>3, OnlyCommitsPublish

(* The checkpoint a transaction proves entries under is authenticated by   *)
(* the time the entries are canonical.                                     *)
LEMMA EvidencedStep ==
    ASSUME TypeOK, InFlightSound, RecordsAnswered, EveryEntryEvidenced, [Next]_vars
    PROVE  EveryEntryEvidenced'
<1>1. CASE UNCHANGED <<entries, checkpoints, rotations, admitted>>
  BY <1>1 DEF EveryEntryEvidenced
<1>2. ASSUME NEW p \in Request, CommitIngest(p) \/ CommitPromote(p)
      PROVE  EveryEntryEvidenced'
  <2>1. \E a \in admitted' : a.cp = call[p].cp
    <3>1. CASE CommitIngest(p)
      <4> DEFINE a == [ cp |-> call[p].cp, batch |-> call[p].batch, seen |-> call[p].seen,
                        member |-> call[p].member, anchors |-> call[p].anchors ]
      <4>1. a.cp = call[p].cp
        OBVIOUS
      <4> QED BY <3>1, <4>1 DEF CommitIngest
    <3>2. CASE CommitPromote(p)
      <4>1. call[p].cp \in checkpoints
        BY <1>2, <3>2, CommitFacts DEF CommitPromote, CallSound
      <4> QED BY <3>2, <4>1 DEF CommitPromote, RecordsAnswered
    <3> QED BY <1>2, <3>1, <3>2
  <2>2. admitted \subseteq admitted'
    BY <1>2 DEF CommitIngest, CommitPromote
  <2> SUFFICES ASSUME NEW i \in DOMAIN entries'
               PROVE  \E a \in admitted' : Opens(a.cp, [entry |-> entries'[i], index |-> i])
    BY DEF EveryEntryEvidenced, Opens
  <2>3. CASE i \in DOMAIN entries
    <3>1. entries'[i] = entries[i]
      BY <1>2, <2>3, CommitFacts DEF IsRestriction
    <3> QED BY <2>2, <2>3, <3>1 DEF EveryEntryEvidenced
  <2>4. CASE i \notin DOMAIN entries
    <3>1. PICK x \in DOMAIN call[p].batch : call[p].batch[x].index = i
      BY <1>2, <2>4, CommitFacts
    <3>2. entries'[i] = call[p].batch[x].entry /\ Opens(call[p].cp, call[p].batch[x])
      BY <1>2, <3>1, CommitFacts DEF AlreadyPresent, Proved
    <3>3. Opens(call[p].cp, [entry |-> entries'[i], index |-> i])
      BY <3>1, <3>2 DEF Opens
    <3> QED BY <2>1, <3>3
  <2> QED BY <2>3, <2>4
<1> QED BY <1>1, <1>2, OnlyCommitsPublish

(* Batches are in the copy that is installed, and rows are never removed.  *)
LEMMA BatchesStep ==
    ASSUME TypeOK, InFlightSound, AnsweredBatchesHeld, [Next]_vars
    PROVE  AnsweredBatchesHeld'
<1>1. CASE UNCHANGED <<entries, checkpoints, rotations, admitted>>
  BY <1>1 DEF AnsweredBatchesHeld
<1>2. ASSUME NEW p \in Request, CommitIngest(p) \/ CommitPromote(p)
      PROVE  AnsweredBatchesHeld'
  <2>1. \A a \in admitted' \ admitted : a.batch = call[p].batch
    BY <1>2 DEF CommitIngest, CommitPromote
  <2> SUFFICES ASSUME NEW a \in admitted', NEW x \in DOMAIN a.batch
               PROVE  AlreadyPresent(entries', a.batch[x])
    BY DEF AnsweredBatchesHeld, AlreadyPresent
  <2>2. CASE a \in admitted
    BY <1>2, <2>2, CommitFacts DEF AnsweredBatchesHeld, AlreadyPresent, IsRestriction
  <2>3. CASE a \notin admitted
    BY <1>2, <2>1, <2>3, CommitFacts
  <2> QED BY <2>2, <2>3
<1> QED BY <1>1, <1>2, OnlyCommitsPublish

(* A root check that passes over a held prefix has compared every leaf.    *)
LEMMA CommitKeepsRoot ==
    ASSUME NEW p \in Request, CommitIngest(p),
           HoldsPrefix(entries', call[p].cp.size)
    PROVE  Root(entries', call[p].cp.size) = call[p].cp.root
  BY DEF CommitIngest, RootClash

(* A visible prefix of the checkpoint's whole size is the log it commits.  *)
LEMMA JudgedByTheLogStep ==
    ASSUME TypeOK, InFlightSound, CompleteAdmissionsJudgedByTheLog, [Next]_vars
    PROVE  CompleteAdmissionsJudgedByTheLog'
<1>1. CASE UNCHANGED <<entries, checkpoints, rotations, admitted>>
  BY <1>1 DEF CompleteAdmissionsJudgedByTheLog
<1>2. ASSUME NEW p \in Request, CommitIngest(p)
      PROVE  CompleteAdmissionsJudgedByTheLog'
  <2> DEFINE cp == call[p].cp
             seen == call[p].seen
             a == [ cp |-> cp, batch |-> call[p].batch, seen |-> seen,
                    member |-> call[p].member, anchors |-> call[p].anchors ]
  <2>1. /\ call[p].step = "ready" /\ call[p].records
        /\ CallSound(call[p], entries, checkpoints)
        /\ IsRestriction(entries, entries')
        /\ \A x \in DOMAIN call[p].batch : AlreadyPresent(entries', call[p].batch[x])
        /\ IsLog(seen)
        /\ cp.size \in Nat /\ call[p].batch \in Seq(Claim)
    BY <1>2, CommitFacts, CallTyped DEF CommitIngest, TypeOK
  <2>2. ASSUME DOMAIN seen = 0 .. cp.size - 1
        PROVE  seen = cp.root
    <3>1. \A i \in DOMAIN seen : i \in DOMAIN entries' /\ entries'[i] = seen[i]
      <4> SUFFICES ASSUME NEW i \in DOMAIN seen
                   PROVE  i \in DOMAIN entries' /\ entries'[i] = seen[i]
        OBVIOUS
      <4> DEFINE rows(n) == Root(entries, n)
      <4>1. PICK n \in 0 .. cp.size : HoldsPrefix(entries, n) /\ seen = VisiblePrefix(cp, call[p].batch, rows(n))
        BY <2>1 DEF CallSound
      <4>2. IsLog(rows(n)) /\ \A k \in DOMAIN rows(n) : k \in DOMAIN entries /\ rows(n)[k] = entries[k]
        BY <2>1, <4>1, RootIsLog DEF TypeOK
      <4>3. \/ i \in DOMAIN rows(n) /\ seen[i] = rows(n)[i]
            \/ \E x \in DOMAIN call[p].batch :
                    call[p].batch[x].index = i /\ call[p].batch[x].entry = seen[i]
        <5> HIDE DEF rows
        <5> QED BY <2>1, <4>1, <4>2, VisiblePrefixIsLog
      <4>4. CASE i \in DOMAIN rows(n) /\ seen[i] = rows(n)[i]
        BY <2>1, <4>4, <4>2 DEF IsRestriction
      <4>5. CASE \E x \in DOMAIN call[p].batch :
                    call[p].batch[x].index = i /\ call[p].batch[x].entry = seen[i]
        BY <2>1, <4>5 DEF AlreadyPresent
      <4> QED BY <4>3, <4>4, <4>5
    <3>2. HoldsPrefix(entries', cp.size)
      BY <2>2, <3>1 DEF HoldsPrefix
    <3>3. Root(entries', cp.size) = cp.root
      BY <1>2, <3>2, CommitKeepsRoot
    <3>4. Root(entries', cp.size) = [i \in DOMAIN seen |-> seen[i]]
      BY <2>2, <3>1 DEF Root, Restrict
    <3>5. seen = [i \in DOMAIN seen |-> seen[i]]
      BY <2>1, LogDomain
    <3> QED BY <3>3, <3>4, <3>5
  <2>3. /\ call[p].member <=> VerifiesUnder(Active(seen), cp)
        /\ call[p].anchors = Anchors(seen, cp)
    BY <2>1 DEF CallSound
  <2>4. a.cp = cp /\ a.seen = seen /\ a.anchors = call[p].anchors
    OBVIOUS
  <2>5. a.member <=> call[p].member
    BY Zenon
  <2>6. admitted' = admitted \cup {a}
    BY <1>2 DEF CommitIngest
  <2> HIDE DEF a, cp, seen
  <2> QED BY <2>2, <2>3, <2>4, <2>5, <2>6 DEF CompleteAdmissionsJudgedByTheLog
<1>3. ASSUME NEW p \in Request, CommitPromote(p)
      PROVE  CompleteAdmissionsJudgedByTheLog'
  BY <1>3 DEF CommitPromote, CompleteAdmissionsJudgedByTheLog
<1> QED BY <1>1, <1>2, <1>3, OnlyCommitsPublish

(* An admitted anchor is kept unless one that comes before it is held.     *)
LEMMA EarliestStep ==
    ASSUME TypeOK, InFlightSound, RecordsAnswered, ServedAnchorIsEarliest, [Next]_vars
    PROVE  ServedAnchorIsEarliest'
<1>1. CASE UNCHANGED <<entries, checkpoints, rotations, admitted>>
  BY <1>1 DEF ServedAnchorIsEarliest
<1>2. ASSUME NEW p \in Request, CommitIngest(p)
      PROVE  ServedAnchorIsEarliest'
  <2> DEFINE c == call[p]
             a == [ cp |-> c.cp, batch |-> c.batch, seen |-> c.seen,
                    member |-> c.member, anchors |-> c.anchors ]
  <2>1. /\ admitted' = admitted \cup {a} /\ rotations' = rotations \cup NewAnchors(rotations, c)
        /\ a.cp = c.cp /\ a.anchors = c.anchors
    BY <1>2 DEF CommitIngest
  <2>2. c.cp.size \in Nat /\ c.cp.time \in Nat
    BY <1>2, CommitFacts DEF IsCheckpoint
  <2> HIDE DEF a, c
  <2> SUFFICES ASSUME NEW b \in admitted', NEW m \in b.anchors
               PROVE  \E r \in rotations' :
                        /\ r.manifest = m /\ NotAfter(r.cp, b.cp)
                        /\ \E d \in admitted' : d.cp = r.cp /\ m \in d.anchors
    BY DEF ServedAnchorIsEarliest, NotAfter
  <2>3. CASE b \in admitted
    BY <2>1, <2>3 DEF ServedAnchorIsEarliest
  <2>4. CASE b = a
    <3>1. CASE \E r \in rotations : r.manifest = m /\ NotAfter(r.cp, c.cp)
      BY <2>1, <2>4, <3>1 DEF RecordsAnswered
    <3>2. CASE \A r \in rotations : r.manifest = m => ~NotAfter(r.cp, c.cp)
      <4>1. [manifest |-> m, cp |-> c.cp] \in NewAnchors(rotations, c)
        BY <2>1, <2>4, <3>2 DEF NewAnchors
      <4>2. NotAfter(c.cp, b.cp)
        BY <2>1, <2>2, <2>4 DEF NotAfter
      <4> QED BY <2>1, <2>4, <4>1, <4>2
    <3> QED BY <3>1, <3>2
  <2> QED BY <2>1, <2>3, <2>4
<1>3. ASSUME NEW p \in Request, CommitPromote(p)
      PROVE  ServedAnchorIsEarliest'
  BY <1>3 DEF CommitPromote, ServedAnchorIsEarliest
<1> QED BY <1>1, <1>2, <1>3, OnlyCommitsPublish

(* A checkpoint meeting another in its slot is refused, never recorded.    *)
LEMMA SlotsStep ==
    ASSUME TypeOK, SlotsUnique, [Next]_vars
    PROVE  SlotsUnique'
<1>1. CASE UNCHANGED <<entries, checkpoints, rotations, admitted>>
  BY <1>1 DEF SlotsUnique
<1>2. ASSUME NEW p \in Request, CommitIngest(p)
      PROVE  SlotsUnique'
  <2>1. ASSUME NEW a \in checkpoints', NEW b \in checkpoints', SameSlot(a, b)
        PROVE  a = b
    BY <1>2, <2>1 DEF CommitIngest, MemberClash, NewMembers, SlotsUnique, SameSlot
  <2>2. ASSUME NEW q \in rotations', NEW r \in rotations',
               q.manifest = r.manifest, SameSlot(q.cp, r.cp)
        PROVE  q = r
    <3>1. rotations' = rotations \cup NewAnchors(rotations, call[p])
      BY <1>2 DEF CommitIngest
    <3>2. \A n \in NewAnchors(rotations, call[p]) :
            /\ n = [manifest |-> n.manifest, cp |-> call[p].cp] /\ n.cp = call[p].cp
            /\ n.manifest \in call[p].anchors
      BY DEF NewAnchors
    <3>3. \A n \in rotations : n = [manifest |-> n.manifest, cp |-> n.cp]
      BY DEF TypeOK
    <3>4. \A n \in rotations :
            n.manifest \in call[p].anchors /\ SameSlot(n.cp, call[p].cp) => n.cp = call[p].cp
      BY <1>2 DEF CommitIngest, AnchorClash
    <3>5. q.cp = r.cp
      BY <2>2, <3>1, <3>2, <3>4 DEF SlotsUnique, SameSlot
    <3> QED BY <2>2, <3>1, <3>2, <3>3, <3>5
  <2> QED BY <2>1, <2>2 DEF SlotsUnique, SameSlot
<1>3. ASSUME NEW p \in Request, CommitPromote(p)
      PROVE  SlotsUnique'
  BY <1>3 DEF CommitPromote, SlotsUnique
<1> QED BY <1>1, <1>2, <1>3, OnlyCommitsPublish

-----------------------------------------------------------------------------
(* The inductive invariant.  None of its parts but TypeOK and SlotsUnique  *)
(* is inductive alone: the tables are sound because the open transaction   *)
(* is, and that because requests in flight are.                            *)
IInv ==
    /\ TypeOK
    /\ EntriesSound
    /\ InFlightSound
    /\ RecordsAnswered
    /\ EveryEntryEvidenced
    /\ AnsweredBatchesHeld
    /\ CompleteAdmissionsJudgedByTheLog
    /\ ServedAnchorIsEarliest
    /\ SlotsUnique

(* An empty mirror satisfies it.                                           *)
LEMMA IInvInit == Init => IInv
<1> SUFFICES ASSUME Init PROVE IInv
  OBVIOUS
<1>1. TypeOK
  BY EmptyIsLog DEF Init, TypeOK, IsCall
<1>2. EntriesSound
  BY EmptyIsLog DEF Init, EntriesSound, IsInjective
<1>3. InFlightSound
  BY IdleIsSound DEF Init, InFlightSound, TxSound, Closed
<1>4. EveryEntryEvidenced
  BY EmptyIsLog DEF Init, EveryEntryEvidenced
<1>5. /\ RecordsAnswered /\ AnsweredBatchesHeld /\ CompleteAdmissionsJudgedByTheLog
      /\ ServedAnchorIsEarliest /\ SlotsUnique
  BY <1>1 DEF Init, RecordsAnswered, AnsweredBatchesHeld, CompleteAdmissionsJudgedByTheLog,
              ServedAnchorIsEarliest, SlotsUnique
<1> QED BY <1>1, <1>2, <1>3, <1>4, <1>5 DEF IInv

(* Every step preserves it.                                                *)
LEMMA IInvStep == IInv /\ [Next]_vars => IInv'
  BY TypeStep, EntriesSoundStep, InFlightStep, RecordsAnsweredStep, EvidencedStep,
     BatchesStep, JudgedByTheLogStep, EarliestStep, SlotsStep DEF IInv

(* It holds in every reachable state.                                      *)
THEOREM Inductive == Spec => []IInv
  BY IInvInit, IInvStep, PTL DEF Spec

(* Canonical entries are staged and no entry sits at two indices.          *)
THEOREM EntriesAlwaysSound == Spec => []EntriesSound
<1>1. IInv => EntriesSound
  BY DEF IInv
<1> QED BY <1>1, Inductive, PTL

(* Every canonical entry is a leaf of an authenticated checkpoint.         *)
THEOREM EntriesAlwaysEvidenced == Spec => []EveryEntryEvidenced
<1>1. IInv => EveryEntryEvidenced
  BY DEF IInv
<1> QED BY <1>1, Inductive, PTL

(* A log that never equivocates is mirrored exactly.                       *)
THEOREM HonestLogAlwaysMirrored == Spec => []HonestLogMirrored
<1>1. IInv => HonestLogMirrored
  <2> SUFFICES ASSUME IInv,
                      \A a, b \in admitted : Agree(a.cp, b.cp),
                      NEW a \in admitted, NEW i \in DOMAIN entries \cap DOMAIN a.cp.root
               PROVE  entries[i] = a.cp.root[i]
    BY DEF HonestLogMirrored
  <2>1. PICK b \in admitted : i < b.cp.size /\ b.cp.root[i] = entries[i]
    BY DEF IInv, EveryEntryEvidenced, Opens
  <2>2. i \in DOMAIN b.cp.root
    <3>1. b.cp.root \in [0 .. b.cp.size - 1 -> Entry] /\ b.cp.size \in Nat
      BY SubmissionsTyped DEF IInv, TypeOK, IsCheckpoint
    <3>2. i \in Nat
      BY LogDomain DEF IInv, TypeOK
    <3> QED BY <2>1, <3>1, <3>2
  <2> QED BY <2>1, <2>2 DEF Agree
<1> QED BY <1>1, Inductive, PTL

(* Every answered admission is held complete.                              *)
THEOREM BatchesAlwaysHeld == Spec => []AnsweredBatchesHeld
<1>1. IInv => AnsweredBatchesHeld
  BY DEF IInv
<1> QED BY <1>1, Inductive, PTL

(* An admission over a complete prefix is judged by the committed log.     *)
THEOREM AdmissionsAlwaysJudgedByTheLog == Spec => []CompleteAdmissionsJudgedByTheLog
<1>1. IInv => CompleteAdmissionsJudgedByTheLog
  BY DEF IInv
<1> QED BY <1>1, Inductive, PTL

(* The served anchor does not depend on the order of admissions.           *)
THEOREM AnchorAlwaysEarliest == Spec => []ServedAnchorIsEarliest
<1>1. IInv => ServedAnchorIsEarliest
  BY DEF IInv
<1> QED BY <1>1, Inductive, PTL

(* One slot never holds two checkpoints.                                   *)
THEOREM SlotsAlwaysUnique == Spec => []SlotsUnique
<1>1. IInv => SlotsUnique
  BY DEF IInv
<1> QED BY <1>1, Inductive, PTL

(* What requests read outside the lock stays true until they use it.       *)
THEOREM InFlightAlwaysSound == Spec => []InFlightSound
<1>1. IInv => InFlightSound
  BY DEF IInv
<1> QED BY <1>1, Inductive, PTL

(* No step rewrites or drops what the store holds.                         *)
THEOREM NeverRewritten == Spec => NothingRewritten
<1>1. IInv /\ [Next]_vars =>
        [ /\ staged \subseteq staged'
          /\ IsRestriction(entries, entries')
          /\ checkpoints \subseteq checkpoints'
          /\ rotations \subseteq rotations' ]_vars
  BY TablesGrow DEF IInv, InFlightSound
<1> QED BY <1>1, Inductive, PTL DEF Spec, NothingRewritten

-----------------------------------------------------------------------------
(* The write side implements the atomic one: a commit is an atomic         *)
(* admission or promotion, staging is staging, and every other step of a   *)
(* request, of a transaction or of a crash is a stutter.                   *)

(* The copy a transaction installs is the table with the whole batch.      *)
LEMMA CommitPromotesAll ==
    ASSUME IInv, NEW p \in Request, CommitIngest(p) \/ CommitPromote(p)
    PROVE  PromoteAll(call[p].cp, call[p].batch)
<1> DEFINE batch == call[p].batch
           full == WithBatch(entries, batch)
<1>1. TypeOK /\ InFlightSound
  BY DEF IInv
<1>2. /\ entries' = tx.table /\ IsLog(tx.table)
      /\ IsRestriction(entries, tx.table) /\ IsInjective(tx.table)
      /\ \A i \in DOMAIN tx.table :
            i \in DOMAIN entries \/ \E x \in DOMAIN batch : batch[x].index = i
      /\ \A x \in DOMAIN batch :
            AlreadyPresent(tx.table, batch[x]) /\ Proved(p, batch[x])
  BY <1>1, CommitFacts
<1>3. DOMAIN full = DOMAIN tx.table
  BY <1>2 DEF WithBatch, AlreadyPresent, IsRestriction
<1>4. ASSUME NEW i \in DOMAIN full
      PROVE  full[i] = tx.table[i]
  <2>1. CASE i \in DOMAIN entries
    BY <1>2, <2>1 DEF WithBatch, IsRestriction
  <2>2. CASE i \notin DOMAIN entries
    <3> DEFINE y == CHOOSE x \in DOMAIN batch : batch[x].index = i
    <3>1. y \in DOMAIN batch /\ batch[y].index = i
      BY <1>2, <1>3, <2>2
    <3>2. full[i] = batch[y].entry
      BY <2>2 DEF WithBatch
    <3> HIDE DEF y
    <3> QED BY <1>2, <3>1, <3>2 DEF AlreadyPresent
  <2> QED BY <2>1, <2>2
<1>5. tx.table = [i \in DOMAIN tx.table |-> tx.table[i]]
  BY <1>2, LogDomain
<1>6. full = [i \in DOMAIN full |-> full[i]]
  BY DEF WithBatch
<1>7. entries' = full
  <2> HIDE DEF full
  <2> QED BY <1>2, <1>3, <1>4, <1>5, <1>6
<1>8. HoldsPrefix(entries', Cardinality(DOMAIN entries'))
  BY <1>2, LogDomain DEF HoldsPrefix
<1> QED BY <1>2, <1>7, <1>8 DEF PromoteAll, Proved

(* An ingestion commits the verdict it resolved.                           *)
LEMMA CommitAdmits ==
    ASSUME IInv, NEW p \in Request, CommitIngest(p)
    PROVE  \E s \in Submission : AtomicAdmit(s)
<1> DEFINE c == call[p]
           s == [cp |-> c.cp, batch |-> c.batch, named |-> c.named]
           a == [ cp |-> c.cp, batch |-> c.batch, seen |-> c.seen,
                  member |-> c.member, anchors |-> c.anchors ]
<1>1. /\ TypeOK /\ InFlightSound
      /\ c.step = "ready" /\ c.records
      /\ CallSound(c, entries, checkpoints)
      /\ PromoteAll(c.cp, c.batch)
  BY CommitFacts, CommitPromotesAll DEF IInv, CommitIngest
<1>2. s \in Submission /\ c.cp.size <= MaxTreeSize
  BY <1>1 DEF TypeOK, IsCall, Idle
<1>3. s.cp = c.cp /\ s.batch = c.batch /\ s.named = c.named
  OBVIOUS
<1>4. PICK n \in 0 .. c.cp.size :
        HoldsPrefix(entries, n) /\ c.seen = VisiblePrefix(c.cp, c.batch, Root(entries, n))
  BY <1>1 DEF CallSound
<1>5. /\ Admissible(c.seen, c.cp, c.named)
      /\ c.member <=> VerifiesUnder(Active(c.seen), c.cp)
      /\ c.anchors = Anchors(c.seen, c.cp)
  BY <1>1 DEF CallSound
<1>6. a = Verdict(s, c.seen)
  <2>1. c.member \in BOOLEAN
    <3>1. IsCall(c) /\ c # Idle
      BY <1>1 DEF TypeOK, Idle
    <3> QED BY <1>1, <3>1, Zenon DEF IsCall
  <2>2. VerifiesUnder(Active(c.seen), c.cp) \in BOOLEAN
    BY DEF VerifiesUnder, LogKeyActive, ListAuthorises
  <2>3. c.member = VerifiesUnder(Active(c.seen), c.cp)
    BY <1>5, <2>1, <2>2
  <2> QED BY <1>5, <2>3 DEF Verdict
<1>7. /\ ~RootClash(entries', c.cp)
      /\ ~MemberClash(checkpoints, c) /\ ~AnchorClash(rotations, c)
      /\ checkpoints' = checkpoints \cup NewMembers(c)
      /\ rotations' = rotations \cup NewAnchors(rotations, c)
      /\ admitted' = admitted \cup {a}
      /\ staged' = staged
  BY DEF CommitIngest
<1>8. a.cp = c.cp /\ a.anchors = c.anchors
  OBVIOUS
<1>9. a.member <=> c.member
  BY Zenon
<1> HIDE DEF a, c, s
<1>10. Record(a)
  BY <1>7, <1>8, <1>9 DEF Record, MemberClash, AnchorClash, NewMembers, NewAnchors
<1>11. AtomicAdmit(s)
  BY <1>1, <1>2, <1>3, <1>4, <1>5, <1>6, <1>7, <1>10 DEF AtomicAdmit
<1> QED BY <1>2, <1>11

(* A standalone promotion commits one claim under a recorded member.       *)
LEMMA CommitPromotes ==
    ASSUME IInv, NEW p \in Request, CommitPromote(p)
    PROVE  \E cp \in checkpoints, claim \in Claims : AtomicPromote(cp, claim)
<1>1. /\ TypeOK /\ InFlightSound
      /\ call[p].step = "ready" /\ ~call[p].records
      /\ CallSound(call[p], entries, checkpoints)
      /\ PromoteAll(call[p].cp, call[p].batch)
  BY CommitFacts, CommitPromotesAll DEF IInv, CommitPromote
<1>2. call[p].cp \in checkpoints
  BY <1>1 DEF CallSound
<1>3. \E claim \in Claims : call[p].batch = <<claim>>
  <2>1. IsCall(call[p]) /\ call[p] # Idle
    BY <1>1 DEF TypeOK, Idle
  <2> QED BY <1>1, <2>1 DEF IsCall
<1> QED BY <1>1, <1>2, <1>3 DEF CommitPromote, AtomicPromote

(* Initial states are initial, and every step is an atomic step or none.   *)
THEOREM Refinement == Spec => ImplementsAtomicMirror
<1>1. Init => AtomicInit
  BY DEF Init, AtomicInit
<1>2. IInv /\ [Next]_vars => [AtomicNext]_atomicVars
  <2> SUFFICES ASSUME IInv, [Next]_vars PROVE [AtomicNext]_atomicVars
    OBVIOUS
  <2>1. ASSUME NEW p \in Request, CommitIngest(p) \/ CommitPromote(p)
        PROVE  [AtomicNext]_atomicVars
    BY <2>1, CommitAdmits, CommitPromotes DEF AtomicNext
  <2>2. ASSUME NEW e \in Entry, Stage(e)
        PROVE  [AtomicNext]_atomicVars
    BY <2>2 DEF Stage, AtomicStage, AtomicNext
  <2>3. CASE UNCHANGED atomicVars
    BY <2>3
  <2> QED BY <2>1, <2>2, <2>3, ZenonT(30)
         DEF Next, Submit, Work, IngestRead, IngestResolve, PromoteRead, TxBegin,
             PromoteRepeated, PromoteNew, PromoteRefused, RecordRefused, Rollback,
             Crash, vars, atomicVars
<1> QED BY <1>1, <1>2, Inductive, PTL DEF Spec, AtomicSpec, ImplementsAtomicMirror
=============================================================================
