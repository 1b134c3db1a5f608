---------------------------- MODULE Feed_proofs -----------------------------
(***************************************************************************)
(* An honest log is copied exactly, for any log, any requests of its       *)
(* operator and of strangers and any governance: the copy is a beginning   *)
(* of the log in every state, no request about it is answered a 500, and   *)
(* the answers the routes give, check by check, implement the atomic       *)
(* write side, and the copy grows as a replica of the log may.  What the   *)
(* operator asks is refused only for what is missing, and granted again    *)
(* once it was granted.  Of the walk of module Governance only PrefixWalk  *)
(* and WalkIndices are used.                                               *)
(***************************************************************************)
EXTENDS Feed, Governance_proofs

-----------------------------------------------------------------------------
(* Beginnings of the log.                                                  *)

Beginning(table) ==
    \E m \in Nat : 0 .. m - 1 \subseteq DOMAIN Log /\ table = Root(Log, m)

(* A table of some rows of the log whose indices have no gap is one.       *)
LEMMA RowsOfTheLog ==
    ASSUME NEW m \in Nat, 0 .. m - 1 \subseteq DOMAIN Log
    PROVE  /\ DOMAIN Root(Log, m) = 0 .. m - 1
           /\ \A i \in 0 .. m - 1 : Root(Log, m)[i] = Log[i]
           /\ IsInjective(Root(Log, m))
           /\ NextIndex(Root(Log, m)) = m
           /\ Cardinality(DOMAIN Root(Log, m)) = m
<1>1. DOMAIN Root(Log, m) = 0 .. m - 1 /\ \A i \in 0 .. m - 1 : Root(Log, m)[i] = Log[i]
  BY DEF Root, Restrict
<1>2. IsInjective(Root(Log, m))
  BY <1>1, HonestLogAssumption DEF IsInjective
<1>3. NextIndex(Root(Log, m)) = m
  <2>1. CASE m = 0
    BY <1>1, <2>1 DEF NextIndex
  <2>2. CASE m > 0
    <3>1. m - 1 \in 0 .. m - 1 /\ \A k \in 0 .. m - 1 : m - 1 >= k
      BY <2>2
    <3>2. \A x \in 0 .. m - 1 : (\A k \in 0 .. m - 1 : x >= k) => x = m - 1
      BY <3>1
    <3>3. Max(0 .. m - 1) = m - 1
      BY <3>1, <3>2 DEF Max
    <3> QED BY <1>1, <3>1, <3>3 DEF NextIndex
  <2> QED BY <2>1, <2>2
<1>4. Cardinality(DOMAIN Root(Log, m)) = m
  BY <1>1, FS_Interval
<1> QED BY <1>1, <1>2, <1>3, <1>4

(* What a genuine checkpoint commits is a beginning, and a claim that      *)
(* opens it names an entry of the log at its own index.                    *)
LEMMA GenuineOpens ==
    ASSUME NEW cp \in Published, IsRestriction(cp.root, Log),
           NEW claim \in Claim, Opens(cp, claim)
    PROVE  claim.index \in DOMAIN Log /\ Log[claim.index] = claim.entry
<1>1. cp.size \in Nat /\ DOMAIN cp.root = 0 .. cp.size - 1
  BY SubmissionAssumption DEF Published, IsCheckpoint
<1>2. claim.index \in DOMAIN cp.root
  BY <1>1 DEF Opens, Claim
<1> QED BY <1>2 DEF Opens, IsRestriction

-----------------------------------------------------------------------------
(* A batch that is accepted claim by claim.                                *)

(* A claim accepted over a beginning of the log leaves no gap.             *)
LEMMA ClaimLeavesNoGap ==
    ASSUME NEW cp \in Published, IsRestriction(cp.root, Log),
           NEW claim \in Claim, NEW m \in Nat, 0 .. m - 1 \subseteq DOMAIN Log,
           ClaimVerdict(Root(Log, m), cp, claim) = Accepted
    PROVE  /\ claim.entry \in staged /\ Opens(cp, claim)
           /\ claim.index \in DOMAIN Log /\ Log[claim.index] = claim.entry
           /\ claim.index \in 0 .. m
<1>1. /\ claim.entry \in staged /\ Opens(cp, claim)
      /\ AlreadyPresent(Root(Log, m), claim) \/ claim.index = NextIndex(Root(Log, m))
  BY DEF ClaimVerdict, Accepted
<1>2. claim.index \in 0 .. m
  BY <1>1, RowsOfTheLog DEF AlreadyPresent
<1> QED BY <1>1, <1>2, GenuineOpens

(* With rows of the log and claims that name its entries at their indices, *)
(* a table is the log's rows on their indices.                             *)
LEMMA ClaimsOfTheLog ==
    ASSUME NEW m \in Nat, 0 .. m - 1 \subseteq DOMAIN Log, entries = Root(Log, m),
           NEW batch,
           \A x \in DOMAIN batch :
                batch[x].index \in DOMAIN Log /\ Log[batch[x].index] = batch[x].entry
    PROVE  WithBatch(entries, batch)
                = Restrict(Log, 0 .. m - 1 \cup {batch[x].index : x \in DOMAIN batch})
<1> DEFINE chosen(i) == CHOOSE x \in DOMAIN batch : batch[x].index = i
           held == 0 .. m - 1 \cup {batch[x].index : x \in DOMAIN batch}
<1>1. DOMAIN entries = 0 .. m - 1 /\ \A i \in 0 .. m - 1 : entries[i] = Log[i]
  BY RowsOfTheLog
<1>2. \A i \in held \ 0 .. m - 1 : chosen(i) \in DOMAIN batch /\ batch[chosen(i)].index = i
  OBVIOUS
<1>3. WithBatch(entries, batch) =
        [i \in held |-> IF i \in 0 .. m - 1 THEN entries[i] ELSE batch[chosen(i)].entry]
  BY <1>1 DEF WithBatch
<1> HIDE DEF chosen, held
<1>4. \A i \in held : (IF i \in 0 .. m - 1 THEN entries[i] ELSE batch[chosen(i)].entry) = Log[i]
  BY <1>1, <1>2
<1>5. WithBatch(entries, batch) = [i \in held |-> Log[i]]
  BY <1>3, <1>4
<1> QED BY <1>5 DEF Restrict, held

(* Every claim of an accepted batch is accepted over the claims before it. *)
LEMMA AcceptedClaimByClaim ==
    ASSUME NEW cp, NEW batch, BatchVerdict(cp, batch) = Accepted, DOMAIN batch \in SUBSET Nat
    PROVE  \A n \in DOMAIN batch : ClaimAt(cp, batch, n) = Accepted
<1> DEFINE refused == {n \in DOMAIN batch : ClaimAt(cp, batch, n) # Accepted}
<1>1. SUFFICES ASSUME refused # {} PROVE FALSE
  OBVIOUS
<1>2. PICK n \in refused : \A m \in refused : n <= m
  <2>1. refused \in SUBSET Nat
    OBVIOUS
  <2> HIDE DEF refused
  <2> QED BY <1>1, <2>1, Order!LeastNatural
<1>3. Min(refused) \in refused
  BY <1>2 DEF Min
<1> QED BY <1>1, <1>3 DEF BatchVerdict

(* Claims of the log taken one by one, each no further than the first free *)
(* index, make one beginning of the log after another.                     *)
LEMMA BatchInOrder ==
    ASSUME NEW cp, NEW batch \in Seq(Claim), Beginning(entries),
           \A x \in DOMAIN batch :
                batch[x].index \in DOMAIN Log /\ Log[batch[x].index] = batch[x].entry,
           \A n \in 1 .. Len(batch), m \in Nat :
                0 .. m - 1 \subseteq DOMAIN Log /\ After(cp, batch, n - 1) = Root(Log, m)
                    => batch[n].index \in 0 .. m
    PROVE  /\ \A n \in 0 .. Len(batch) : Beginning(After(cp, batch, n))
           /\ WithBatch(entries, batch) = After(cp, batch, Len(batch))
<1> DEFINE len == Len(batch)
           part(n) == SubSeq(batch, 1, n)
           indices(n) == {batch[x].index : x \in 1 .. n}
           good(n) == \E m \in Nat : /\ 0 .. m - 1 \subseteq DOMAIN Log
                                     /\ After(cp, batch, n) = Root(Log, m)
<1>1. PICK k \in Nat : 0 .. k - 1 \subseteq DOMAIN Log /\ entries = Root(Log, k)
  BY DEF Beginning
<1>2. /\ len \in Nat /\ DOMAIN batch = 1 .. len
      /\ \A n \in 0 .. len : DOMAIN part(n) = 1 .. n /\ \A x \in 1 .. n : part(n)[x] = batch[x]
  OBVIOUS
<1>3. ASSUME NEW n \in 0 .. len
      PROVE  After(cp, batch, n) = Restrict(Log, 0 .. k - 1 \cup indices(n))
  <2>1. \A x \in DOMAIN part(n) :
            part(n)[x].index \in DOMAIN Log /\ Log[part(n)[x].index] = part(n)[x].entry
    BY <1>2
  <2>2. WithBatch(entries, part(n))
            = Restrict(Log, 0 .. k - 1 \cup {part(n)[x].index : x \in DOMAIN part(n)})
    <3> HIDE DEF part
    <3> QED BY <1>1, <2>1, ClaimsOfTheLog, SMTT(30)
  <2>3. {part(n)[x].index : x \in DOMAIN part(n)} = indices(n)
    BY <1>2
  <2> QED BY <2>2, <2>3 DEF After
<1>4. good(0)
  <2>1. 0 .. k - 1 \cup indices(0) = 0 .. k - 1
    OBVIOUS
  <2>2. After(cp, batch, 0) = Restrict(Log, 0 .. k - 1)
    BY <1>2, <1>3, <2>1
  <2> QED BY <1>1, <2>2 DEF Root
<1>5. ASSUME NEW n \in 1 .. len, good(n - 1)
      PROVE  good(n)
  <2>1. PICK m \in Nat : 0 .. m - 1 \subseteq DOMAIN Log
                         /\ After(cp, batch, n - 1) = Root(Log, m)
    BY <1>5
  <2>2. batch[n].index \in 0 .. m
    BY <1>2, <2>1
  <2>3. 0 .. k - 1 \cup indices(n - 1) = 0 .. m - 1
    <3>1. n - 1 \in 0 .. len
      BY <1>2
    <3> HIDE DEF indices
    <3>2. After(cp, batch, n - 1) = Restrict(Log, 0 .. k - 1 \cup indices(n - 1))
      BY <1>3, <3>1
    <3>3. DOMAIN After(cp, batch, n - 1) = 0 .. k - 1 \cup indices(n - 1)
      BY <3>2 DEF Restrict
    <3> QED BY <2>1, <3>3, RowsOfTheLog
  <2>4. indices(n) = indices(n - 1) \cup {batch[n].index}
    OBVIOUS
  <2> DEFINE longer == IF batch[n].index = m THEN m + 1 ELSE m
  <2>5. longer \in Nat /\ 0 .. k - 1 \cup indices(n) = 0 .. longer - 1
    <3> HIDE DEF indices
    <3> QED BY <2>1, <2>2, <2>3, <2>4
  <2>6. 0 .. longer - 1 \subseteq DOMAIN Log
    <3>1. batch[n].index \in DOMAIN Log
      BY <1>2
    <3> QED BY <2>1, <2>2, <3>1
  <2>7. After(cp, batch, n) = Root(Log, longer)
    <3> HIDE DEF indices, longer
    <3> QED BY <1>2, <1>3, <2>5 DEF Root
  <2> QED BY <2>5, <2>6, <2>7
<1>6. \A n \in 0 .. len : good(n)
  <2> DEFINE bad == {n \in 0 .. len : ~good(n)}
  <2> HIDE DEF good
  <2>1. SUFFICES ASSUME bad # {} PROVE FALSE
    OBVIOUS
  <2>2. bad \in SUBSET Nat
    BY <1>2
  <2>3. PICK n \in bad : \A m \in bad : n <= m
    <3> HIDE DEF bad
    <3> QED BY <2>1, <2>2, Order!LeastNatural
  <2>4. n \in 0 .. len /\ ~good(n) /\ n # 0
    BY <1>4, <2>3
  <2>5. n \in 1 .. len /\ n - 1 \in 0 .. len /\ n - 1 \notin bad
    BY <1>2, <2>3, <2>4
  <2> QED BY <1>5, <2>4, <2>5
<1>7. part(len) = batch
  BY <1>2
<1>8. WithBatch(entries, batch) = After(cp, batch, len)
  BY <1>7 DEF After
<1> QED BY <1>6, <1>8 DEF Beginning

(* An accepted batch of a genuine checkpoint, over a beginning of the log, *)
(* makes a longer beginning of it and is promoted whole.                   *)
LEMMA BatchIsCopied ==
    ASSUME NEW cp \in Published, IsRestriction(cp.root, Log),
           NEW batch \in Seq(Claim), Beginning(entries),
           BatchVerdict(cp, batch) = Accepted
    PROVE  /\ Beginning(WithBatch(entries, batch))
           /\ \A x \in DOMAIN batch :
                /\ batch[x].entry \in staged /\ Opens(cp, batch[x])
                /\ batch[x].index \in DOMAIN Log /\ Log[batch[x].index] = batch[x].entry
<1> DEFINE len == Len(batch)
<1>1. len \in Nat /\ DOMAIN batch = 1 .. len /\ \A x \in 1 .. len : batch[x] \in Claim
  OBVIOUS
<1>2. \A n \in 1 .. len : ClaimVerdict(After(cp, batch, n - 1), cp, batch[n]) = Accepted
  BY <1>1, AcceptedClaimByClaim DEF ClaimAt
<1>3. \A n \in 1 .. len : Opens(cp, batch[n]) /\ batch[n].entry \in staged
  BY <1>2 DEF ClaimVerdict, Accepted
<1>4. \A n \in 1 .. len : batch[n].index \in DOMAIN Log /\ Log[batch[n].index] = batch[n].entry
  BY <1>1, <1>3, GenuineOpens
<1>5. \A n \in 1 .. len, m \in Nat :
        0 .. m - 1 \subseteq DOMAIN Log /\ After(cp, batch, n - 1) = Root(Log, m)
            => batch[n].index \in 0 .. m
  BY <1>1, <1>2, ClaimLeavesNoGap
<1>6. Beginning(WithBatch(entries, batch))
  <2>1. /\ \A n \in 0 .. Len(batch) : Beginning(After(cp, batch, n))
        /\ WithBatch(entries, batch) = After(cp, batch, Len(batch))
    <3>1. \A x \in DOMAIN batch :
            batch[x].index \in DOMAIN Log /\ Log[batch[x].index] = batch[x].entry
      BY <1>1, <1>4
    <3> QED BY <1>5, <3>1, BatchInOrder
  <2> QED BY <1>1, <2>1
<1> QED BY <1>1, <1>3, <1>4, <1>6

-----------------------------------------------------------------------------
(* The verdict on an ingestion.                                            *)

LEMMA TheOne == ASSUME NEW v PROVE The({v}) = v
  BY DEF The

(* A posted ingestion, and what is genuine of it.                          *)
LEMMA IngestionsTyped ==
    ASSUME NEW q \in Requests, q.kind = "ingest"
    PROVE  /\ [cp |-> q.cp, batch |-> q.batch, named |-> q.named] \in Submission
           /\ q.cp \in Published /\ q.cp.size \in Nat /\ q.batch \in Seq(Claim)
           /\ q.cp.root \in [0 .. q.cp.size - 1 -> Entry]
           /\ q.cp.genuine <=> q.fault = Accepted
           /\ q.cp.genuine => IsRestriction(q.cp.root, Log)
           /\ q.fault \in SignatureFaults \cup {Accepted}
<1> DEFINE s == [cp |-> q.cp, batch |-> q.batch, named |-> q.named]
<1>1. s \in Submission /\ s.cp = q.cp /\ s.batch = q.batch
  BY HonestLogAssumption
<1>2. q.cp \in Published
  BY <1>1 DEF Published
<1> HIDE DEF s
<1>3. IsCheckpoint(q.cp) /\ q.batch \in Seq(Claim)
  BY <1>1, SubmissionAssumption
<1>4. q.fault \in SignatureFaults \cup {Accepted}
  BY RequestAssumption
<1> QED BY <1>1, <1>2, <1>3, <1>4, HonestLogAssumption DEF IsCheckpoint, s

(* The verdict, without its intermediate names.                            *)
LEMMA VerdictUnfolds ==
    ASSUME NEW q \in Requests, q.kind = "ingest", NEW seen
    PROVE  LET log == VisiblePrefix(q.cp, q.batch, seen)
               overlay == OverlayVerdict(q.cp, q.batch, Cardinality(DOMAIN seen))
               a == Verdict(q, log)
           IN  IngestVerdict(q, seen) =
                    IF q.cp.size > MaxTreeSize THEN "TreeSizeUnrepresentable"
                    ELSE IF overlay # Accepted THEN overlay
                    ELSE IF Walk(log).aborted THEN "StatementRefused"
                    ELSE IF ~Established(Walk(log)) THEN "GovernanceChainUnresolvable"
                    ELSE Judged(q, a, Governing(Walk(log)))
<1> DEFINE log == VisiblePrefix(q.cp, q.batch, seen)
           a == Verdict(q, log)
           judged == Judged(q, a, Governing(Walk(log)))
<1>1. The(UNION {{Governed(q, l, walk) : walk \in {Walk(l)}} : l \in {log}})
        = Governed(q, log, Walk(log))
  <2>1. UNION {{Governed(q, l, walk) : walk \in {Walk(l)}} : l \in {log}}
            = {Governed(q, log, Walk(log))}
    <3> HIDE DEF log
    <3> QED OBVIOUS
  <2> QED BY <2>1, TheOne
<1>2. The({Judged(q, b, Governing(Walk(log))) : b \in {Verdict(q, log)}}) = judged
  <2>1. {Judged(q, b, Governing(Walk(log))) : b \in {Verdict(q, log)}} = {judged}
    <3> HIDE DEF log
    <3> QED OBVIOUS
  <2> QED BY <2>1, TheOne
<1>3. Governed(q, log, Walk(log)) =
        IF Walk(log).aborted THEN "StatementRefused"
        ELSE IF ~Established(Walk(log)) THEN "GovernanceChainUnresolvable"
        ELSE judged
  BY <1>2 DEF Governed
<1> QED BY <1>1, <1>3 DEF IngestVerdict

LEMMA AnswerUnfolds ==
    ASSUME NEW q, NEW seen
    PROVE  IngestAnswer(q, seen) =
                IF IngestVerdict(q, seen) = Accepted THEN Created
                ELSE Refused(IngestVerdict(q, seen))
<1> DEFINE answer(v) == IF v = Accepted THEN Created ELSE Refused(v)
<1>1. {answer(v) : v \in {IngestVerdict(q, seen)}} = {answer(IngestVerdict(q, seen))}
  <2> HIDE DEF answer
  <2> QED OBVIOUS
<1>2. The({answer(v) : v \in {IngestVerdict(q, seen)}}) = answer(IngestVerdict(q, seen))
  BY <1>1, TheOne
<1> QED BY <1>2 DEF IngestAnswer

(* A checkpoint that is a member or anchors a rotation is genuine, and so  *)
(* is one the ordinary rule passes.                                        *)
LEMMA GenuineOrRefused ==
    ASSUME NEW q \in Requests, q.kind = "ingest", NEW log,
           NEW a, a = Verdict(q, log)
    PROVE  /\ a.member \/ a.anchors # {} => q.cp.genuine
           /\ ~a.member => KeyVerdict(Active(log), q.cp, q.fault) # Accepted
           /\ KeyVerdict(Active(log), q.cp, q.fault) \in
                {"UnknownSigningKey", "KeyNotYetActive", Accepted} \cup SignatureFaults
<1>1. a.member = VerifiesUnder(Active(log), q.cp) /\ a.anchors = Anchors(log, q.cp)
  BY DEF Verdict
<1>2. a.member \/ a.anchors # {} => q.cp.genuine
  BY <1>1 DEF VerifiesUnder, Anchors
<1>3. ~a.member => KeyVerdict(Active(log), q.cp, q.fault) # Accepted
  BY <1>1, IngestionsTyped DEF VerifiesUnder, KeyVerdict, Accepted
<1>4. KeyVerdict(Active(log), q.cp, q.fault) \in
        {"UnknownSigningKey", "KeyNotYetActive", Accepted} \cup SignatureFaults
  BY IngestionsTyped DEF KeyVerdict
<1> QED BY <1>2, <1>3, <1>4

(* An accepted ingestion passed every check.                               *)
LEMMA AcceptedIngestion ==
    ASSUME NEW q \in Requests, q.kind = "ingest", NEW seen, IngestAnswer(q, seen) = Created
    PROVE  LET log == VisiblePrefix(q.cp, q.batch, seen)
               a == Verdict(q, log)
           IN  /\ q.cp.size <= MaxTreeSize
               /\ Admissible(log, q.cp, q.named)
               /\ q.cp.genuine
               /\ TransactionVerdict(q, a) = Accepted
<1> DEFINE log == VisiblePrefix(q.cp, q.batch, seen)
           a == Verdict(q, log)
<1>1. IngestVerdict(q, seen) = Accepted
  BY AnswerUnfolds DEF Created, Refused, Accepted, Status
<1>2. /\ q.cp.size <= MaxTreeSize
      /\ Resolvable(log)
      /\ Judged(q, a, Active(log)) = Accepted
  <2> HIDE DEF log, a
  <2>1. q.cp.size \in Nat /\ MaxTreeSize \in Nat
    BY IngestionsTyped, MaxTreeSizeAssumption
  <2> QED BY <1>1, <2>1, VerdictUnfolds DEF Resolvable, Active, Accepted, log, a
<1>3. /\ q.named = NotNamed \/ q.named \in a.anchors
      /\ a.member \/ a.anchors # {}
      /\ TransactionVerdict(q, a) = Accepted
  <2> HIDE DEF log, a
  <2>1. ~(~a.member /\ a.anchors = {})
    BY <1>2, GenuineOrRefused DEF Judged, Accepted, a
  <2> QED BY <1>2, <2>1 DEF Judged, Accepted
<1>4. a.member = VerifiesUnder(Active(log), q.cp) /\ a.anchors = Anchors(log, q.cp)
  BY DEF Verdict
<1>5. q.cp.genuine
  BY <1>3, GenuineOrRefused
<1> HIDE DEF log, a
<1> QED BY <1>2, <1>3, <1>4, <1>5 DEF Admissible, log, a

-----------------------------------------------------------------------------
(* The invariant.  The rows held are a beginning of the log; the members   *)
(* are the operator's; the rows an ingestion in flight has read are still  *)
(* the first ones held.                                                    *)
HeldIsTheLogs ==
    /\ Beginning(entries)
    /\ IsFiniteSet(checkpoints)
    /\ \A cp \in checkpoints : cp \in Published /\ IsRestriction(cp.root, Log)

Judging(lane, q, m) ==
    /\ q.kind = "ingest"
    /\ HoldsPrefix(entries, m)
    /\ judging[lane] = [request |-> {q}, seen |-> Root(Log, m)]
JudgingSound ==
    /\ judging = [lane \in Lanes |-> judging[lane]]
    /\ \A lane \in Lanes :
            \/ judging[lane] = Nothing
            \/ \E q \in OfLane(lane) : \E m \in 0 .. q.cp.size : Judging(lane, q, m)

IInv == HeldIsTheLogs /\ JudgingSound

LEMMA IInvInit == Init => IInv
<1> SUFFICES ASSUME Init PROVE IInv
  OBVIOUS
<1>1. Beginning(entries)
  <2>1. entries = Root(Log, 0) /\ 0 .. 0 - 1 \subseteq DOMAIN Log
    BY DEF Init, AtomicInit, EmptyTable, Root, Restrict
  <2> QED BY <2>1 DEF Beginning
<1>2. checkpoints = {} /\ IsFiniteSet({})
  BY FS_EmptySet DEF Init, AtomicInit
<1>3. JudgingSound
  BY DEF Init, JudgingSound
<1> QED BY <1>1, <1>2, <1>3 DEF IInv, HeldIsTheLogs

(* What is in flight stays sound while the rows grow.                      *)
LEMMA InFlightUndisturbed ==
    ASSUME JudgingSound, DOMAIN entries \subseteq DOMAIN entries', UNCHANGED judging
    PROVE  JudgingSound'
<1>1. \A lane, q, m : Judging(lane, q, m) => Judging(lane, q, m)'
  BY DEF Judging, HoldsPrefix
<1> QED BY <1>1 DEF JudgingSound

(* The rows read are those of the table, as far as it held them.           *)
LEMMA ReadIsHeld ==
    ASSUME HeldIsTheLogs, NEW m \in Nat, HoldsPrefix(entries, m)
    PROVE  Root(Log, m) = Root(entries, m)
<1>1. PICK k \in Nat : 0 .. k - 1 \subseteq DOMAIN Log /\ entries = Root(Log, k)
  BY DEF HeldIsTheLogs, Beginning
<1>2. \A i \in 0 .. m - 1 : entries[i] = Log[i]
  BY <1>1, RowsOfTheLog DEF HoldsPrefix
<1> QED BY <1>2 DEF Root, Restrict

(* An ingestion reads the first rows held, up to its size.                 *)
LEMMA BelowIsRead ==
    ASSUME HeldIsTheLogs, NEW n \in Nat
    PROVE  \E m \in 0 .. n : HoldsPrefix(entries, m) /\ Below(entries, n) = Root(Log, m)
<1>1. PICK k \in Nat : 0 .. k - 1 \subseteq DOMAIN Log /\ entries = Root(Log, k)
  BY DEF HeldIsTheLogs, Beginning
<1> DEFINE m == IF k <= n THEN k ELSE n
<1>2. DOMAIN entries = 0 .. k - 1 /\ \A i \in 0 .. k - 1 : entries[i] = Log[i]
  BY <1>1, RowsOfTheLog
<1>3. /\ m \in 0 .. n /\ 0 .. m - 1 \subseteq 0 .. k - 1
      /\ {i \in 0 .. k - 1 : i < n} = 0 .. m - 1
  OBVIOUS
<1> HIDE DEF m
<1>4. Below(entries, n) = [i \in 0 .. m - 1 |-> entries[i]]
  BY <1>2, <1>3 DEF Below, Restrict
<1>5. Below(entries, n) = Root(Log, m)
  BY <1>2, <1>3, <1>4 DEF Root, Restrict
<1> QED BY <1>2, <1>3, <1>5 DEF HoldsPrefix

(* A batch copied is a batch promoted whole.                               *)
LEMMA CopiedIsPromoted ==
    ASSUME NEW cp, NEW batch, entries' = WithBatch(entries, batch),
           Beginning(entries'),
           \A x \in DOMAIN batch :
                /\ batch[x].entry \in staged /\ Opens(cp, batch[x])
                /\ batch[x].index \in DOMAIN Log /\ Log[batch[x].index] = batch[x].entry
    PROVE  PromoteAll(cp, batch) /\ DOMAIN entries \subseteq DOMAIN entries'
<1>1. PICK m \in Nat : 0 .. m - 1 \subseteq DOMAIN Log /\ entries' = Root(Log, m)
  BY DEF Beginning
<1>2. /\ DOMAIN entries' = 0 .. m - 1
      /\ \A i \in 0 .. m - 1 : entries'[i] = Log[i]
      /\ IsInjective(entries')
      /\ Cardinality(DOMAIN entries') = m
  BY <1>1, RowsOfTheLog
<1>3. DOMAIN entries' = DOMAIN entries \cup {batch[x].index : x \in DOMAIN batch}
  BY DEF WithBatch
<1>4. \A x \in DOMAIN batch : AlreadyPresent(entries', batch[x])
  BY <1>2, <1>3 DEF AlreadyPresent
<1>5. HoldsPrefix(entries', Cardinality(DOMAIN entries'))
  BY <1>2 DEF HoldsPrefix
<1> QED BY <1>2, <1>3, <1>4, <1>5 DEF PromoteAll

-----------------------------------------------------------------------------
(* The steps.                                                              *)

LEMMA StagingStep ==
    ASSUME IInv, NEW q \in Requests, StageRequest(q)
    PROVE  IInv' /\ \E e \in Entry : AtomicStage(e)
<1>1. q.entry \in Entry /\ AtomicStage(q.entry) /\ UNCHANGED judging
  BY RequestAssumption DEF StageRequest
<1>2. UNCHANGED <<entries, checkpoints>>
  BY <1>1 DEF AtomicStage
<1>3. IInv'
  BY <1>1, <1>2, InFlightUndisturbed DEF IInv, HeldIsTheLogs, Beginning
<1> QED BY <1>1, <1>3

(* promote_handler takes the latest member of the size, and promotes one   *)
(* claim under it.                                                         *)
LEMMA PromotionStep ==
    ASSUME IInv, NEW q \in Requests, PromoteRequest(q)
    PROVE  IInv' /\ \E cp \in checkpoints, claim \in Claims : AtomicPromote(cp, claim)
<1> DEFINE found == OfSize(checkpoints, q.size)
           cp == Latest(found)
<1>1. q.claim \in Claims /\ q.kind = "promote"
  BY RequestAssumption DEF PromoteRequest
<1>2. q.claim \in Claim
  <2>1. PICK s \in Submission : q.claim \in Range(s.batch)
    BY <1>1 DEF Claims
  <2>2. s.batch \in Seq(Claim)
    BY SubmissionAssumption
  <2> QED BY <2>1, <2>2 DEF Range
<1>3. found # {} /\ ClaimVerdict(entries, cp, q.claim) = Accepted
  BY DEF PromoteRequest, PromoteAnswer, Created, Refused, Accepted
<1>4. cp \in checkpoints /\ cp \in Published /\ IsRestriction(cp.root, Log)
  <2>1. /\ IsFiniteSet(checkpoints)
        /\ \A c \in checkpoints : c \in Published /\ IsRestriction(c.root, Log)
    BY DEF IInv, HeldIsTheLogs
  <2>2. found \in SUBSET checkpoints
    BY DEF OfSize
  <2>3. IsFiniteSet(found)
    BY <2>1, <2>2, FS_Subset
  <2>4. Sized(found)
    BY <2>1, <2>2, SubmissionAssumption DEF Sized, Published, IsCheckpoint
  <2>5. cp \in found
    <3> HIDE DEF found
    <3> QED BY <1>3, <2>3, <2>4, LatestExists
  <2> QED BY <2>1, <2>2, <2>5
<1> DEFINE batch == <<q.claim>>
<1>5. PICK m \in Nat : 0 .. m - 1 \subseteq DOMAIN Log /\ entries = Root(Log, m)
  BY DEF IInv, HeldIsTheLogs, Beginning
<1> HIDE DEF cp, found
<1>6. /\ q.claim.entry \in staged /\ Opens(cp, q.claim)
      /\ q.claim.index \in DOMAIN Log /\ Log[q.claim.index] = q.claim.entry
      /\ q.claim.index \in 0 .. m
  BY <1>2, <1>3, <1>4, <1>5, ClaimLeavesNoGap
<1>7. entries' = WithBatch(entries, batch)
  BY DEF PromoteRequest
<1>8. DOMAIN batch = {1} /\ batch[1] = q.claim
  OBVIOUS
<1> HIDE DEF batch
<1>9. Beginning(entries')
  <2> DEFINE n == IF q.claim.index = m THEN m + 1 ELSE m
  <2>1. {batch[x].index : x \in DOMAIN batch} = {q.claim.index}
    BY <1>8
  <2>2. entries' = Restrict(Log, 0 .. m - 1 \cup {q.claim.index})
    BY <1>5, <1>6, <1>7, <1>8, <2>1, ClaimsOfTheLog
  <2>3. /\ n \in Nat /\ 0 .. m - 1 \cup {q.claim.index} = 0 .. n - 1
        /\ 0 .. n - 1 \subseteq DOMAIN Log
    BY <1>5, <1>6
  <2> HIDE DEF n
  <2> QED BY <2>2, <2>3 DEF Beginning, Root
<1>10. PromoteAll(cp, batch) /\ DOMAIN entries \subseteq DOMAIN entries'
  BY <1>6, <1>7, <1>8, <1>9, CopiedIsPromoted
<1>11. UNCHANGED <<staged, checkpoints, rotations, admitted, judging>>
  BY DEF PromoteRequest
<1>12. IInv'
  BY <1>9, <1>10, <1>11, InFlightUndisturbed DEF IInv, HeldIsTheLogs
<1> QED BY <1>1, <1>4, <1>10, <1>11, <1>12 DEF AtomicPromote, batch

(* A reader leaves the store alone and holds what it read.                 *)
LEMMA BeginStep ==
    ASSUME IInv, NEW lane \in Lanes, NEW q \in OfLane(lane), BeginIngest(lane, q)
    PROVE  IInv' /\ UNCHANGED atomicVars
<1>1. /\ q.kind = "ingest" /\ UNCHANGED atomicVars
      /\ judging' = [judging EXCEPT ![lane] =
                        [request |-> {q}, seen |-> Below(entries, q.cp.size)]]
  BY DEF BeginIngest
<1>2. q \in Requests
  BY DEF OfLane, Requests
<1>3. PICK m \in 0 .. q.cp.size :
        HoldsPrefix(entries, m) /\ Below(entries, q.cp.size) = Root(Log, m)
  BY <1>1, <1>2, IngestionsTyped, BelowIsRead DEF IInv
<1>4. judging = [l \in Lanes |-> judging[l]]
  BY DEF IInv, JudgingSound
<1>5. /\ judging'[lane] = [request |-> {q}, seen |-> Root(Log, m)]
      /\ \A l \in Lanes \ {lane} : judging'[l] = judging[l]
      /\ judging' = [l \in Lanes |-> judging'[l]]
  BY <1>1, <1>3, <1>4
<1>6. Judging(lane, q, m)'
  BY <1>1, <1>3, <1>5 DEF Judging, HoldsPrefix, atomicVars
<1>7. \A l \in Lanes \ {lane} : \A o, n : Judging(l, o, n) => Judging(l, o, n)'
  BY <1>1, <1>5 DEF Judging, HoldsPrefix, atomicVars
<1>8. JudgingSound'
  <2> SUFFICES ASSUME NEW l \in Lanes
               PROVE  \/ judging'[l] = Nothing
                      \/ \E o \in OfLane(l) : \E n \in 0 .. o.cp.size : Judging(l, o, n)'
    BY <1>5 DEF JudgingSound
  <2>1. CASE l = lane
    BY <1>6, <2>1
  <2>2. CASE l # lane
    BY <1>5, <1>7, <2>2 DEF IInv, JudgingSound
  <2> QED BY <2>1, <2>2
<1> QED BY <1>1, <1>8 DEF IInv, HeldIsTheLogs, Beginning, atomicVars

(* A lane that is done holds nothing, and the other what it held.          *)
LEMMA LaneCleared ==
    ASSUME JudgingSound, NEW lane \in Lanes, judging' = [judging EXCEPT ![lane] = Nothing],
           DOMAIN entries \subseteq DOMAIN entries'
    PROVE  JudgingSound'
<1>1. judging = [l \in Lanes |-> judging[l]]
  BY DEF JudgingSound
<1>2. /\ judging'[lane] = Nothing /\ judging' = [l \in Lanes |-> judging'[l]]
      /\ \A l \in Lanes \ {lane} : judging'[l] = judging[l]
  BY <1>1
<1>3. \A l \in Lanes \ {lane} : \A o, n : Judging(l, o, n) => Judging(l, o, n)'
  BY <1>2 DEF Judging, HoldsPrefix
<1> SUFFICES ASSUME NEW l \in Lanes
             PROVE  \/ judging'[l] = Nothing
                    \/ \E o \in OfLane(l) : \E n \in 0 .. o.cp.size : Judging(l, o, n)'
  BY <1>2 DEF JudgingSound
<1>4. CASE l # lane
  BY <1>2, <1>3, <1>4 DEF JudgingSound
<1> QED BY <1>2, <1>4

(* What in flight is judged by, when it is answered.                       *)
LEMMA JudgedByRowsHeld ==
    ASSUME IInv, NEW lane \in Lanes, NEW q, q \in judging[lane].request
    PROVE  /\ q \in OfLane(lane) /\ q \in Requests /\ q.kind = "ingest"
           /\ \E m \in 0 .. q.cp.size :
                HoldsPrefix(entries, m) /\ judging[lane].seen = Root(entries, m)
<1>1. judging[lane] # Nothing
  BY DEF Nothing
<1>2. PICK o \in OfLane(lane) : \E m \in 0 .. o.cp.size : Judging(lane, o, m)
  BY <1>1 DEF IInv, JudgingSound
<1>3. PICK m \in 0 .. o.cp.size : Judging(lane, o, m)
  BY <1>2
<1>4. o = q /\ judging[lane].seen = Root(Log, m) /\ q.kind = "ingest" /\ HoldsPrefix(entries, m)
  BY <1>3 DEF Judging
<1>5. q \in Requests
  BY <1>2, <1>4 DEF OfLane, Requests
<1>6. m \in Nat /\ m \in 0 .. q.cp.size
  BY <1>3, <1>4, <1>5, IngestionsTyped
<1> QED BY <1>2, <1>4, <1>5, <1>6, ReadIsHeld DEF IInv

LEMMA RefusalStep ==
    ASSUME IInv, NEW lane \in Lanes, NEW q, RefuseIngest(lane, q)
    PROVE  IInv' /\ UNCHANGED atomicVars
<1>1. UNCHANGED atomicVars /\ judging' = [judging EXCEPT ![lane] = Nothing]
  BY DEF RefuseIngest
<1>2. JudgingSound'
  BY <1>1, LaneCleared DEF IInv, atomicVars
<1> QED BY <1>1, <1>2 DEF IInv, HeldIsTheLogs, Beginning, atomicVars

(* An ingestion answered 201 is a whole submission, judged by the first    *)
(* rows of the table.                                                      *)
LEMMA AdmissionStep ==
    ASSUME IInv, NEW lane \in Lanes, NEW q, AcceptIngest(lane, q)
    PROVE  IInv' /\ \E s \in Submission : AtomicAdmit(s)
<1> DEFINE s == [cp |-> q.cp, batch |-> q.batch, named |-> q.named]
           log == VisiblePrefix(q.cp, q.batch, judging[lane].seen)
           a == Verdict(q, log)
<1>1. /\ q \in Requests /\ q.kind = "ingest"
      /\ \E m \in 0 .. q.cp.size :
            HoldsPrefix(entries, m) /\ judging[lane].seen = Root(entries, m)
  BY JudgedByRowsHeld DEF AcceptIngest
<1>2. /\ q.cp.size <= MaxTreeSize
      /\ Admissible(log, q.cp, q.named)
      /\ q.cp.genuine
      /\ TransactionVerdict(q, a) = Accepted
  BY <1>1, AcceptedIngestion DEF AcceptIngest
<1>3. /\ entries' = WithBatch(entries, q.batch)
      /\ checkpoints' = checkpoints \cup NewMembers(a)
      /\ rotations' = rotations \cup NewAnchors(rotations, a)
      /\ admitted' = admitted \cup {a}
      /\ UNCHANGED staged
      /\ judging' = [judging EXCEPT ![lane] = Nothing]
  BY DEF AcceptIngest
<1>4. /\ BatchVerdict(q.cp, q.batch) = Accepted
      /\ ~RootClash(entries', q.cp)
      /\ ~MemberClash(checkpoints, a) /\ ~AnchorClash(rotations, a)
  <2> HIDE DEF a
  <2> QED BY <1>2, <1>3 DEF TransactionVerdict, Accepted
<1>5. s \in Submission /\ q.cp \in Published /\ q.batch \in Seq(Claim)
      /\ IsRestriction(q.cp.root, Log)
  BY <1>1, <1>2, IngestionsTyped
<1>6. /\ Beginning(entries')
      /\ \A x \in DOMAIN q.batch :
            /\ q.batch[x].entry \in staged /\ Opens(q.cp, q.batch[x])
            /\ q.batch[x].index \in DOMAIN Log /\ Log[q.batch[x].index] = q.batch[x].entry
  BY <1>3, <1>4, <1>5, BatchIsCopied DEF IInv, HeldIsTheLogs
<1>7. PromoteAll(q.cp, q.batch) /\ DOMAIN entries \subseteq DOMAIN entries'
  BY <1>3, <1>6, CopiedIsPromoted
<1>8. IInv'
  <2>1. JudgingSound'
    BY <1>3, <1>7, LaneCleared DEF IInv
  <2>2. NewMembers(a) \subseteq {q.cp}
    BY DEF NewMembers, Verdict
  <2>3. checkpoints' = checkpoints \/ checkpoints' = checkpoints \cup {q.cp}
    <3> HIDE DEF a
    <3> QED BY <1>3, <2>2
  <2>4. IsFiniteSet(checkpoints')
    BY <2>3, FS_AddElement DEF IInv, HeldIsTheLogs
  <2> QED BY <1>5, <1>6, <2>1, <2>3, <2>4 DEF IInv, HeldIsTheLogs
<1>9. s.cp = q.cp /\ s.batch = q.batch /\ s.named = q.named /\ Verdict(s, log) = a
  BY DEF Verdict
<1>10. Record(a)
  <2>1. a.cp = q.cp
    BY DEF Verdict
  <2> HIDE DEF a
  <2> QED BY <1>3, <1>4 DEF Record
<1>11. \E n \in 0 .. s.cp.size :
            HoldsPrefix(entries, n) /\ log = VisiblePrefix(s.cp, s.batch, Root(entries, n))
  BY <1>1, <1>9
<1> HIDE DEF s, log, a
<1>12. AtomicAdmit(s)
  BY <1>2, <1>3, <1>4, <1>7, <1>9, <1>10, <1>11 DEF AtomicAdmit
<1> QED BY <1>5, <1>8, <1>12

(* A crash forgets what is in flight and nothing else.                     *)
LEMMA CrashStep ==
    ASSUME IInv, Crash
    PROVE  IInv' /\ UNCHANGED atomicVars
  BY DEF IInv, HeldIsTheLogs, Beginning, JudgingSound, Crash, atomicVars

(* Every step keeps the invariant and is an atomic step or none.           *)
LEMMA FeedStep ==
    ASSUME IInv, [Next]_vars
    PROVE  IInv' /\ [AtomicNext]_atomicVars
<1>1. CASE UNCHANGED vars
  <2>1. UNCHANGED atomicVars /\ UNCHANGED judging
    BY <1>1 DEF vars, atomicVars
  <2>2. JudgingSound'
    BY <2>1, InFlightUndisturbed DEF IInv, atomicVars
  <2> QED BY <2>1, <2>2 DEF IInv, HeldIsTheLogs, Beginning, atomicVars
<1>2. ASSUME NEW q \in Requests, Serve(q)
      PROVE  IInv' /\ AtomicNext
  BY <1>2, StagingStep, PromotionStep DEF Serve, AtomicNext
<1>3. ASSUME NEW lane \in Lanes, NEW q \in OfLane(lane), BeginIngest(lane, q) \/ Finish(lane, q)
      PROVE  IInv' /\ [AtomicNext]_atomicVars
  BY <1>3, BeginStep, RefusalStep, AdmissionStep DEF Finish, AtomicNext
<1>4. CASE Crash
  BY <1>4, CrashStep
<1> QED BY <1>1, <1>2, <1>3, <1>4 DEF Next

-----------------------------------------------------------------------------
(* What the operator is promised.  The checkpoints recorded are the ones   *)
(* it issued, and the rotations anchored are its log's.                    *)
Backed(cp) ==
    cp \in Issued /\ cp \in Published /\ IsRestriction(cp.root, Log) /\ cp.size <= MaxTreeSize
RecordsBacked ==
    /\ \A cp \in checkpoints : Backed(cp)
    /\ \A r \in rotations : Backed(r.cp) /\ r.manifest \in LogHandovers /\ r.manifest < r.cp.size

(* The log as the walk takes it, and a beginning of it.                    *)
LEMMA LogShape ==
    /\ Cardinality(DOMAIN Log) \in Nat
    /\ Log \in [0 .. Cardinality(DOMAIN Log) - 1 -> Entry]
  BY HonestLogAssumption, FS_CardinalityType

(* A rotation found in a beginning of the log is one of the log.           *)
LEMMA AnchorsOfTheLog ==
    ASSUME NEW cp \in Published, NEW m \in Nat, 0 .. m - 1 \subseteq DOMAIN Log,
           NEW index \in Anchors(Root(Log, m), cp)
    PROVE  index \in LogHandovers /\ index < cp.size
<1> DEFINE n == Cardinality(DOMAIN Log)
<1>1. n \in Nat /\ Log \in [0 .. n - 1 -> Entry] /\ DOMAIN Log = 0 .. n - 1
  BY LogShape, HonestLogAssumption
<1>2. m \in 0 .. n
  <2>1. m > 0 => m - 1 \in 0 .. m - 1
    OBVIOUS
  <2> HIDE DEF n
  <2> QED BY <1>1, <2>1
<1>3. Root(Log, m) = [i \in 0 .. m - 1 |-> Log[i]]
  BY DEF Root, Restrict
<1>4. IsWalkState(Walk(Root(Log, m))) /\ Rotations(Root(Log, m)) \subseteq Rotations(Log)
  <2> HIDE DEF n
  <2> QED BY <1>1, <1>2, <1>3, PrefixWalk
<1>5. PICK r \in Rotations(Root(Log, m)) : index = r.index /\ cp.size > r.index
  BY DEF Anchors
<1> QED BY <1>4, <1>5 DEF LogHandovers

(* An admission's prefix, its claims and its verdict.                      *)
LEMMA AdmissionSeen ==
    ASSUME IInv, NEW lane \in Lanes, NEW q, AcceptIngest(lane, q),
           NEW log, log = VisiblePrefix(q.cp, q.batch, judging[lane].seen),
           NEW a, a = Verdict(q, log)
    PROVE  /\ q \in Requests /\ q.kind = "ingest" /\ Backed(q.cp)
           /\ Admissible(log, q.cp, q.named)
           /\ \E k \in 0 .. q.cp.size :
                0 .. k - 1 \subseteq DOMAIN Log /\ HoldsPrefix(entries', k) /\ log = Root(Log, k)
           /\ \A x \in DOMAIN q.batch : AlreadyPresent(entries', q.batch[x])
           /\ checkpoints' = checkpoints \cup NewMembers(a)
           /\ rotations' = rotations \cup NewAnchors(rotations, a)
           /\ admitted' = admitted \cup {a}
<1>1. q \in Requests /\ q.kind = "ingest"
  BY JudgedByRowsHeld DEF AcceptIngest
<1>2. PICK m \in 0 .. q.cp.size :
        HoldsPrefix(entries, m) /\ judging[lane].seen = Root(entries, m)
  BY JudgedByRowsHeld DEF AcceptIngest
<1>3. /\ q.cp.size <= MaxTreeSize /\ q.cp.genuine
      /\ Admissible(log, q.cp, q.named)
      /\ TransactionVerdict(q, a) = Accepted
  BY <1>1, AcceptedIngestion DEF AcceptIngest
<1>4. /\ entries' = WithBatch(entries, q.batch)
      /\ checkpoints' = checkpoints \cup NewMembers(a)
      /\ rotations' = rotations \cup NewAnchors(rotations, a)
      /\ admitted' = admitted \cup {a}
  BY DEF AcceptIngest
<1>5. Backed(q.cp) /\ q.cp \in Published /\ IsRestriction(q.cp.root, Log) /\ q.batch \in Seq(Claim)
  BY <1>1, <1>3, IngestionsTyped, HonestLogAssumption DEF Backed
<1>6. /\ Beginning(entries')
      /\ \A x \in DOMAIN q.batch :
            /\ q.batch[x].entry \in staged /\ Opens(q.cp, q.batch[x])
            /\ q.batch[x].index \in DOMAIN Log /\ Log[q.batch[x].index] = q.batch[x].entry
  <2>1. BatchVerdict(q.cp, q.batch) = Accepted
    BY <1>3 DEF TransactionVerdict
  <2> QED BY <1>4, <1>5, <2>1, BatchIsCopied DEF IInv, HeldIsTheLogs
<1>7. PromoteAll(q.cp, q.batch)
  BY <1>4, <1>6, CopiedIsPromoted
<1>8. /\ IsRestriction(entries, entries')
      /\ \A x \in DOMAIN q.batch : AlreadyPresent(entries', q.batch[x])
  BY <1>7 DEF PromoteAll, WithBatch, IsRestriction
<1>9. PICK k \in 0 .. q.cp.size : HoldsPrefix(entries', k) /\ log = Root(entries', k)
  <2>1. \E k \in 0 .. q.cp.size : HoldsPrefix(entries', k)
            /\ VisiblePrefix(q.cp, q.batch, Root(entries, m)) = Root(entries', k)
    BY <1>2, <1>5, <1>8, VisibleIsHeld
  <2> QED BY <1>2, <2>1
<1>10. 0 .. k - 1 \subseteq DOMAIN Log /\ log = Root(Log, k)
  <2>1. PICK j \in Nat : 0 .. j - 1 \subseteq DOMAIN Log /\ entries' = Root(Log, j)
    BY <1>6 DEF Beginning
  <2>2. \A i \in 0 .. k - 1 : i \in 0 .. j - 1 /\ entries'[i] = Log[i]
    BY <1>9, <2>1, RowsOfTheLog DEF HoldsPrefix
  <2> QED BY <1>9, <2>1, <2>2 DEF Root, Restrict
<1> QED BY <1>1, <1>3, <1>4, <1>5, <1>8, <1>9, <1>10

(* An admission records a checkpoint of the operator's, and anchors only   *)
(* rotations of its log.                                                   *)
LEMMA AdmissionBacked ==
    ASSUME IInv, RecordsBacked, NEW lane \in Lanes, NEW q, AcceptIngest(lane, q)
    PROVE  RecordsBacked'
<1> DEFINE log == VisiblePrefix(q.cp, q.batch, judging[lane].seen)
           a == Verdict(q, log)
<1>1. a.cp = q.cp /\ a.anchors = Anchors(log, q.cp)
  BY DEF Verdict
<1>2. /\ q \in Requests /\ q.kind = "ingest" /\ Backed(q.cp)
      /\ \E k \in 0 .. q.cp.size : 0 .. k - 1 \subseteq DOMAIN Log /\ log = Root(Log, k)
      /\ checkpoints' = checkpoints \cup NewMembers(a)
      /\ rotations' = rotations \cup NewAnchors(rotations, a)
  BY AdmissionSeen
<1> HIDE DEF log, a
<1>3. \A index \in a.anchors : index \in LogHandovers /\ index < q.cp.size
  <2>1. PICK k \in 0 .. q.cp.size : 0 .. k - 1 \subseteq DOMAIN Log /\ log = Root(Log, k)
    BY <1>2
  <2>2. k \in Nat
    BY <1>2, IngestionsTyped
  <2> QED BY <1>1, <1>2, <2>1, <2>2, AnchorsOfTheLog DEF Backed
<1>4. \A cp \in NewMembers(a) : cp = q.cp
  BY <1>1 DEF NewMembers
<1>5. \A r \in NewAnchors(rotations, a) : r.cp = q.cp /\ r.manifest \in a.anchors
  BY <1>1 DEF NewAnchors
<1> QED BY <1>2, <1>3, <1>4, <1>5 DEF RecordsBacked, Backed

LEMMA BackedStep ==
    ASSUME IInv, RecordsBacked, [Next]_vars
    PROVE  RecordsBacked'
<1>1. CASE UNCHANGED <<checkpoints, rotations>>
  BY <1>1 DEF RecordsBacked
<1>2. CASE \E lane \in Lanes : \E q \in OfLane(lane) : AcceptIngest(lane, q)
  BY <1>2, AdmissionBacked
<1>3. UNCHANGED <<checkpoints, rotations>>
        \/ \E lane \in Lanes : \E q \in OfLane(lane) : AcceptIngest(lane, q)
  BY DEF Next, Serve, Finish, StageRequest, AtomicStage, PromoteRequest, BeginIngest,
         RefuseIngest, Crash, vars, atomicVars
<1> QED BY <1>1, <1>2, <1>3

(* Checkpoints of one honest log do not diverge.                           *)
LEMMA NoDivergence ==
    ASSUME NEW cps, \A cp \in cps : Backed(cp)
    PROVE  Floor(cps) = NoFloor /\ \A cp \in cps : cp.size < Floor(cps)
<1>1. \A cp \in cps : cp.size \in Nat /\ cp.root \in [0 .. cp.size - 1 -> Entry]
                      /\ cp.size <= MaxTreeSize
  BY SubmissionAssumption DEF Backed, Published, IsCheckpoint
<1>2. ASSUME NEW a \in cps, NEW b \in cps, a.size = b.size PROVE a.root = b.root
  <2>1. \A i \in 0 .. a.size - 1 : a.root[i] = Log[i] /\ b.root[i] = Log[i]
    BY <1>1, <1>2 DEF Backed, IsRestriction
  <2> QED BY <1>1, <1>2, <2>1
<1>3. Divergences(cps) = {}
  BY <1>2 DEF Divergences, OfSize
<1>4. NoFloor \in Nat /\ MaxTreeSize < NoFloor
  BY MaxTreeSizeAssumption DEF NoFloor
<1>5. Sized(cps)
  BY SubmissionAssumption DEF Sized, Backed, Published, IsCheckpoint
<1>6. Floor(cps) = NoFloor
  BY <1>3, <1>5, FloorIsLowest
<1> QED BY <1>1, <1>4, <1>6, MaxTreeSizeAssumption

(* Tables only grow.                                                       *)
LEMMA FeedGrows ==
    ASSUME IInv, [Next]_vars
    PROVE  /\ IsRestriction(entries, entries')
           /\ checkpoints \subseteq checkpoints' /\ rotations \subseteq rotations'
<1>1. CASE UNCHANGED atomicVars
  BY <1>1 DEF atomicVars, IsRestriction
<1>2. CASE AtomicNext
  <2>1. IsRestriction(entries, entries')
    BY <1>2 DEF AtomicNext, AtomicStage, AtomicAdmit, AtomicPromote, PromoteAll, WithBatch,
                IsRestriction
  <2>2. checkpoints \subseteq checkpoints' /\ rotations \subseteq rotations'
    BY <1>2 DEF AtomicNext, AtomicStage, AtomicAdmit, AtomicPromote, Record
  <2> QED BY <2>1, <2>2
<1> QED BY <1>1, <1>2, FeedStep

LEMMA HandoversAreIndices == LogHandovers \subseteq Nat
<1> DEFINE n == Cardinality(DOMAIN Log)
<1>1. n \in Nat /\ Log \in [0 .. n - 1 -> Entry]
  BY LogShape
<1>2. Log = [i \in 0 .. n - 1 |-> Log[i]]
  BY <1>1
<1>3. IsWalkState(Walk(Log))
  <2> HIDE DEF n
  <2>1. n \in 0 .. n
    BY <1>1
  <2> QED BY <1>1, <1>2, <2>1, PrefixWalk
<1> DEFINE vs == Versions(Log)
<1>4. vs \in Seq(SomeVersion)
  BY <1>3 DEF IsWalkState, Versions
<1> HIDE DEF vs, n
<1>5. ASSUME NEW j \in 1 .. Len(vs) - 1 PROVE vs[j + 1].index \in Nat
  <2>1. vs[j + 1] \in SomeVersion
    BY <1>4
  <2>2. PICK e \in Entry, i \in Nat, o \in Nat : vs[j + 1] = Version(e, i, o)
    BY <2>1 DEF SomeVersion
  <2> QED BY <2>2 DEF Version
<1> QED BY <1>5 DEF LogHandovers, Rotations, vs

(* What recomputes from a beginning of the log is no longer than it.       *)
LEMMA ProvableIsHeld ==
    ASSUME NEW m \in Nat, 0 .. m - 1 \subseteq DOMAIN Log, NEW table, table = Root(Log, m),
           NEW cp, Backed(cp), Recomputes(table, cp)
    PROVE  cp.size \in Nat /\ cp.size <= m
<1>1. cp.size \in Nat
  BY SubmissionAssumption DEF Backed, Published, IsCheckpoint
<1>2. 0 .. cp.size - 1 \subseteq 0 .. m - 1
  BY RowsOfTheLog DEF Recomputes, HoldsPrefix
<1>3. cp.size > 0 => cp.size - 1 \in 0 .. cp.size - 1
  BY <1>1
<1> QED BY <1>1, <1>2, <1>3

(* Every step only adds to the copy and to what is provable of it.         *)
LEMMA ReplicaStep ==
    ASSUME IInv, RecordsBacked, [Next]_vars
    PROVE  Mirrored!Advance
<1>1. IInv' /\ RecordsBacked'
  BY FeedStep, BackedStep
<1>2. /\ IsRestriction(entries, entries')
      /\ checkpoints \subseteq checkpoints' /\ rotations \subseteq rotations'
  BY FeedGrows
<1>3. PICK n \in Nat : 0 .. n - 1 \subseteq DOMAIN Log /\ entries' = Root(Log, n)
  BY <1>1 DEF IInv, HeldIsTheLogs, Beginning
<1>4. DOMAIN entries \subseteq 0 .. n - 1
  BY <1>2, <1>3, RowsOfTheLog DEF IsRestriction
<1>5. n \in {0} \cup {i + 1 : i \in DOMAIN Log}
  <2>1. CASE n = 0
    BY <2>1
  <2>2. CASE n > 0
    <3>1. n - 1 \in DOMAIN Log /\ n = n - 1 + 1
      BY <1>3, <2>2
    <3> QED BY <3>1
  <2> QED BY <2>1, <2>2
<1>6. entries' = Restrict(Log, 0 .. n - 1)
  BY <1>3 DEF Root
<1>7. /\ ProvableSizes' \subseteq {size \in PublishedSizes : size <= n}
      /\ ProvableHandovers' \subseteq {index \in LogHandovers : index < n}
  <2>1. ASSUME NEW size \in ProvableSizes' PROVE size \in PublishedSizes /\ size <= n
    <3>1. PICK cp \in checkpoints' : Recomputes(entries', cp) /\ size = cp.size
      BY <2>1 DEF ProvableSizes
    <3>2. Backed(cp)
      BY <1>1, <3>1 DEF RecordsBacked
    <3>3. size \in PublishedSizes
      BY <3>1, <3>2 DEF PublishedSizes, Backed
    <3> QED BY <1>3, <3>1, <3>2, <3>3, ProvableIsHeld
  <2>2. ASSUME NEW index \in ProvableHandovers' PROVE index \in LogHandovers /\ index < n
    <3>1. PICK r \in rotations' : Recomputes(entries', r.cp) /\ index = r.manifest
      BY <2>2 DEF ProvableHandovers
    <3>2. Backed(r.cp) /\ index \in LogHandovers /\ index < r.cp.size
      BY <1>1, <3>1 DEF RecordsBacked
    <3>3. index \in Nat /\ r.cp.size \in Nat /\ r.cp.size <= n
      BY <1>3, <3>1, <3>2, ProvableIsHeld, HandoversAreIndices
    <3> QED BY <3>2, <3>3
  <2> QED BY <2>1, <2>2
<1>8. \A cp : Recomputes(entries, cp) => Recomputes(entries', cp)
  BY <1>2, RecomputesGrows
<1> DEFINE evidence == checkpoints' \cup {r.cp : r \in rotations'}
<1>9. \A cp \in evidence : cp.size < Floor(evidence)
  <2>1. \A cp \in evidence : Backed(cp)
    BY <1>1 DEF RecordsBacked
  <2> HIDE DEF evidence
  <2> QED BY <2>1, NoDivergence
<1>10. ProvableSizes \subseteq ProvableSizes' /\ ProvableHandovers \subseteq ProvableHandovers'
  <2>1. ASSUME NEW size \in ProvableSizes PROVE size \in ProvableSizes'
    <3>1. PICK cp \in checkpoints : Recomputes(entries, cp) /\ size = cp.size
      BY <2>1 DEF ProvableSizes
    <3>2. cp \in checkpoints' /\ Recomputes(entries', cp) /\ cp.size < Floor(evidence)
      BY <1>2, <1>8, <1>9, <3>1
    <3> QED BY <3>1, <3>2 DEF ProvableSizes, BelowTheFloor
  <2>2. ASSUME NEW index \in ProvableHandovers PROVE index \in ProvableHandovers'
    <3>1. PICK r \in rotations : Recomputes(entries, r.cp) /\ index = r.manifest
      BY <2>2 DEF ProvableHandovers
    <3>2. r \in rotations' /\ Recomputes(entries', r.cp) /\ r.cp.size < Floor(evidence)
      BY <1>2, <1>8, <1>9, <3>1
    <3> QED BY <3>1, <3>2 DEF ProvableHandovers, BelowTheFloor
  <2> QED BY <2>1, <2>2
<1> QED BY <1>4, <1>5, <1>6, <1>7, <1>10 DEF Mirrored!Advance, Mirrored!Restrict, Restrict

-----------------------------------------------------------------------------
(* The errors a request of the write routes can meet.                      *)

Refusals ==
    { "NotStaged", "InclusionProofInvalid", "IndexConflict", "EntryIdAtDifferentIndex",
      "OutOfOrderIndex", "UnknownCheckpoint", "TreeSizeUnrepresentable",
      "StatementRefused", "GovernanceChainUnresolvable", "NotRotationMaterial",
      "UnknownSigningKey", "KeyNotYetActive", "SeriesMemberConflict",
      "EntryIdMismatch", "Json", "MalformedEnvelope", "NotCanonical", "WrongAdaptorMetadata" }
        \cup SignatureFaults

(* None of them is answered a 500.                                         *)
LEMMA RefusalsAreClients == Refusals \subseteq ClientErrors
<1> SUFFICES ASSUME NEW error \in Refusals PROVE error \in Errors /\ Status(error) # 500
  BY DEF ClientErrors
<1>1. error \in Errors
  BY DEF Refusals, Errors, IngestErrors, PromotionErrors, RangeErrors, CheckpointErrors,
         SeriesErrors, InfrastructureErrors, SignatureFaults
<1>2. error \notin {"StoredEntryCorrupt", "TreeMaterialMissing", "TreeMaterialCorrupt",
                    "CheckpointRootMismatch"} \cup (InfrastructureErrors \ {"Json", "Ahl"})
  BY DEF Refusals, InfrastructureErrors, SignatureFaults
<1>3. Status(error) \in {404, 409, 400}
  BY <1>2 DEF Status
<1> QED BY <1>1, <1>3

LEMMA ClaimErrors ==
    ASSUME NEW table, NEW cp, NEW claim
    PROVE  ClaimVerdict(table, cp, claim) \in Refusals \cup {Accepted}
  BY DEF ClaimVerdict, Refusals

(* A batch is refused for the first claim refused.                         *)
LEMMA BatchErrors ==
    ASSUME NEW cp, NEW batch
    PROVE  BatchVerdict(cp, batch) \in Refusals \cup {Accepted}
  BY ClaimErrors DEF BatchVerdict, ClaimAt

(* The root of a genuine checkpoint agrees with any rows of the log.       *)
LEMMA GenuineRootAgrees ==
    ASSUME NEW cp \in Published, IsRestriction(cp.root, Log), NEW table, Beginning(table)
    PROVE  ~RootClash(table, cp)
<1>1. cp.size \in Nat /\ cp.root \in [0 .. cp.size - 1 -> Entry]
  BY SubmissionAssumption DEF Published, IsCheckpoint
<1>2. PICK m \in Nat : 0 .. m - 1 \subseteq DOMAIN Log /\ table = Root(Log, m)
  BY DEF Beginning
<1> SUFFICES ASSUME HoldsPrefix(table, cp.size) PROVE Root(table, cp.size) = cp.root
  BY DEF RootClash
<1>3. \A i \in 0 .. cp.size - 1 : table[i] = Log[i] /\ cp.root[i] = Log[i]
  BY <1>1, <1>2, RowsOfTheLog DEF HoldsPrefix, IsRestriction
<1> QED BY <1>1, <1>3 DEF Root, Restrict

LEMMA StagingErrors ==
    ASSUME NEW q \in Requests, q.kind = "stage"
    PROVE  StageAnswer(q).error \in Refusals \cup {Accepted}
<1> DEFINE failed == {i \in DOMAIN StageChecks : StageChecks[i] \in q.flaws}
<1>1. CASE q.flaws = {}
  BY <1>1 DEF StageAnswer, Created, Unchanged
<1>2. CASE q.flaws # {}
  <2>1. failed # {} /\ failed \in SUBSET Nat /\ failed \subseteq DOMAIN StageChecks
    <3>1. q.flaws \subseteq Range(StageChecks)
      BY RequestAssumption
    <3>2. DOMAIN StageChecks \in SUBSET Nat
      BY DEF StageChecks
    <3> QED BY <1>2, <3>1, <3>2 DEF Range
  <2>2. Min(failed) \in DOMAIN StageChecks
    <3> HIDE DEF failed
    <3>1. PICK n \in failed : \A m \in failed : n <= m
      BY <2>1, Order!LeastNatural
    <3>2. Min(failed) \in failed
      BY <3>1 DEF Min
    <3> QED BY <2>1, <3>2
  <2>3. \A i \in DOMAIN StageChecks : StageChecks[i] \in Refusals
    BY DEF StageChecks, Refusals
  <2>4. StageAnswer(q) = Refused(StageChecks[Min(failed)])
    BY <1>2 DEF StageAnswer
  <2> HIDE DEF failed
  <2> QED BY <2>2, <2>3, <2>4 DEF Refused
<1> QED BY <1>1, <1>2

LEMMA PromotionErrorsMet ==
    ASSUME NEW q \in Requests, q.kind = "promote"
    PROVE  PromoteAnswer(q).error \in Refusals \cup {Accepted}
<1> DEFINE verdict == ClaimVerdict(entries, Latest(OfSize(checkpoints, q.size)), q.claim)
<1>1. verdict \in Refusals \cup {Accepted} /\ "UnknownCheckpoint" \in Refusals
  BY ClaimErrors DEF Refusals
<1>2. \/ PromoteAnswer(q) \in {Refused("UnknownCheckpoint"), Created, Unchanged}
      \/ verdict # Accepted /\ PromoteAnswer(q) = Refused(verdict)
  BY DEF PromoteAnswer
<1> HIDE DEF verdict
<1> QED BY <1>1, <1>2 DEF Refused, Created, Unchanged

(* The root comparison, the one check answered a 500, is only reached by a *)
(* checkpoint whose signature is genuine.                                  *)
LEMMA IngestionErrors ==
    ASSUME Beginning(entries), NEW q \in Requests, q.kind = "ingest", NEW seen
    PROVE  IngestAnswer(q, seen).error \in Refusals \cup {Accepted}
<1> DEFINE log == VisiblePrefix(q.cp, q.batch, seen)
           a == Verdict(q, log)
           overlay == OverlayVerdict(q.cp, q.batch, Cardinality(DOMAIN seen))
           judged == Judged(q, a, Active(log))
           key == KeyVerdict(Active(log), q.cp, q.fault)
<1>1. overlay \in Refusals \cup {Accepted}
  BY DEF OverlayVerdict, Refusals
<1>2. key \in Refusals \cup {Accepted}
  BY GenuineOrRefused DEF Refusals
<1>3. a.member \/ a.anchors # {} => TransactionVerdict(q, a) \in Refusals \cup {Accepted}
  <2> SUFFICES ASSUME a.member \/ a.anchors # {}
               PROVE  TransactionVerdict(q, a) \in Refusals \cup {Accepted}
    OBVIOUS
  <2>1. q.cp \in Published /\ q.batch \in Seq(Claim) /\ IsRestriction(q.cp.root, Log)
    BY GenuineOrRefused, IngestionsTyped
  <2>2. BatchVerdict(q.cp, q.batch) \in Refusals \cup {Accepted}
    BY BatchErrors
  <2>3. BatchVerdict(q.cp, q.batch) = Accepted => ~RootClash(WithBatch(entries, q.batch), q.cp)
    BY <2>1, BatchIsCopied, GenuineRootAgrees
  <2>4. "SeriesMemberConflict" \in Refusals
    BY DEF Refusals
  <2> HIDE DEF a
  <2> QED BY <2>2, <2>3, <2>4 DEF TransactionVerdict
<1>4. judged \in Refusals \cup {Accepted}
  <2>1. "NotRotationMaterial" \in Refusals
    BY DEF Refusals
  <2>2. a.member = TRUE \/ a.member = FALSE
    BY DEF Verdict, VerifiesUnder, LogKeyActive, ListAuthorises
  <2> HIDE DEF a
  <2> QED BY <1>2, <1>3, <2>1, <2>2 DEF Judged
<1>5. IngestVerdict(q, seen) \in Refusals \cup {Accepted}
  <2>1. {"TreeSizeUnrepresentable", "StatementRefused", "GovernanceChainUnresolvable"}
            \subseteq Refusals
    BY DEF Refusals
  <2>2. IngestVerdict(q, seen) \in
            {"TreeSizeUnrepresentable", "StatementRefused",
             "GovernanceChainUnresolvable", overlay, judged}
    <3> HIDE DEF log, a, overlay
    <3> QED BY VerdictUnfolds DEF Active, log, a, overlay
  <2> HIDE DEF overlay, judged
  <2> QED BY <1>1, <1>4, <2>1, <2>2
<1> QED BY <1>5, AnswerUnfolds DEF Created, Refused

-----------------------------------------------------------------------------
(* What a request in order is answered.                                    *)

(* Over rows of the log, a claim of the log's that opens its checkpoint    *)
(* can miss its bytes or the rows before it, and nothing else.             *)
LEMMA ClaimInOrder ==
    ASSUME NEW table, IsRestriction(table, Log), NEW cp, NEW claim, Opens(cp, claim),
           claim.index \in DOMAIN Log, Log[claim.index] = claim.entry
    PROVE  /\ ClaimVerdict(table, cp, claim) \in {"NotStaged", "OutOfOrderIndex", Accepted}
           /\ claim.entry \in staged =>
                (claim.index \in DOMAIN table \/ claim.index = NextIndex(table)
                    => ClaimVerdict(table, cp, claim) = Accepted)
<1>1. claim.index \in DOMAIN table => AlreadyPresent(table, claim)
  BY DEF IsRestriction, AlreadyPresent
<1>2. claim.entry \in Range(table) => claim.index \in DOMAIN table
  BY HonestLogAssumption DEF Range, IsRestriction, IsInjective
<1> QED BY <1>1, <1>2 DEF ClaimVerdict

(* The same of a batch of such claims.                                     *)
LEMMA ClaimsInOrder ==
    ASSUME Beginning(entries), NEW cp, NEW batch \in Seq(Claim),
           \A x \in DOMAIN batch :
                /\ Opens(cp, batch[x])
                /\ batch[x].index \in DOMAIN Log /\ Log[batch[x].index] = batch[x].entry
    PROVE  /\ BatchVerdict(cp, batch) \in {"NotStaged", "OutOfOrderIndex", Accepted}
           /\ (\A x \in DOMAIN batch :
                    /\ batch[x].entry \in staged
                    /\ \/ batch[x].index \in DOMAIN After(cp, batch, x - 1)
                       \/ batch[x].index = NextIndex(After(cp, batch, x - 1)))
                => BatchVerdict(cp, batch) = Accepted
<1> DEFINE refused == {n \in DOMAIN batch : ClaimAt(cp, batch, n) # Accepted}
<1>1. DOMAIN batch \in SUBSET Nat /\ DOMAIN batch = 1 .. Len(batch)
  OBVIOUS
<1>2. ASSUME NEW x \in DOMAIN batch
      PROVE  IsRestriction(After(cp, batch, x - 1), Log)
  <2> DEFINE part == SubSeq(batch, 1, x - 1)
  <2>1. DOMAIN part = 1 .. x - 1 /\ \A y \in 1 .. x - 1 : part[y] = batch[y] /\ y \in DOMAIN batch
    BY <1>1
  <2> HIDE DEF part
  <2>2. \A y \in DOMAIN part :
            part[y].index \in DOMAIN Log /\ Log[part[y].index] = part[y].entry
    BY <2>1
  <2>3. PICK m \in Nat : 0 .. m - 1 \subseteq DOMAIN Log /\ entries = Root(Log, m)
    BY DEF Beginning
  <2>4. WithBatch(entries, part)
            = Restrict(Log, 0 .. m - 1 \cup {part[y].index : y \in DOMAIN part})
    BY <2>2, <2>3, ClaimsOfTheLog
  <2>5. 0 .. m - 1 \cup {part[y].index : y \in DOMAIN part} \subseteq DOMAIN Log
    BY <2>2, <2>3
  <2>6. IsRestriction(WithBatch(entries, part), Log)
    BY <2>4, <2>5 DEF Restrict, IsRestriction
  <2> QED BY <2>6 DEF After, part
<1>3. ASSUME NEW x \in DOMAIN batch
      PROVE  /\ ClaimAt(cp, batch, x) \in {"NotStaged", "OutOfOrderIndex", Accepted}
             /\ batch[x].entry \in staged =>
                    ((\/ batch[x].index \in DOMAIN After(cp, batch, x - 1)
                      \/ batch[x].index = NextIndex(After(cp, batch, x - 1)))
                     => ClaimAt(cp, batch, x) = Accepted)
  BY <1>2, ClaimInOrder DEF ClaimAt
<1>4. refused # {} => Min(refused) \in refused
  <2> SUFFICES ASSUME refused # {} PROVE Min(refused) \in refused
    OBVIOUS
  <2>1. refused \in SUBSET Nat
    BY <1>1
  <2> HIDE DEF refused
  <2>2. PICK n \in refused : \A m \in refused : n <= m
    BY <2>1, Order!LeastNatural
  <2> QED BY <2>2 DEF Min
<1>5. BatchVerdict(cp, batch) \in {"NotStaged", "OutOfOrderIndex", Accepted}
  BY <1>3, <1>4 DEF BatchVerdict
<1>6. refused = {} => BatchVerdict(cp, batch) = Accepted
  BY DEF BatchVerdict
<1> QED BY <1>3, <1>5, <1>6

(* A genuine checkpoint commits the first entries of the log, and claims   *)
(* that open it are the log's.                                             *)
LEMMA GenuineIsTheLogs ==
    ASSUME NEW q \in Requests, q.kind = "ingest", q.cp.genuine
    PROVE  /\ 0 .. q.cp.size - 1 \subseteq DOMAIN Log
           /\ q.cp.root = Root(Log, q.cp.size)
           /\ \A x \in DOMAIN q.batch : Opens(q.cp, q.batch[x]) =>
                q.batch[x].index \in DOMAIN Log /\ Log[q.batch[x].index] = q.batch[x].entry
<1>1. /\ q.cp \in Published /\ q.cp.size \in Nat /\ q.batch \in Seq(Claim)
      /\ q.cp.root \in [0 .. q.cp.size - 1 -> Entry]
      /\ IsRestriction(q.cp.root, Log)
  BY IngestionsTyped
<1>2. 0 .. q.cp.size - 1 \subseteq DOMAIN Log /\ q.cp.root = Root(Log, q.cp.size)
  BY <1>1 DEF IsRestriction, Root, Restrict
<1>3. \A x \in DOMAIN q.batch : q.batch[x] \in Claim
  BY <1>1
<1> QED BY <1>1, <1>2, <1>3, GenuineOpens

(* The log an ingestion in order sees is a beginning of the log it         *)
(* commits, at least as long as the rows read, and all of it if the batch  *)
(* has the rest.                                                           *)
LEMMA SeesTheLog ==
    ASSUME HeldIsTheLogs, NEW q \in Requests, q.kind = "ingest", q.cp.genuine,
           \A x \in DOMAIN q.batch : Opens(q.cp, q.batch[x]),
           NEW m \in 0 .. q.cp.size, HoldsPrefix(entries, m)
    PROVE  \E n \in m .. q.cp.size :
                /\ VisiblePrefix(q.cp, q.batch, Root(Log, m)) = Root(Log, n)
                /\ m .. q.cp.size - 1 \subseteq {q.batch[x].index : x \in DOMAIN q.batch}
                    => n = q.cp.size
<1> DEFINE size == q.cp.size
           batch == q.batch
           log == VisiblePrefix(q.cp, batch, Root(Log, m))
<1>1. /\ q.cp \in Published /\ size \in Nat /\ batch \in Seq(Claim) /\ m \in Nat
      /\ 0 .. size - 1 \subseteq DOMAIN Log
      /\ \A x \in DOMAIN batch : AlreadyPresent(Log, batch[x])
  <2>1. q.cp \in Published /\ q.cp.size \in Nat /\ q.batch \in Seq(Claim)
    BY IngestionsTyped
  <2>2. /\ 0 .. q.cp.size - 1 \subseteq DOMAIN Log
        /\ \A x \in DOMAIN q.batch :
            q.batch[x].index \in DOMAIN Log /\ Log[q.batch[x].index] = q.batch[x].entry
    BY GenuineIsTheLogs
  <2> QED BY <2>1, <2>2 DEF AlreadyPresent
<1>2. PICK k \in Nat : 0 .. k - 1 \subseteq DOMAIN Log /\ entries = Root(Log, k)
  BY DEF HeldIsTheLogs, Beginning
<1>3. IsRestriction(entries, Log)
  BY <1>2, RowsOfTheLog DEF IsRestriction
<1>4. PICK n \in 0 .. size : HoldsPrefix(Log, n) /\ log = Root(Log, n)
  <2>1. \E n \in 0 .. size : HoldsPrefix(Log, n)
            /\ VisiblePrefix(q.cp, batch, Root(entries, m)) = Root(Log, n)
    BY <1>1, <1>3, VisibleIsHeld
  <2>2. Root(Log, m) = Root(entries, m)
    BY <1>1, ReadIsHeld
  <2> QED BY <2>1, <2>2
<1>5. DOMAIN log = 0 .. n - 1
  BY <1>4 DEF Root, Restrict
<1>6. Cardinality(DOMAIN Root(Log, m)) = m
  <2>1. 0 .. m - 1 \subseteq DOMAIN Log
    BY <1>1
  <2> QED BY <1>1, <2>1, RowsOfTheLog
<1> DEFINE relevant == Relevant(q.cp, batch, m)
           supplied == {batch[x].index : x \in relevant}
<1>7. DOMAIN log = {i \in 0 .. size - 1 : i < m \/ m .. i \subseteq supplied}
  BY <1>6 DEF VisiblePrefix
<1>8. m <= n
  <2>1. m > 0 => m - 1 \in 0 .. size - 1 /\ m - 1 < m
    BY <1>1
  <2>2. m > 0 => m - 1 \in 0 .. n - 1
    <3> HIDE DEF log, supplied
    <3> QED BY <1>5, <1>7, <2>1
  <2> QED BY <1>1, <2>2
<1>9. ASSUME m .. size - 1 \subseteq {batch[x].index : x \in DOMAIN batch}
      PROVE  n = size
  <2>1. ASSUME NEW i \in m .. size - 1 PROVE i \in supplied
    <3> DEFINE claiming == {x \in DOMAIN batch : batch[x].index = i}
    <3>1. claiming # {} /\ claiming \in SUBSET Nat
      BY <1>1, <1>9
    <3>2. PICK x \in claiming : \A y \in claiming : x <= y
      <4> HIDE DEF claiming
      <4> QED BY <3>1, Order!LeastNatural
    <3>3. \A y \in DOMAIN batch : y < x => batch[y].index # batch[x].index
      BY <1>1, <3>2
    <3>4. m <= batch[x].index /\ batch[x].index < size
      BY <1>1, <3>2
    <3>5. x \in relevant
      BY <3>2, <3>3, <3>4 DEF Relevant
    <3> HIDE DEF relevant
    <3> QED BY <3>2, <3>5
  <2>2. \A i \in 0 .. size - 1 : i < m \/ m .. i \subseteq m .. size - 1
    BY <1>1
  <2>3. DOMAIN log = 0 .. size - 1
    <3> HIDE DEF log, supplied
    <3> QED BY <1>7, <2>1, <2>2
  <2>4. size > 0 => size - 1 \in 0 .. size - 1
    BY <1>1
  <2> HIDE DEF log
  <2> QED BY <1>1, <1>4, <1>5, <2>3, <2>4
<1> QED BY <1>4, <1>8, <1>9

-----------------------------------------------------------------------------
(* The governance of longer and longer beginnings of the log.              *)
LEMMA WalkOfTheLog ==
    ASSUME NEW m \in Nat, 0 .. m - 1 \subseteq DOMAIN Log, NEW n \in 0 .. m
    PROVE  /\ IsWalkState(Walk(Root(Log, n))) /\ IsWalkState(Walk(Root(Log, m)))
           /\ Extends(Walk(Root(Log, m)), Walk(Root(Log, n)))
           /\ Rotations(Root(Log, n)) \subseteq Rotations(Root(Log, m))
           /\ Extends(Walk(Log), Walk(Root(Log, m)))
           /\ \A v \in 1 .. Len(Versions(Root(Log, m))) :
                Versions(Root(Log, m))[v].index \in 0 .. m - 1
<1> DEFINE len == Cardinality(DOMAIN Log)
           long == Root(Log, m)
<1>1. len \in Nat /\ Log \in [0 .. len - 1 -> Entry] /\ DOMAIN Log = 0 .. len - 1
  BY LogShape, HonestLogAssumption
<1>2. m \in 0 .. len
  <2>1. m > 0 => m - 1 \in 0 .. m - 1
    OBVIOUS
  <2> HIDE DEF len
  <2> QED BY <1>1, <2>1
<1>3. /\ long = [i \in 0 .. m - 1 |-> Log[i]]
      /\ long \in [0 .. m - 1 -> Entry]
      /\ Root(Log, n) = [i \in 0 .. n - 1 |-> long[i]]
  <2>1. long = [i \in 0 .. m - 1 |-> Log[i]]
    BY DEF Root, Restrict
  <2>2. \A i \in 0 .. m - 1 : Log[i] \in Entry
    <3> HIDE DEF len
    <3> QED BY <1>1
  <2>3. Root(Log, n) = [i \in 0 .. n - 1 |-> Log[i]]
    BY DEF Root, Restrict
  <2> HIDE DEF long
  <2> QED BY <2>1, <2>2, <2>3
<1>4. Extends(Walk(Log), Walk(long))
  <2> HIDE DEF len, long
  <2> QED BY <1>1, <1>2, <1>3, PrefixWalk
<1> HIDE DEF long, len
<1>5. /\ IsWalkState(Walk(Root(Log, n))) /\ IsWalkState(Walk(long))
      /\ Extends(Walk(long), Walk(Root(Log, n)))
      /\ Rotations(Root(Log, n)) \subseteq Rotations(long)
  BY <1>3, PrefixWalk, ZenonT(30)
<1>6. ASSUME NEW v \in 1 .. Len(Versions(long)) PROVE Versions(long)[v].index \in 0 .. m - 1
  <2>1. /\ \A i \in 0 .. m - 1 : long[i] \in Entry
        /\ long = [i \in 0 .. m - 1 |-> long[i]] /\ m \in 0 .. m
    BY <1>3
  <2>2. Walk(long) = WalkTo(long, m)
    BY <2>1, WalkIsWalkTo
  <2>3. Versions(long) = WalkTo(long, m).versions
    BY <2>2 DEF Versions
  <2> QED BY <2>1, <2>3, WalkIndices
<1> QED BY <1>4, <1>5, <1>6 DEF long

(* Which keys a version activates is decided by the set of its key objects *)
(* if it lists each key once.                                              *)
LEMMA ActiveBySet ==
    ASSUME NEW v, NEW w, Range(v.log) = Range(w.log),
           w.log \in Seq(Range(w.log)),
           \A i, j \in DOMAIN w.log : w.log[i].key = w.log[j].key => i = j,
           NEW key, NEW size, LogKeyActive(v, key, size)
    PROVE  LogKeyActive(w, key, size)
<1>1. PICK i \in DOMAIN v.log : v.log[i].key = key /\ v.log[i].from <= size
  BY DEF LogKeyActive, ListAuthorises, ListMatches
<1>2. PICK j \in DOMAIN w.log : w.log[j] = v.log[i]
  BY DEF Range
<1>3. ListMatches(w.log, key) = {j}
  BY <1>1, <1>2 DEF ListMatches
<1>4. j <= j
  <2>1. DOMAIN w.log \in SUBSET Int
    OBVIOUS
  <2> QED BY <1>2, <2>1
<1> QED BY <1>1, <1>2, <1>3, <1>4 DEF LogKeyActive, ListAuthorises

(* A checkpoint admissible by a beginning of the log is so by every longer *)
(* one it commits: where the next version no longer has its key, the       *)
(* checkpoint anchors that version's rotation.                             *)
LEMMA StillCovered ==
    ASSUME KeysOnce, NEW cp \in Published, NEW m \in 0 .. cp.size, 0 .. m - 1 \subseteq DOMAIN Log,
           NEW n \in 0 .. m, NEW short, short = Root(Log, n), NEW long, long = Root(Log, m),
           Resolvable(short), ~Walk(long).aborted,
           VerifiesUnder(Active(short), cp) \/ Anchors(short, cp) # {}
    PROVE  /\ Resolvable(long)
           /\ VerifiesUnder(Active(long), cp) \/ Anchors(long, cp) # {}
           /\ Anchors(short, cp) \subseteq Anchors(long, cp)
<1> DEFINE vs == Versions(long)
           p == Len(Versions(short))
           last == Len(vs)
           good(i) == VerifiesUnder(vs[i], cp)
<1>1. cp.size \in Nat /\ m \in Nat
  <2>1. cp.size \in Nat
    BY SubmissionAssumption DEF Published, IsCheckpoint
  <2> QED BY <2>1
<1>2. /\ IsWalkState(Walk(short)) /\ IsWalkState(Walk(long))
      /\ Extends(Walk(long), Walk(short)) /\ Extends(Walk(Log), Walk(long))
      /\ Rotations(short) \subseteq Rotations(long)
      /\ \A v \in 1 .. last : vs[v].index \in 0 .. m - 1
  BY <1>1, WalkOfTheLog
<1>3. /\ Versions(short) \in Seq(SomeVersion) /\ vs \in Seq(SomeVersion)
      /\ Versions(short) # <<>>
  BY <1>2 DEF IsWalkState, Resolvable, Established, Versions
<1>4. /\ p \in Nat /\ last \in Nat /\ 0 < p /\ p <= last
      /\ vs[p] = Versions(short)[p]
  <2>1. p \in Nat /\ last \in Nat /\ 0 < p
    BY <1>3
  <2>2. p <= last /\ \A v \in 1 .. p : vs[v] = Versions(short)[v]
    BY <1>2 DEF Extends, Versions
  <2> QED BY <2>1, <2>2
<1>5. Active(short) = vs[p] /\ Active(long) = vs[last]
  BY <1>4 DEF Active, Governing, Versions
<1>6. Resolvable(long)
  <2>1. vs # <<>>
    BY <1>3, <1>4
  <2> QED BY <2>1 DEF Resolvable, Established, Versions
<1>7. Anchors(short, cp) \subseteq Anchors(long, cp)
  BY <1>2 DEF Anchors
<1> HIDE DEF vs, p, last
<1>8. ASSUME good(p), ~good(last) PROVE Anchors(long, cp) # {}
  <2> DEFINE bad == {i \in p .. last : ~good(i)}
  <2>1. bad \in SUBSET Nat /\ last \in bad
    BY <1>4, <1>8
  <2>2. PICK i \in bad : \A j \in bad : i <= j
    <3> HIDE DEF bad
    <3> QED BY <2>1, Order!LeastNatural
  <2>3. i \in p .. last /\ i # p /\ ~good(i)
    BY <1>8, <2>2
  <2>4. i - 1 \in p .. last /\ i - 1 \notin bad
    BY <1>4, <2>1, <2>2, <2>3
  <2>5. good(i - 1)
    BY <2>4
  <2>6. i \in 1 .. last /\ i - 1 \in 1 .. last - 1 /\ (i - 1) + 1 = i
    BY <1>4, <2>3
  <2>7. vs[i] \in Range(Versions(Log))
    <3>1. last <= Len(Versions(Log)) /\ Versions(Log)[i] = vs[i]
      BY <1>2, <2>6 DEF Extends, Versions, vs, last
    <3>2. Versions(Log) \in Seq(SomeVersion)
      <4>1. IsWalkState(Walk(Log))
        <5>1. /\ Cardinality(DOMAIN Log) \in Nat
              /\ Log \in [0 .. Cardinality(DOMAIN Log) - 1 -> Entry]
          BY LogShape
        <5>2. /\ Log = [j \in 0 .. Cardinality(DOMAIN Log) - 1 |-> Log[j]]
              /\ Cardinality(DOMAIN Log) \in 0 .. Cardinality(DOMAIN Log)
          BY <5>1
        <5> QED BY <5>1, <5>2, PrefixWalk
      <4> QED BY <4>1 DEF IsWalkState, Versions
    <3>3. i \in DOMAIN Versions(Log)
      BY <1>4, <2>6, <3>1, <3>2
    <3> QED BY <3>1, <3>3 DEF Range
  <2>8. Range(vs[i].log) # Range(vs[i - 1].log)
    <3>1. /\ vs[i].log \in Seq(Range(vs[i].log))
          /\ \A j, k \in DOMAIN vs[i].log : vs[i].log[j].key = vs[i].log[k].key => j = k
      BY <2>7 DEF KeysOnce
    <3>2. LogKeyActive(vs[i - 1], cp.key, cp.size) /\ ~LogKeyActive(vs[i], cp.key, cp.size)
      BY <2>3, <2>5 DEF VerifiesUnder
    <3> QED BY <3>1, <3>2, ActiveBySet
  <2>9. Rotates(vs[(i - 1) + 1], vs[i - 1])
    BY <2>6, <2>8 DEF Rotates
  <2> DEFINE r == [index |-> vs[(i - 1) + 1].index, outgoing |-> vs[i - 1]]
  <2>10. r \in Rotations(long)
    BY <2>6, <2>9 DEF Rotations, vs, last
  <2>11. r.index < cp.size /\ VerifiesUnder(r.outgoing, cp)
    <3>1. vs[i].index \in 0 .. m - 1
      BY <1>2, <2>6
    <3> QED BY <1>1, <2>5, <2>6, <3>1
  <2>12. r.index \in Anchors(long, cp)
    <3> HIDE DEF r
    <3> QED BY <2>10, <2>11 DEF Anchors
  <2> QED BY <2>12
<1>9. VerifiesUnder(Active(long), cp) \/ Anchors(long, cp) # {}
  BY <1>5, <1>7, <1>8
<1> QED BY <1>6, <1>7, <1>9

(* A checkpoint alone in its slot finds it free or its own.                *)
LEMMA SlotIsFree ==
    ASSUME RecordsBacked, NEW q \in Own, q.kind = "ingest", Proper(q), NEW a, a.cp = q.cp
    PROVE  ~MemberClash(checkpoints, a) /\ ~AnchorClash(rotations, a)
<1>1. \A cp : Backed(cp) /\ SameSlot(cp, q.cp) => cp = q.cp
  BY DEF Proper, Backed
<1>2. ~MemberClash(checkpoints, a)
  BY <1>1 DEF MemberClash, RecordsBacked
<1>3. ~AnchorClash(rotations, a)
  BY <1>1 DEF AnchorClash, RecordsBacked
<1> QED BY <1>2, <1>3

(* Nothing of the log a checkpoint in order commits ends the walk.         *)
LEMMA NothingEndsTheWalk ==
    ASSUME NEW q \in Own, q.kind = "ingest", Proper(q), NEW n \in 0 .. q.cp.size
    PROVE  ~Walk(Root(Log, n)).aborted
<1>1. q \in Requests /\ q.cp.genuine /\ Admissible(q.cp.root, q.cp, q.named)
  BY DEF Proper, Requests
<1>2. /\ q.cp.size \in Nat
      /\ 0 .. q.cp.size - 1 \subseteq DOMAIN Log /\ q.cp.root = Root(Log, q.cp.size)
  BY <1>1, IngestionsTyped, GenuineIsTheLogs
<1>3. Extends(Walk(q.cp.root), Walk(Root(Log, n)))
  BY <1>2, WalkOfTheLog
<1>4. ~Walk(q.cp.root).aborted
  BY <1>1 DEF Admissible, Resolvable
<1> QED BY <1>3, <1>4 DEF Extends

(* The answer to an ingestion in order over rows read.                     *)
LEMMA IngestionInOrder ==
    ASSUME IInv, RecordsBacked, NEW q \in Own, q.kind = "ingest", Proper(q),
           NEW m \in 0 .. q.cp.size, HoldsPrefix(entries, m), NEW seen, seen = Root(Log, m),
           NEW log, log = VisiblePrefix(q.cp, q.batch, seen)
    PROVE  /\ IngestAnswer(q, seen).error \in NotYet \cup {Accepted}
           /\ (/\ \A x \in DOMAIN q.batch : q.batch[x].entry \in staged
               /\ BatchVerdict(q.cp, q.batch) = Accepted
               /\ Admissible(log, q.cp, q.named))
                => IngestAnswer(q, seen).error = Accepted
<1> DEFINE overlay == OverlayVerdict(q.cp, q.batch, Cardinality(DOMAIN seen))
           a == Verdict(q, log)
           batch == BatchVerdict(q.cp, q.batch)
           transaction == TransactionVerdict(q, a)
           judged == Judged(q, a, Governing(Walk(log)))
           key == KeyVerdict(Governing(Walk(log)), q.cp, q.fault)
<1>1. /\ q \in Requests /\ q.cp.genuine /\ q.cp.size <= MaxTreeSize
      /\ \A x \in DOMAIN q.batch : Opens(q.cp, q.batch[x])
      /\ Admissible(q.cp.root, q.cp, q.named)
  BY DEF Proper, Requests
<1>2. /\ q.cp \in Published /\ q.cp.size \in Nat /\ q.batch \in Seq(Claim)
      /\ IsRestriction(q.cp.root, Log) /\ q.fault = Accepted
  BY <1>1, IngestionsTyped
<1>3. /\ 0 .. q.cp.size - 1 \subseteq DOMAIN Log /\ q.cp.root = Root(Log, q.cp.size)
      /\ \A x \in DOMAIN q.batch :
            q.batch[x].index \in DOMAIN Log /\ Log[q.batch[x].index] = q.batch[x].entry
  BY <1>1, GenuineIsTheLogs
<1>4. ~Walk(log).aborted
  <2>1. PICK n \in m .. q.cp.size : log = Root(Log, n)
    BY <1>1, SeesTheLog DEF IInv
  <2>2. n \in 0 .. q.cp.size
    BY <1>2, <2>1
  <2> QED BY <2>1, <2>2, NothingEndsTheWalk
<1>5. /\ overlay \in {"NotStaged", Accepted}
      /\ (\A x \in DOMAIN q.batch : q.batch[x].entry \in staged) => overlay = Accepted
  <2> DEFINE bad == {x \in Relevant(q.cp, q.batch, Cardinality(DOMAIN seen)) :
                        q.batch[x].entry \notin staged \/ ~Opens(q.cp, q.batch[x])}
  <2>1. bad \subseteq DOMAIN q.batch /\ bad \in SUBSET Nat
    <3>1. DOMAIN q.batch \in SUBSET Nat
      BY <1>2
    <3> QED BY <3>1 DEF Relevant
  <2>2. \A x \in bad : q.batch[x].entry \notin staged
    BY <1>1, <2>1
  <2>3. bad # {} => Min(bad) \in bad
    <3> HIDE DEF bad
    <3> SUFFICES ASSUME bad # {} PROVE Min(bad) \in bad
      OBVIOUS
    <3>1. PICK n \in bad : \A k \in bad : n <= k
      BY <2>1, Order!LeastNatural
    <3> QED BY <3>1 DEF Min
  <2>4. overlay = IF bad = {} THEN Accepted
                  ELSE IF q.batch[Min(bad)].entry \notin staged THEN "NotStaged"
                  ELSE "InclusionProofInvalid"
    BY DEF OverlayVerdict
  <2> HIDE DEF bad, overlay
  <2> QED BY <2>1, <2>2, <2>3, <2>4
<1>6. batch \in {"NotStaged", "OutOfOrderIndex", Accepted}
  BY <1>1, <1>2, <1>3, ClaimsInOrder DEF IInv, HeldIsTheLogs
<1>7. transaction = batch
  <2>1. ~MemberClash(checkpoints, a) /\ ~AnchorClash(rotations, a)
    <3>1. a.cp = q.cp
      BY DEF Verdict
    <3> HIDE DEF a
    <3> QED BY <3>1, SlotIsFree
  <2>2. batch = Accepted => ~RootClash(WithBatch(entries, q.batch), q.cp)
    BY <1>2, BatchIsCopied, GenuineRootAgrees DEF IInv, HeldIsTheLogs
  <2> HIDE DEF a
  <2> QED BY <2>1, <2>2 DEF TransactionVerdict
<1>8. /\ a.member = VerifiesUnder(Governing(Walk(log)), q.cp)
      /\ a.anchors = Anchors(log, q.cp)
  BY DEF Verdict, Active
<1>9. ~a.member => key \in {"UnknownSigningKey", "KeyNotYetActive"}
  BY <1>1, <1>8 DEF VerifiesUnder, KeyVerdict
<1>10. /\ judged \in NotYet \cup {Accepted}
       /\ (batch = Accepted /\ Admissible(log, q.cp, q.named)) => judged = Accepted
  <2>1. Judged(q, a, Governing(Walk(log))) =
            IF q.named # NotNamed /\ q.named \notin a.anchors THEN "NotRotationMaterial"
            ELSE IF ~a.member /\ a.anchors = {} THEN key
            ELSE transaction
    BY DEF Judged
  <2>2. Admissible(log, q.cp, q.named) =>
            /\ q.named = NotNamed \/ q.named \in a.anchors
            /\ a.member \/ a.anchors # {}
    BY <1>8 DEF Admissible, Active
  <2>3. a.member \in BOOLEAN
    BY <1>8 DEF VerifiesUnder, LogKeyActive, ListAuthorises
  <2> HIDE DEF a, key, transaction, batch
  <2> QED BY <1>6, <1>7, <1>9, <2>1, <2>2, <2>3 DEF NotYet
<1> HIDE DEF judged, overlay, a
<1>11. IngestVerdict(q, seen) =
            IF overlay # Accepted THEN overlay
            ELSE IF ~Established(Walk(log)) THEN "GovernanceChainUnresolvable"
            ELSE judged
  <2>1. ~(q.cp.size > MaxTreeSize)
    BY <1>1, <1>2, MaxTreeSizeAssumption
  <2> QED BY <1>1, <1>4, <2>1, VerdictUnfolds DEF judged, overlay, a
<1>12. IngestAnswer(q, seen).error = IngestVerdict(q, seen)
  BY AnswerUnfolds DEF Created, Refused
<1>13. Admissible(log, q.cp, q.named) => Established(Walk(log))
  BY DEF Admissible, Resolvable
<1>14. IngestVerdict(q, seen) \in NotYet \cup {Accepted}
  BY <1>5, <1>10, <1>11 DEF NotYet
<1> HIDE DEF batch
<1> QED BY <1>5, <1>10, <1>11, <1>12, <1>13, <1>14 DEF batch

(* The member a promotion is held to.                                      *)
LEMMA LatestIsBacked ==
    ASSUME HeldIsTheLogs, RecordsBacked, NEW size, OfSize(checkpoints, size) # {}
    PROVE  LET cp == Latest(OfSize(checkpoints, size))
           IN  cp \in checkpoints /\ Backed(cp) /\ cp.size = size /\ size \in Nat
<1> DEFINE found == OfSize(checkpoints, size)
<1>1. /\ found \in SUBSET checkpoints /\ IsFiniteSet(found)
      /\ \A cp \in found : cp.size = size
  BY FS_Subset DEF HeldIsTheLogs, OfSize
<1>2. Sized(found)
  <2>1. \A cp \in found : cp \in Published
    BY <1>1 DEF RecordsBacked, Backed
  <2> HIDE DEF found
  <2> QED BY <2>1, SubmissionAssumption DEF Sized, Published, IsCheckpoint
<1> HIDE DEF found
<1>3. Latest(found) \in found
  BY <1>1, <1>2, LatestExists DEF found
<1>4. Latest(found).size \in Nat
  BY <1>2, <1>3 DEF Sized
<1> QED BY <1>1, <1>3, <1>4 DEF RecordsBacked, found

LEMMA PromotionInOrder ==
    ASSUME IInv, RecordsBacked, NEW q \in Own, q.kind = "promote", Proper(q)
    PROVE  /\ PromoteAnswer(q).error \in NotYet \cup {Accepted}
           /\ (/\ OfSize(checkpoints, q.size) # {} /\ q.claim.entry \in staged
               /\ HoldsPrefix(entries, q.claim.index) \/ AlreadyPresent(entries, q.claim))
                => PromoteAnswer(q).error = Accepted
<1> DEFINE cp == Latest(OfSize(checkpoints, q.size))
           verdict == ClaimVerdict(entries, cp, q.claim)
<1>1. /\ q.claim.index \in DOMAIN Log /\ Log[q.claim.index] = q.claim.entry
      /\ q.claim.index < q.size
  BY DEF Proper
<1>2. PICK k \in Nat : 0 .. k - 1 \subseteq DOMAIN Log /\ entries = Root(Log, k)
  BY DEF IInv, HeldIsTheLogs, Beginning
<1>3. /\ IsRestriction(entries, Log) /\ DOMAIN entries = 0 .. k - 1 /\ NextIndex(entries) = k
  BY <1>2, RowsOfTheLog DEF IsRestriction
<1>4. q.claim.index \in Nat
  <2>1. DOMAIN Log \in SUBSET Nat
    BY LogShape
  <2> QED BY <1>1, <2>1
<1>5. HoldsPrefix(entries, q.claim.index) =>
        q.claim.index \in DOMAIN entries \/ q.claim.index = NextIndex(entries)
  <2> SUFFICES ASSUME HoldsPrefix(entries, q.claim.index), q.claim.index # k, q.claim.index > k - 1
               PROVE  FALSE
    BY <1>2, <1>3, <1>4
  <2>1. q.claim.index - 1 \in 0 .. q.claim.index - 1 /\ q.claim.index - 1 > k - 1
    BY <1>2, <1>4
  <2> QED BY <1>2, <1>3, <2>1 DEF HoldsPrefix
<1>6. ASSUME OfSize(checkpoints, q.size) # {}
      PROVE  /\ verdict \in {"NotStaged", "OutOfOrderIndex", Accepted}
             /\ q.claim.entry \in staged =>
                    (q.claim.index \in DOMAIN entries \/ q.claim.index = NextIndex(entries)
                        => verdict = Accepted)
  <2>1. Backed(cp) /\ cp.size = q.size
    BY <1>6, LatestIsBacked DEF IInv
  <2> HIDE DEF cp
  <2>2. Opens(cp, q.claim)
    <3>1. cp.size \in Nat /\ cp.root \in [0 .. cp.size - 1 -> Entry] /\ IsRestriction(cp.root, Log)
      BY <2>1, SubmissionAssumption DEF Backed, Published, IsCheckpoint
    <3>2. q.claim.index \in DOMAIN cp.root
      BY <1>1, <1>4, <2>1, <3>1
    <3> QED BY <1>1, <2>1, <3>1, <3>2 DEF Opens, IsRestriction
  <2> QED BY <1>1, <1>3, <2>2, ClaimInOrder
<1>7. PromoteAnswer(q) =
        IF OfSize(checkpoints, q.size) = {} THEN Refused("UnknownCheckpoint")
        ELSE IF verdict # Accepted THEN Refused(verdict)
        ELSE IF AlreadyPresent(entries, q.claim) THEN Unchanged ELSE Created
  BY DEF PromoteAnswer
<1>8. AlreadyPresent(entries, q.claim) => q.claim.index \in DOMAIN entries
  BY DEF AlreadyPresent
<1> HIDE DEF verdict
<1> QED BY <1>5, <1>6, <1>7, <1>8 DEF Refused, Unchanged, Created, NotYet

(* Once what it waits for has arrived, the batch of an ingestion in order  *)
(* is promoted and the log it commits is seen whole.                       *)
LEMMA ArrivedIsAccepted ==
    ASSUME IInv, NEW q \in Own, q.kind = "ingest", Proper(q), Arrived(q),
           NEW m \in 0 .. q.cp.size, HoldsPrefix(entries, m),
           Below(entries, q.cp.size) = Root(Log, m)
    PROVE  /\ BatchVerdict(q.cp, q.batch) = Accepted
           /\ VisiblePrefix(q.cp, q.batch, Root(Log, m)) = q.cp.root
<1> DEFINE batch == q.batch
<1>1. /\ q \in Requests /\ q.cp.genuine
      /\ \A x \in DOMAIN q.batch : Opens(q.cp, q.batch[x])
  BY DEF Proper, Requests
<1>2. q.cp \in Published /\ q.cp.size \in Nat /\ q.batch \in Seq(Claim)
  BY <1>1, IngestionsTyped
<1>3. /\ q.cp.root = Root(Log, q.cp.size)
      /\ \A x \in DOMAIN q.batch :
            q.batch[x].index \in DOMAIN Log /\ Log[q.batch[x].index] = q.batch[x].entry
  BY <1>1, GenuineIsTheLogs
<1>4. /\ \A x \in DOMAIN q.batch :
            /\ q.batch[x].entry \in staged
            /\ HoldsPrefix(After(q.cp, q.batch, x - 1), q.batch[x].index)
      /\ HoldsPrefix(WithBatch(entries, q.batch), q.cp.size)
  BY DEF Arrived
<1>5. DOMAIN batch = 1 .. Len(batch) /\ Len(batch) \in Nat
      /\ \A x \in DOMAIN batch : batch[x].index \in Nat
  <2>1. \A x \in DOMAIN q.batch : q.batch[x] \in Claim
    BY <1>2
  <2> QED BY <1>2, <2>1 DEF Claim
<1>6. ASSUME NEW n \in Nat, NEW k \in Nat, 0 .. k - 1 \subseteq DOMAIN Log,
             HoldsPrefix(Root(Log, k), n)
      PROVE  n \in 0 .. k
  <2>1. DOMAIN Root(Log, k) = 0 .. k - 1
    BY <1>6, RowsOfTheLog
  <2>2. n > k => n - 1 \in 0 .. n - 1 /\ n - 1 \notin 0 .. k - 1
    OBVIOUS
  <2> QED BY <1>6, <2>1, <2>2 DEF HoldsPrefix
<1>7. Beginning(entries)
  BY DEF IInv, HeldIsTheLogs
<1>8. /\ \A n \in 0 .. Len(batch) : Beginning(After(q.cp, batch, n))
      /\ WithBatch(entries, batch) = After(q.cp, batch, Len(batch))
  <2>1. \A n \in 1 .. Len(batch), k \in Nat :
            0 .. k - 1 \subseteq DOMAIN Log /\ After(q.cp, batch, n - 1) = Root(Log, k)
                => batch[n].index \in 0 .. k
    BY <1>4, <1>5, <1>6
  <2> QED BY <1>2, <1>3, <1>7, <2>1, BatchInOrder
<1>9. ASSUME NEW x \in DOMAIN batch
      PROVE  \/ batch[x].index \in DOMAIN After(q.cp, batch, x - 1)
             \/ batch[x].index = NextIndex(After(q.cp, batch, x - 1))
  <2>1. x - 1 \in 0 .. Len(batch)
    BY <1>5
  <2>2. PICK k \in Nat : 0 .. k - 1 \subseteq DOMAIN Log
                         /\ After(q.cp, batch, x - 1) = Root(Log, k)
    BY <1>8, <2>1 DEF Beginning
  <2>3. batch[x].index \in 0 .. k
    BY <1>4, <1>5, <1>6, <2>2
  <2>4. DOMAIN Root(Log, k) = 0 .. k - 1 /\ NextIndex(Root(Log, k)) = k
    BY <2>2, RowsOfTheLog
  <2> QED BY <2>2, <2>3, <2>4
<1>10. BatchVerdict(q.cp, batch) = Accepted
  BY <1>1, <1>2, <1>3, <1>4, <1>7, <1>9, ClaimsInOrder
<1>11. m .. q.cp.size - 1 \subseteq {batch[x].index : x \in DOMAIN batch}
  <2> SUFFICES ASSUME NEW i \in m .. q.cp.size - 1
               PROVE  i \in {batch[x].index : x \in DOMAIN batch}
    OBVIOUS
  <2>1. i \in DOMAIN entries \cup {batch[x].index : x \in DOMAIN batch}
    BY <1>2, <1>4 DEF HoldsPrefix, WithBatch
  <2>2. i \notin DOMAIN entries
    <3>1. DOMAIN Below(entries, q.cp.size) = {j \in DOMAIN entries : j < q.cp.size}
      BY DEF Below, Restrict
    <3>2. DOMAIN Root(Log, m) = 0 .. m - 1
      BY DEF Root, Restrict
    <3>3. i < q.cp.size /\ i \notin 0 .. m - 1
      BY <1>2
    <3> QED BY <3>1, <3>2, <3>3
  <2> QED BY <2>1, <2>2
<1>12. VisiblePrefix(q.cp, batch, Root(Log, m)) = Root(Log, q.cp.size)
  BY <1>1, <1>11, SeesTheLog DEF IInv
<1> QED BY <1>3, <1>10, <1>12

-----------------------------------------------------------------------------
(* What was granted is kept: the bytes of every row are staged, and what   *)
(* an admission was judged by and promoted is held.                        *)
RowsStaged == \A i \in DOMAIN entries : entries[i] \in staged
Kept(a, table) ==
    /\ a.cp \in Published
    /\ \E n \in 0 .. a.cp.size : HoldsPrefix(table, n) /\ a.seen = Root(Log, n)
    /\ a.anchors = Anchors(a.seen, a.cp)
    /\ Resolvable(a.seen) /\ (VerifiesUnder(Active(a.seen), a.cp) \/ a.anchors # {})
    /\ \A x \in DOMAIN a.batch : AlreadyPresent(table, a.batch[x])
GrantsKept == RowsStaged /\ \A a \in admitted : Kept(a, entries)

(* Growing tables keep what was granted.                                   *)
LEMMA KeptOverGrowth ==
    ASSUME NEW table, NEW grown, IsRestriction(table, grown), NEW a, Kept(a, table)
    PROVE  Kept(a, grown)
<1>1. \A n : HoldsPrefix(table, n) => HoldsPrefix(grown, n)
  BY DEF HoldsPrefix, IsRestriction
<1>2. \A claim : AlreadyPresent(table, claim) => AlreadyPresent(grown, claim)
  BY DEF AlreadyPresent, IsRestriction
<1> QED BY <1>1, <1>2 DEF Kept

LEMMA AdmissionKept ==
    ASSUME IInv, NEW lane \in Lanes, NEW q, AcceptIngest(lane, q)
    PROVE  \E a : Kept(a, entries') /\ admitted' = admitted \cup {a}
<1> DEFINE log == VisiblePrefix(q.cp, q.batch, judging[lane].seen)
           a == Verdict(q, log)
<1>1. /\ a.cp = q.cp /\ a.batch = q.batch /\ a.seen = log
      /\ a.member = VerifiesUnder(Active(log), q.cp) /\ a.anchors = Anchors(log, q.cp)
  BY DEF Verdict
<1>2. /\ Backed(q.cp) /\ Admissible(log, q.cp, q.named)
      /\ \E k \in 0 .. q.cp.size : HoldsPrefix(entries', k) /\ log = Root(Log, k)
      /\ \A x \in DOMAIN q.batch : AlreadyPresent(entries', q.batch[x])
      /\ admitted' = admitted \cup {a}
  BY AdmissionSeen
<1> HIDE DEF a, log
<1>3. Kept(a, entries')
  BY <1>1, <1>2 DEF Kept, Admissible, Backed
<1> QED BY <1>2, <1>3

LEMMA GrantsKeptStep ==
    ASSUME IInv, GrantsKept, [Next]_vars
    PROVE  GrantsKept'
<1>1. IsRestriction(entries, entries')
  BY FeedGrows
<1>2. \A a \in admitted : Kept(a, entries')
  BY <1>1, KeptOverGrowth DEF GrantsKept
<1>3. \/ UNCHANGED admitted
      \/ \E lane \in Lanes : \E q \in OfLane(lane) : AcceptIngest(lane, q)
  BY DEF Next, Serve, Finish, StageRequest, AtomicStage, PromoteRequest, BeginIngest,
         RefuseIngest, Crash, vars, atomicVars
<1>4. \A a \in admitted' : Kept(a, entries')
  BY <1>2, <1>3, AdmissionKept
<1>5. RowsStaged'
  <2>1. [AtomicNext]_atomicVars
    BY FeedStep
  <2>2. CASE UNCHANGED <<entries, staged>>
    BY <2>2 DEF GrantsKept, RowsStaged
  <2>3. CASE \E e \in Entry : AtomicStage(e)
    BY <2>3 DEF AtomicStage, GrantsKept, RowsStaged
  <2>4. ASSUME NEW cp, NEW batch, PromoteAll(cp, batch), UNCHANGED staged
        PROVE  RowsStaged'
    <3>1. /\ entries' = WithBatch(entries, batch)
          /\ \A x \in DOMAIN batch : batch[x].entry \in staged
      BY <2>4 DEF PromoteAll
    <3>2. ASSUME NEW i \in DOMAIN entries' PROVE entries'[i] \in staged
      <4>1. CASE i \in DOMAIN entries
        BY <3>1, <4>1 DEF WithBatch, GrantsKept, RowsStaged
      <4>2. CASE i \notin DOMAIN entries
        <5> DEFINE x == CHOOSE y \in DOMAIN batch : batch[y].index = i
        <5>1. i \in {batch[y].index : y \in DOMAIN batch}
          BY <3>1, <4>2 DEF WithBatch
        <5>2. x \in DOMAIN batch
          BY <5>1
        <5>3. entries'[i] = batch[x].entry
          BY <3>1, <4>2 DEF WithBatch
        <5> QED BY <3>1, <5>2, <5>3
      <4> QED BY <4>1, <4>2
    <3> QED BY <2>4, <3>2 DEF RowsStaged
  <2> QED BY <2>1, <2>2, <2>3, <2>4 DEF AtomicNext, AtomicAdmit, AtomicPromote, atomicVars
<1> QED BY <1>4, <1>5 DEF GrantsKept

(* What was granted, over the rows held now.                               *)
LEMMA GrantedIngestion ==
    ASSUME KeysOnce, IInv, RecordsBacked, GrantsKept, NEW q \in Own, q.kind = "ingest",
           Proper(q), WasGranted(q)
    PROVE  IngestAnswer(q, Below(entries, q.cp.size)).error = Accepted
<1>1. /\ q \in Requests /\ q.cp.genuine
      /\ \A x \in DOMAIN q.batch : Opens(q.cp, q.batch[x])
  BY DEF Proper, Requests
<1>2. q.cp \in Published /\ q.cp.size \in Nat /\ q.batch \in Seq(Claim)
  BY <1>1, IngestionsTyped
<1>3. /\ 0 .. q.cp.size - 1 \subseteq DOMAIN Log
      /\ \A x \in DOMAIN q.batch :
            q.batch[x].index \in DOMAIN Log /\ Log[q.batch[x].index] = q.batch[x].entry
  BY <1>1, GenuineIsTheLogs
<1>4. PICK a \in admitted :
        a.cp = q.cp /\ a.batch = q.batch /\ q.named \in a.anchors \cup {NotNamed}
  BY DEF WasGranted
<1>5. Kept(a, entries)
  BY <1>4 DEF GrantsKept
<1>6. PICK n \in 0 .. q.cp.size : HoldsPrefix(entries, n) /\ a.seen = Root(Log, n)
  BY <1>4, <1>5 DEF Kept
<1>7. PICK m \in 0 .. q.cp.size :
        HoldsPrefix(entries, m) /\ Below(entries, q.cp.size) = Root(Log, m)
  BY <1>2, BelowIsRead DEF IInv
<1>8. n \in 0 .. m
  <2>1. n > 0 => n - 1 \in DOMAIN entries /\ n - 1 < q.cp.size
    BY <1>2, <1>6 DEF HoldsPrefix
  <2>2. n > 0 => n - 1 \in DOMAIN Root(Log, m)
    BY <1>7, <2>1 DEF Below, Restrict
  <2>3. DOMAIN Root(Log, m) = 0 .. m - 1
    BY DEF Root, Restrict
  <2> QED BY <1>2, <1>6, <1>7, <2>2, <2>3
<1> DEFINE log == VisiblePrefix(q.cp, q.batch, Root(Log, m))
<1>9. PICK k \in m .. q.cp.size : log = Root(Log, k)
  BY <1>1, <1>7, SeesTheLog DEF IInv
<1> HIDE DEF log
<1>10. k \in 0 .. q.cp.size /\ n \in 0 .. k /\ 0 .. k - 1 \subseteq DOMAIN Log
  BY <1>2, <1>3, <1>7, <1>8, <1>9
<1>11. ~Walk(log).aborted
  BY <1>9, <1>10, NothingEndsTheWalk
<1>12. /\ Resolvable(a.seen) /\ a.anchors = Anchors(a.seen, q.cp)
       /\ VerifiesUnder(Active(a.seen), q.cp) \/ Anchors(a.seen, q.cp) # {}
  BY <1>4, <1>5 DEF Kept
<1>13. Admissible(log, q.cp, q.named)
  <2>1. /\ Resolvable(log)
        /\ VerifiesUnder(Active(log), q.cp) \/ Anchors(log, q.cp) # {}
        /\ Anchors(a.seen, q.cp) \subseteq Anchors(log, q.cp)
    BY <1>2, <1>6, <1>9, <1>10, <1>11, <1>12, StillCovered
  <2> QED BY <1>4, <1>12, <2>1 DEF Admissible
<1>14. \A x \in DOMAIN q.batch :
        q.batch[x].index \in DOMAIN entries /\ q.batch[x].entry \in staged
  BY <1>4, <1>5 DEF Kept, AlreadyPresent, GrantsKept, RowsStaged
<1>15. BatchVerdict(q.cp, q.batch) = Accepted
  <2>1. \A x \in DOMAIN q.batch : q.batch[x].index \in DOMAIN After(q.cp, q.batch, x - 1)
    BY <1>14 DEF After, WithBatch
  <2> QED BY <1>1, <1>2, <1>3, <1>14, <2>1, ClaimsInOrder DEF IInv, HeldIsTheLogs
<1>16. IngestAnswer(q, Root(Log, m)).error = Accepted
  BY <1>7, <1>13, <1>14, <1>15, IngestionInOrder DEF log
<1> QED BY <1>7, <1>16


-----------------------------------------------------------------------------
(* The theorems.                                                           *)

(* The invariant holds of every behaviour.                                 *)
THEOREM FeedInductive == Spec => []IInv
<1>1. IInv /\ [Next]_vars => IInv'
  BY FeedStep
<1> QED BY <1>1, IInvInit, PTL DEF Spec

(* Whoever posts whatever in whatever order, overlapping and with crashes, *)
(* the rows held are the first rows of the honest log: the entries table   *)
(* never holds a stranger's entry, a gap or an entry out of its place.     *)
THEOREM CopyIsABeginning == Spec => []Beginning(entries)
<1>1. IInv => Beginning(entries)
  BY DEF IInv, HeldIsTheLogs
<1> QED BY <1>1, FeedInductive, PTL

(* The routes, answering check by check what error.rs names, implement the *)
(* write side in which a submission is one step: a request that is refused *)
(* changes nothing, and one that is granted is a whole submission judged   *)
(* by rows the mirror held.                                                *)
THEOREM AnswersImplementTheAtomicMirror == Spec => ImplementsAtomicMirror
<1>1. Init => AtomicInit
  BY DEF Init
<1>2. IInv /\ [Next]_vars => [AtomicNext]_atomicVars
  BY FeedStep
<1> QED BY <1>1, <1>2, FeedInductive, PTL DEF Spec, AtomicSpec, ImplementsAtomicMirror

(* Nobody gets a 500 out of a mirror of an honest log: what he posts is    *)
(* refused as his own error, or granted.                                   *)
THEOREM NeverAServerFault == Spec => []NoServerFault
<1>1. IInv => NoServerFault
  <2> SUFFICES ASSUME IInv, NEW q \in Others
               PROVE  Answer(q).error \in ClientErrors \cup {Accepted}
    BY DEF NoServerFault
  <2>1. q \in Requests /\ Beginning(entries)
    BY DEF IInv, HeldIsTheLogs, Requests
  <2>2. q.kind \in {"stage", "promote", "ingest"}
    BY <2>1, RequestAssumption
  <2>3. Answer(q).error \in Refusals \cup {Accepted}
    BY <2>1, <2>2, StagingErrors, PromotionErrorsMet, IngestionErrors DEF Answer
  <2> QED BY <2>3, RefusalsAreClients
<1> QED BY <1>1, FeedInductive, PTL

(* What the operator is promised, but for its completeness in the end: the *)
(* copy only ever grows, along the log; whatever size or handover has      *)
(* become provable stays so; and only what the operator published and its  *)
(* log contains becomes provable, once the entries are held.  No           *)
(* stranger's request, refusal or crash takes anything back.               *)
THEOREM MirrorGrowsAsAReplica == Spec => Mirrored!Growth
<1>1. Init => Mirrored!Init
  <2>1. EmptyTable = Restrict(Log, {})
    BY DEF EmptyTable, Restrict
  <2> QED BY <2>1 DEF Init, AtomicInit, Mirrored!Init, Mirrored!Restrict, Restrict,
                     ProvableSizes, ProvableHandovers
<1>2. Init => RecordsBacked
  BY DEF Init, AtomicInit, RecordsBacked
<1>3. IInv /\ RecordsBacked /\ [Next]_vars => RecordsBacked'
  BY BackedStep
<1>4. IInv /\ RecordsBacked /\ [Next]_vars => [Mirrored!Advance]_(Mirrored!vars)
  BY ReplicaStep
<1> QED BY <1>1, <1>2, <1>3, <1>4, FeedInductive, PTL DEF Spec, Mirrored!Growth

(* The invariant, with what was recorded and what was granted.             *)
LEMMA FeedKeeps == Spec => [](IInv /\ RecordsBacked /\ GrantsKept)
<1>1. Init => RecordsBacked /\ GrantsKept
  BY DEF Init, AtomicInit, RecordsBacked, GrantsKept, RowsStaged, EmptyTable
<1>2. IInv /\ RecordsBacked /\ GrantsKept /\ [Next]_vars => RecordsBacked' /\ GrantsKept'
  BY BackedStep, GrantsKeptStep
<1> QED BY <1>1, <1>2, FeedInductive, PTL DEF Spec

(* A request in order of the operator's succeeds as soon as what it waits  *)
(* for is there, and is refused before only for what is missing, also when *)
(* it is judged by rows read earlier: whatever strangers post, and however *)
(* often, takes no index, entry id or slot away from it.                   *)
THEOREM StrangersAreNeverInTheWay == Spec => []OnlyTheMissingRefuses
<1>1. IInv /\ RecordsBacked => OnlyTheMissingRefuses
  <2> SUFFICES ASSUME IInv, RecordsBacked, NEW q \in Own, Proper(q)
               PROVE  /\ Arrived(q) => Succeeds(q)
                      /\ Answer(q).error \in NotYet \cup {Accepted}
                      /\ q \in judging["own"].request =>
                            IngestAnswer(q, judging["own"].seen).error \in NotYet \cup {Accepted}
    BY DEF OnlyTheMissingRefuses, Orderly
  <2>1. q \in Requests /\ q.kind \in {"stage", "promote", "ingest"}
    BY RequestAssumption DEF Requests
  <2>2. CASE q.kind = "stage"
    <3>1. Answer(q).error = Accepted
      BY <2>2 DEF Answer, StageAnswer, Proper, Created, Unchanged
    <3>2. q \notin judging["own"].request
      BY <2>2, JudgedByRowsHeld DEF Lanes
    <3> QED BY <3>1, <3>2 DEF Succeeds
  <2>3. CASE q.kind = "promote"
    <3>1. Answer(q) = PromoteAnswer(q)
      BY <2>3 DEF Answer
    <3>2. q \notin judging["own"].request
      BY <2>3, JudgedByRowsHeld DEF Lanes
    <3>3. Arrived(q) => /\ OfSize(checkpoints, q.size) # {} /\ q.claim.entry \in staged
                        /\ HoldsPrefix(entries, q.claim.index)
      BY <2>3 DEF Arrived
    <3> QED BY <2>3, <3>1, <3>2, <3>3, PromotionInOrder DEF Succeeds
  <2>4. CASE q.kind = "ingest"
    <3>1. Answer(q) = IngestAnswer(q, Below(entries, q.cp.size))
      BY <2>4 DEF Answer
    <3>2. PICK m \in 0 .. q.cp.size :
            HoldsPrefix(entries, m) /\ Below(entries, q.cp.size) = Root(Log, m)
      BY <2>1, <2>4, IngestionsTyped, BelowIsRead DEF IInv
    <3>3. Answer(q).error \in NotYet \cup {Accepted}
      BY <2>4, <3>1, <3>2, IngestionInOrder
    <3>4. ASSUME Arrived(q) PROVE Succeeds(q)
      <4>1. /\ BatchVerdict(q.cp, q.batch) = Accepted
            /\ VisiblePrefix(q.cp, q.batch, Root(Log, m)) = q.cp.root
        BY <2>4, <3>2, <3>4, ArrivedIsAccepted
      <4>2. /\ \A x \in DOMAIN q.batch : q.batch[x].entry \in staged
            /\ Admissible(q.cp.root, q.cp, q.named)
        BY <2>4, <3>4 DEF Arrived, Proper
      <4> QED BY <2>4, <3>1, <3>2, <4>1, <4>2, IngestionInOrder DEF Succeeds
    <3>5. ASSUME q \in judging["own"].request
          PROVE  IngestAnswer(q, judging["own"].seen).error \in NotYet \cup {Accepted}
      <4>1. PICK n \in 0 .. q.cp.size :
                HoldsPrefix(entries, n) /\ judging["own"].seen = Root(entries, n)
        BY <3>5, JudgedByRowsHeld DEF Lanes
      <4>2. n \in Nat
        BY <2>1, <2>4, IngestionsTyped
      <4>3. judging["own"].seen = Root(Log, n)
        BY <4>1, <4>2, ReadIsHeld DEF IInv
      <4> QED BY <2>4, <4>1, <4>3, IngestionInOrder
    <3> QED BY <3>3, <3>4, <3>5
  <2> QED BY <2>1, <2>2, <2>3, <2>4
<1> QED BY <1>1, FeedKeeps, PTL

(* What was granted to a request in order is granted to it for ever, if    *)
(* the log's governance lists no key twice: an answer that got lost may be *)
(* asked for again after whatever else was served.                         *)
THEOREM AGrantIsRepeated == KeysOnce => (Spec => []GrantedAgain)
<1> SUFFICES ASSUME KeysOnce PROVE Spec => []GrantedAgain
  OBVIOUS
<1>1. IInv /\ RecordsBacked /\ GrantsKept => GrantedAgain
  <2> SUFFICES ASSUME IInv, RecordsBacked, GrantsKept, NEW q \in Own, Proper(q), WasGranted(q)
               PROVE  Succeeds(q)
    BY DEF GrantedAgain, Orderly
  <2>1. q.kind \in {"stage", "promote", "ingest"}
    BY RequestAssumption DEF Requests
  <2>2. CASE q.kind = "stage"
    BY <2>2 DEF Succeeds, Answer, StageAnswer, Proper, Created, Unchanged
  <2>3. CASE q.kind = "promote"
    <3>1. AlreadyPresent(entries, q.claim) /\ OfSize(checkpoints, q.size) # {}
      BY <2>3 DEF WasGranted
    <3>2. q.claim.entry \in staged
      BY <3>1 DEF AlreadyPresent, GrantsKept, RowsStaged
    <3>3. PromoteAnswer(q).error = Accepted
      BY <2>3, <3>1, <3>2, PromotionInOrder
    <3> QED BY <2>3, <3>3 DEF Succeeds, Answer
  <2>4. CASE q.kind = "ingest"
    BY <2>4, GrantedIngestion DEF Succeeds, Answer
  <2> QED BY <2>1, <2>2, <2>3, <2>4
<1> QED BY <1>1, FeedKeeps, PTL
=============================================================================
