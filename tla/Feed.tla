-------------------------------- MODULE Feed --------------------------------
(***************************************************************************)
(* The mirror fed by an honest log, among strangers.  The log's operator   *)
(* has requests of its own (stagings, promotions, checkpoints with their   *)
(* batches) and posts each again and again, in any order, for requests and *)
(* answers may be lost and a refusal may be for what has not arrived yet.  *)
(* Anyone else may post anything at any time, the operator's own material  *)
(* in another form included.                                               *)
(*                                                                         *)
(* A staging or a promotion is one critical section.  An ingestion reads   *)
(* the canonical rows in one and is answered in another, with any request  *)
(* served in between and a crash at any moment; module Mirror has the      *)
(* critical sections that lie in the second.                               *)
(***************************************************************************)
EXTENDS Answers

CONSTANTS
    Log,            \* the honest log: a function from its indices to entry ids
    Own,            \* the operator's requests
    Others          \* what strangers post

Requests == Own \cup Others

(* The bodies the routes take.                                             *)
ASSUME RequestAssumption ==
    \A q \in Requests :
        \/ q.kind = "stage" /\ q.entry \in Entry /\ q.flaws \subseteq Range(StageChecks)
        \/ q.kind = "promote" /\ q.claim \in Claims
        \/ q.kind = "ingest" /\ q.fault \in SignatureFaults \cup {Accepted}

(* The checkpoints the operator publishes.                                 *)
Issued == {q.cp : q \in {o \in Own : o.kind = "ingest"}}

(* The log has no entry twice, and nobody signs a checkpoint in its name   *)
(* but its operator, over its entries: every other one fails a check of    *)
(* the signature.                                                          *)
ASSUME HonestLogAssumption ==
    /\ IsFiniteSet(DOMAIN Log) /\ Log \in [0 .. Cardinality(DOMAIN Log) - 1 -> Entry]
    /\ IsInjective(Log)
    /\ \A q \in {o \in Requests : o.kind = "ingest"} :
        /\ [cp |-> q.cp, batch |-> q.batch, named |-> q.named] \in Submission
        /\ q.cp.genuine <=> q.fault = Accepted
        /\ q.cp.genuine => q.cp \in Issued /\ IsRestriction(q.cp.root, Log)

VARIABLE judging    \* the ingestion in flight of each: [request, seen]

vars == <<staged, entries, checkpoints, rotations, admitted, judging>>

Lanes == {"own", "others"}
OfLane(lane) == IF lane = "own" THEN Own ELSE Others
Nothing == [request |-> {}, seen |-> EmptyTable]

Init == AtomicInit /\ judging = [lane \in Lanes |-> Nothing]

(* stage_handler.                                                          *)
StageRequest(q) ==
    /\ q.kind = "stage" /\ StageAnswer(q) = Created
    /\ AtomicStage(q.entry) /\ UNCHANGED judging

(* promote_handler, with the checkpoint it picks.                          *)
PromoteRequest(q) ==
    /\ q.kind = "promote" /\ PromoteAnswer(q) = Created
    /\ entries' = WithBatch(entries, <<q.claim>>)
    /\ UNCHANGED <<staged, checkpoints, rotations, admitted, judging>>

(* checkpoint_ingest_handler up to the rows build_visible_prefix reads.    *)
BeginIngest(lane, q) ==
    /\ q.kind = "ingest" /\ judging[lane] = Nothing
    /\ judging' = [judging EXCEPT ![lane] =
            [request |-> {q}, seen |-> Below(entries, q.cp.size)]]
    /\ UNCHANGED atomicVars

(* ... and from there to its answer: refused, or all of it committed.      *)
RefuseIngest(lane, q) ==
    /\ q \in judging[lane].request
    /\ judging' = [judging EXCEPT ![lane] = Nothing]
    /\ IngestAnswer(q, judging[lane].seen) # Created
    /\ UNCHANGED atomicVars

AcceptIngest(lane, q) ==
    /\ q \in judging[lane].request
    /\ judging' = [judging EXCEPT ![lane] = Nothing]
    /\ IngestAnswer(q, judging[lane].seen) = Created
    /\ entries' = WithBatch(entries, q.batch)
    /\ \E a \in {Verdict(q, VisiblePrefix(q.cp, q.batch, judging[lane].seen))} :
        /\ checkpoints' = checkpoints \cup NewMembers(a)
        /\ rotations' = rotations \cup NewAnchors(rotations, a)
        /\ admitted' = admitted \cup {a}
    /\ UNCHANGED staged

(* The process dies, and the requests in flight with it.                   *)
Crash ==
    /\ judging' = [lane \in Lanes |-> Nothing]
    /\ UNCHANGED atomicVars

Serve(q) == StageRequest(q) \/ PromoteRequest(q)
Finish(lane, q) == RefuseIngest(lane, q) \/ AcceptIngest(lane, q)

Next ==
    \/ \E q \in Requests : Serve(q)
    \/ \E lane \in Lanes : \E q \in OfLane(lane) : BeginIngest(lane, q) \/ Finish(lane, q)
    \/ Crash

(* The operator posts each of its requests again and again, and not every  *)
(* attempt at it is lost or cut short by a crash.  Nothing is assumed of   *)
(* the strangers.  (The last conjunct is SF_vars(Finish("own", q)): what   *)
(* is in flight can be finished.)                                          *)
Fairness ==
    \A q \in Own :
        /\ WF_vars(Serve(q))
        /\ q.kind = "ingest" =>
            /\ SF_vars(BeginIngest("own", q))
            /\ []<>(q \in judging["own"].request) => []<><<Finish("own", q)>>_vars

Spec == Init /\ [][Next]_vars /\ Fairness

-----------------------------------------------------------------------------
(* Properties.                                                             *)

(* What a request would be answered now.                                   *)
Answer(q) ==
    CASE q.kind = "stage" -> StageAnswer(q)
      [] q.kind = "promote" -> PromoteAnswer(q)
      [] q.kind = "ingest" -> IngestAnswer(q, Below(entries, q.cp.size))
Succeeds(q) == Answer(q).error = Accepted

(* A request in order: bytes without a flaw; a claim of the log's under a  *)
(* size that covers it; a signed checkpoint, alone in its slot, over       *)
(* claims that open it, admissible when the whole log it commits is seen.  *)
Proper(q) ==
    /\ q.kind = "stage" => q.flaws = {}
    /\ q.kind = "promote" =>
        /\ q.claim.index \in DOMAIN Log /\ Log[q.claim.index] = q.claim.entry
        /\ q.claim.index < q.size
    /\ q.kind = "ingest" =>
        /\ q.cp.genuine /\ q.cp.size <= MaxTreeSize
        /\ \A cp \in Issued : SameSlot(cp, q.cp) => cp = q.cp
        /\ \A x \in DOMAIN q.batch : Opens(q.cp, q.batch[x])
        /\ Admissible(q.cp.root, q.cp, q.named)
Orderly == {q \in Own : Proper(q)}

(* What such a request waits for: the bytes it names, a checkpoint of the  *)
(* size it names, and the rows before each claim, and in the end all the   *)
(* rows the checkpoint commits, held or claimed.                           *)
Arrived(q) ==
    /\ q.kind = "promote" =>
        /\ q.claim.entry \in staged
        /\ OfSize(checkpoints, q.size) # {}
        /\ HoldsPrefix(entries, q.claim.index)
    /\ q.kind = "ingest" =>
        /\ \A x \in DOMAIN q.batch :
            /\ q.batch[x].entry \in staged
            /\ HoldsPrefix(After(q.cp, q.batch, x - 1), q.batch[x].index)
        /\ HoldsPrefix(WithBatch(entries, q.batch), q.cp.size)

(* A request of the operator's that is in order succeeds once what it      *)
(* waits for has arrived, and before, or judged by rows read before, it is *)
(* refused for what is missing and for nothing else: no stranger's request *)
(* occupies an index, an entry id or a slot that the operator's need.      *)
NotYet ==
    { "NotStaged", "UnknownCheckpoint", "OutOfOrderIndex", "GovernanceChainUnresolvable",
      "NotRotationMaterial", "UnknownSigningKey", "KeyNotYetActive" }
OnlyTheMissingRefuses ==
    \A q \in Orderly :
        /\ Arrived(q) => Succeeds(q)
        /\ Answer(q).error \in NotYet \cup {Accepted}
        /\ q \in judging["own"].request =>
            IngestAnswer(q, judging["own"].seen).error \in NotYet \cup {Accepted}

(* No request about an honest log is answered a 500, for nobody can sign a *)
(* root that the rows contradict.                                          *)
ClientErrors == {error \in Errors : Status(error) # 500}
NoServerFault == \A q \in Others : Answer(q).error \in ClientErrors \cup {Accepted}

(* What the operator's request was granted, it is granted again: an answer *)
(* that got lost is repeated, whatever was served in between.              *)
WasGranted(q) ==
    CASE q.kind = "stage" -> q.entry \in staged
      [] q.kind = "promote" ->
            AlreadyPresent(entries, q.claim) /\ OfSize(checkpoints, q.size) # {}
      [] q.kind = "ingest" ->
            \E a \in admitted :
                a.cp = q.cp /\ a.batch = q.batch /\ q.named \in a.anchors \cup {NotNamed}
GrantedAgain == \A q \in Orderly : WasGranted(q) => Succeeds(q)

(* Each version of the log's governance lists its log keys, each once.     *)
KeysOnce ==
    \A v \in Range(Versions(Log)) :
        /\ v.log \in Seq(Range(v.log))
        /\ \A i, j \in DOMAIN v.log : v.log[i].key = v.log[j].key => i = j

(* The store as the operator sees it: the rows; the sizes at which a       *)
(* usable member below the equivocation floor can prove them; the          *)
(* rotations of its log for which it can prove the handover.               *)
BelowTheFloor(cp) == cp.size < Floor(checkpoints \cup {r.cp : r \in rotations})
ProvableSizes == {cp.size : cp \in {c \in checkpoints : Recomputes(entries, c) /\ BelowTheFloor(c)}}
ProvableHandovers ==
    {r.manifest : r \in {q \in rotations : Recomputes(entries, q.cp) /\ BelowTheFloor(q.cp)}}
PublishedSizes == {cp.size : cp \in Issued}
LogHandovers == {r.index : r \in Rotations(Log)}
Mirrored ==
    INSTANCE Replica WITH
        Original <- Log, Sizes <- PublishedSizes, Handovers <- LogHandovers,
        copy <- entries,
        provable <- ProvableSizes,
        anchored <- ProvableHandovers
ImplementsReplica == Mirrored!Spec

(* A request is one whole submission, or nothing.                          *)
ImplementsAtomicMirror == AtomicSpec
=============================================================================
