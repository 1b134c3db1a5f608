------------------------------ MODULE Answers -------------------------------
(***************************************************************************)
(* What the mirror answers: the errors of error.rs by their names, the     *)
(* status each is reported with, and for every request of the write routes *)
(* the first check that refuses it, in the order the code makes them.      *)
(***************************************************************************)
EXTENDS AtomicMirror, Series

(* The errors, in the groups error.rs lists them in.                       *)
IngestErrors ==
    { "EntryIdMismatch", "MalformedEnvelope", "NotCanonical", "WrongAdaptorMetadata",
      "OutOfOrderIndex", "IndexConflict", "EntryIdAtDifferentIndex" }
PromotionErrors == { "NotStaged", "InclusionProofInvalid" }
RetrievalErrors == { "StoredEntryCorrupt" }
RangeErrors ==
    { "InvalidRange", "ConsistencyOrder", "UnknownCheckpoint", "CheckpointNotSeriesUsable",
      "SeriesEquivocated", "IncompleteEntries", "TreeMaterialMissing", "TreeMaterialCorrupt",
      "CheckpointRootMismatch" }
(* "StatementRefused" is either error a walk can end with: the             *)
(* UnsupportedStatementVersion of an authentic statement, or the Ahl of    *)
(* unreadable signatures, both reported with the same status.              *)
CheckpointErrors ==
    { "TreeSizeUnrepresentable", "BadCheckpointTime", "WrongLogId", "UnknownSigningKey",
      "KeyNotYetActive", "GovernanceChainUnresolvable", "StatementRefused" }
ManifestErrors ==
    { "BadDuration", "ProhibitedDurationComponent", "DurationFractionTooLong",
      "NonPositiveCadence", "BadCadenceEpoch" }
SeriesErrors ==
    { "NotRotationMaterial", "UnknownRotationProof", "SignatureInvalid", "RawBlobMismatch",
      "SeriesMemberConflict", "InconsistentWithNeighbour" }
ConfigurationErrors == { "NoGenesisProducerKeys", "ConfigKeyIdMismatch" }
InfrastructureErrors == { "IndexOverflow", "Json", "Ahl", "Atl", "Store", "StoreInit" }

Errors ==
    IngestErrors \cup PromotionErrors \cup RetrievalErrors \cup RangeErrors
        \cup CheckpointErrors \cup ManifestErrors \cup SeriesErrors
        \cup ConfigurationErrors \cup InfrastructureErrors

(* ApiError: the status of an error.                                       *)
Status(error) ==
    CASE error \in {"UnknownCheckpoint", "UnknownRotationProof", "NotStaged"} -> 404
      [] error \in {"IncompleteEntries", "CheckpointNotSeriesUsable", "SeriesEquivocated"} -> 409
      [] error \in {"StoredEntryCorrupt", "TreeMaterialMissing", "TreeMaterialCorrupt",
                    "CheckpointRootMismatch"} \cup (InfrastructureErrors \ {"Json", "Ahl"}) -> 500
      [] OTHER -> 400

(* The one member of a set.  (TLC evaluates a member of a set once.)       *)
The(S) == CHOOSE v \in S : TRUE

Accepted == "accepted"
Refused(error) == [status |-> Status(error), error |-> error]
Created == [status |-> 201, error |-> Accepted]
Unchanged == [status |-> 200, error |-> Accepted]

-----------------------------------------------------------------------------
(* stage_handler.  A posting is the entry id its bytes really have and the *)
(* set of checks it fails; the first of them is reported.                  *)
StageChecks ==
    <<"EntryIdMismatch", "Json", "MalformedEnvelope", "NotCanonical", "WrongAdaptorMetadata">>
StageAnswer(q) ==
    IF q.flaws # {} THEN Refused(StageChecks[Min({i \in DOMAIN StageChecks : StageChecks[i] \in q.flaws})])
    ELSE IF q.entry \in staged THEN Unchanged ELSE Created

-----------------------------------------------------------------------------
(* Promotion.  A batch is promoted claim by claim, and the first refused   *)
(* one refuses the batch.                                                  *)

(* promote_entry_in and promote_entry_raw: why a claim is refused over     *)
(* these rows, if it is.  (A proof for an index the tree has not is left   *)
(* out: what the libraries answer to it is not in this repository.)        *)
(* Mutants: an entry at its own index is in the way; the bytes need not be *)
(* staged.                                                                 *)
ConflictFirst(table, cp, claim) ==
    IF claim.entry \notin staged THEN "NotStaged"
    ELSE IF ~Opens(cp, claim) THEN "InclusionProofInvalid"
    ELSE IF claim.index \in DOMAIN table THEN "IndexConflict"
    ELSE IF claim.entry \in Range(table) THEN "EntryIdAtDifferentIndex"
    ELSE IF claim.index # NextIndex(table) THEN "OutOfOrderIndex"
    ELSE Accepted
ProofAlone(table, cp, claim) ==
    IF ~Opens(cp, claim) THEN "InclusionProofInvalid"
    ELSE IF AlreadyPresent(table, claim) THEN Accepted
    ELSE IF claim.index \in DOMAIN table THEN "IndexConflict"
    ELSE IF claim.entry \in Range(table) THEN "EntryIdAtDifferentIndex"
    ELSE IF claim.index # NextIndex(table) THEN "OutOfOrderIndex"
    ELSE Accepted
ClaimVerdict(table, cp, claim) ==
    IF claim.entry \notin staged THEN "NotStaged"
    ELSE IF ~Opens(cp, claim) THEN "InclusionProofInvalid"
    ELSE IF AlreadyPresent(table, claim) THEN Accepted
    ELSE IF claim.index \in DOMAIN table THEN "IndexConflict"
    ELSE IF claim.entry \in Range(table) THEN "EntryIdAtDifferentIndex"
    ELSE IF claim.index # NextIndex(table) THEN "OutOfOrderIndex"
    ELSE Accepted

(* The rows after the first n claims of a batch, were they all accepted.   *)
After(cp, batch, n) == WithBatch(entries, SubSeq(batch, 1, n))
ClaimAt(cp, batch, n) == ClaimVerdict(After(cp, batch, n - 1), cp, batch[n])
BatchVerdict(cp, batch) ==
    LET refused == {n \in DOMAIN batch : ClaimAt(cp, batch, n) # Accepted}
    IN  IF refused = {} THEN Accepted ELSE ClaimAt(cp, batch, Min(refused))

(* promote_handler: the latest checkpoint of the size it names.            *)
PromoteAnswer(q) ==
    LET found == OfSize(checkpoints, q.size)
        verdict == ClaimVerdict(entries, Latest(found), q.claim)
    IN  IF found = {} THEN Refused("UnknownCheckpoint")
        ELSE IF verdict # Accepted THEN Refused(verdict)
        ELSE IF AlreadyPresent(entries, q.claim) THEN Unchanged ELSE Created

-----------------------------------------------------------------------------
(* Checkpoint ingestion.                                                   *)

(* build_visible_prefix: the first claim of the overlay that refuses it.   *)
OverlayVerdict(cp, batch, len) ==
    LET bad == {x \in Relevant(cp, batch, len) :
                    batch[x].entry \notin staged \/ ~Opens(cp, batch[x])}
    IN  IF bad = {} THEN Accepted
        ELSE IF batch[Min(bad)].entry \notin staged THEN "NotStaged" ELSE "InclusionProofInvalid"

(* verify_checkpoint_signature: the identity of the log, the blob, the raw *)
(* bytes and the signature; q.fault is the first of a posting that fails   *)
(* (Accepted for a genuine one).                                           *)
SignatureFaults ==
    { "WrongLogId", "Ahl", "BadCheckpointTime", "RawBlobMismatch", "SignatureInvalid" }

(* resolve_log_key, then verify_checkpoint_signature.                      *)
KeyVerdict(version, cp, fault) ==
    IF ListMatches(version.log, cp.key) = {} THEN "UnknownSigningKey"
    ELSE IF ~LogKeyActive(version, cp.key, cp.size) THEN "KeyNotYetActive"
    ELSE fault

(* The transaction of an admission.                                        *)
TransactionVerdict(q, a) ==
    LET batch == BatchVerdict(q.cp, q.batch) IN
    IF batch # Accepted THEN batch
    ELSE IF RootClash(WithBatch(entries, q.batch), q.cp) THEN "CheckpointRootMismatch"
    ELSE IF MemberClash(checkpoints, a) \/ AnchorClash(rotations, a) THEN "SeriesMemberConflict"
    ELSE Accepted

(* What the log a request sees makes of its checkpoint, as the admission   *)
(* `a` under the version in force.                                         *)
(* Mutant: rotation material is held to the ordinary rule.                 *)
OrdinaryRuleOnly(q, a, version) ==
    IF q.named # NotNamed /\ q.named \notin a.anchors THEN "NotRotationMaterial"
    ELSE IF ~a.member THEN KeyVerdict(version, q.cp, q.fault)
    ELSE TransactionVerdict(q, a)
Judged(q, a, version) ==
    IF q.named # NotNamed /\ q.named \notin a.anchors THEN "NotRotationMaterial"
    ELSE IF ~a.member /\ a.anchors = {} THEN KeyVerdict(version, q.cp, q.fault)
    ELSE TransactionVerdict(q, a)

Governed(q, log, walk) ==
    IF walk.aborted THEN "StatementRefused"
    ELSE IF ~Established(walk) THEN "GovernanceChainUnresolvable"
    ELSE The({Judged(q, a, Governing(walk)) : a \in {Verdict(q, log)}})

(* ingest_checkpoint, over the canonical rows `seen` it read.              *)
(* Mutant: the root is compared before the signature is judged.            *)
RootFirst(q, seen) ==
    IF q.cp.size > MaxTreeSize THEN "TreeSizeUnrepresentable"
    ELSE IF RootClash(entries, q.cp) THEN "CheckpointRootMismatch"
    ELSE IF OverlayVerdict(q.cp, q.batch, Cardinality(DOMAIN seen)) # Accepted
    THEN OverlayVerdict(q.cp, q.batch, Cardinality(DOMAIN seen))
    ELSE The(UNION {{Governed(q, log, walk) : walk \in {Walk(log)}} :
                        log \in {VisiblePrefix(q.cp, q.batch, seen)}})
IngestVerdict(q, seen) ==
    LET overlay == OverlayVerdict(q.cp, q.batch, Cardinality(DOMAIN seen)) IN
    IF q.cp.size > MaxTreeSize THEN "TreeSizeUnrepresentable"
    ELSE IF overlay # Accepted THEN overlay
    ELSE The(UNION {{Governed(q, log, walk) : walk \in {Walk(log)}} :
                        log \in {VisiblePrefix(q.cp, q.batch, seen)}})
IngestAnswer(q, seen) ==
    The({IF v = Accepted THEN Created ELSE Refused(v) : v \in {IngestVerdict(q, seen)}})

=============================================================================
