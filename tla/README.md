# A verification of ahl-mirror

`ahl-mirror` keeps an independent copy of a transparency log: it stages entry
bytes anyone posts, makes an entry canonical only under a checkpoint it has
itself authenticated, resolves the checkpoint-signing keys from the governance
statements among those same entries, and answers questions about the series of
checkpoints (enumerations, consistency proofs, rotation proofs, and the
incorporation-time bound ITUB). This directory holds TLA+ modules translated
from its source, the TLC configurations that check them on small instances, and
theorems about them proved with TLAPS.

Paths below are those of the repository (`src/checkpoint.rs` and so on).

## The system

| part | source | state it keeps | operations | what makes it correct |
|---|---|---|---|---|
| Store | `store.rs` | SQLite tables `staged_entries`, `entries`, `checkpoints`, `rotation_checkpoints`; derived `leaf_hash`, `subtree_roots`; one `Mutex<Connection>` | `with_conn`, `with_transaction`, stage, promote, insert, range reads, Merkle reads; `migrate` on open | append-only and contiguous entries, no id at two indices, one checkpoint per slot, all-or-nothing transactions, derived material equal to what the leaves define |
| Governance walk | `manifest.rs` | none: a function of an entry prefix | `resolve`, `versions`, `resolve_log_key`, `rotates` | only statements signed by a key in force count, in chain order; nobody else's bytes establish anything; a prefix's versions stay |
| Staging and promotion | `ingest.rs` | none | `stage_entry`, `promote_entry(_in)`, `verify_inclusion_for` | nothing canonical without an inclusion proof under an authenticated checkpoint |
| Checkpoint ingestion | `checkpoint.rs` | none beyond the store | `build_visible_prefix`, `rotation_anchors_for`, `ingest_checkpoint` | the verdict is the one the log's own governance gives; batch, root check and records are one step; rotation material and series apart |
| Series view, ITUB | `checkpoint.rs` | none: recomputed per call | `series_view`, `compute_gap_free_frontier`, `itub` | nothing grounded at or past a divergence; usable means recomputed; a bound is only tightened or withdrawn |
| Range proofs | `range.rs` | none | `build_range_response`, `verify_range_response` | exactly the requested leaves, provable against the checkpoint |
| HTTP routes | `http.rs`, `error.rs`, `retrieval.rs` | `AppState` (store, config) | one handler per route, each on a blocking thread | consistent answers though a handler visits the store several times; the right refusal for the right reason; a granted request granted again |
| Durations and times | `duration.rs`, `checkpoint.rs` | none | `parse_iso8601_duration_nanos`, `render_checkpoint_time`, `parse_checkpoint_time` | exactly the grammar; one text for one time, ordered alike |
| Configuration, metadata, binary, fuzz targets | the rest of `src/` | none | loading, hashing, I/O | – |

**Interaction.** Every handler runs on its own blocking thread
(`http.rs`, `blocking`). All state is behind the store's one mutex, which each
store method takes for its own duration; only `with_transaction` holds it across
several steps. A request is therefore a few critical sections with unlocked gaps,
and any other request may run in a gap. There are no callbacks, no background
tasks, no messages between mirrors and no caches outside the database.

**What is hard.**

- *Judged outside the lock.* `ingest_checkpoint` reads the visible prefix and
  decides admission before the transaction begins.
- *A prefix that is not the log.* Governance is resolved from what is held,
  which may end before the version that matters, and may be extended by the
  submission's own unauthenticated batch.
- *Two tables, one log.* Rotation anchors are held apart from the series, and
  both are evidence of equivocation.
- *A view of several moments.* `series_view` locks once per member; the range,
  consistency and rotation routes then go back to the store.
- *Order of arrival.* Checkpoints come late, out of order, repeated, behind and
  ahead of the entries they commit, from a log that may fork.
- *Requests repeated and out of order.* A submitter learns only from the answer
  what is missing, posts again, and shares every index, id and slot with
  strangers.
- *Times that are texts.* They are keys and sort orders as text, and instants
  to the cadence.
- *Partial failure and crashes* inside a batch and inside the cache rebuild.

`PROJECT.json` lists every such hazard with its line and the properties aimed
at it.

## Modules

```
Governance ── GovernanceLog ─┬─ MCGovernance
    │                        └─ GovernanceLog_proofs
Admission ─┬─ AtomicMirror ─┬─ Mirror ─┬─ MCMirror
           │                │          └─ Mirror_proofs
           └─ Series ───────┴─ Answers ─┬─ Reads ─┬─ MCReads
                                        │         └─ Reads_proofs
                                        └─ Feed ──┬─ MCFeed
                                             ┊    └─ Feed_proofs
                                             ┊ implements
                                           Replica

Governance_proofs, on Governance and Series, extended by GovernanceLog_proofs,
Mirror_proofs, Reads_proofs and Feed_proofs

Order_proofs, instantiated by Governance_proofs, TreeStore_proofs and Texts_proofs once
for each recursion they reason about

Tree ── TreeProofs ── TreeStore ─┬─ MCTreeStore
                                 └─ TreeStore_proofs
Duration ── CheckpointTime ─┬─ MCTexts
                            └─ Texts_proofs
```

**Governance** (pure). A log is a function from `0 .. n-1` to entry ids and
`Statement` says what each entry declares. `Walk` folds `WalkStep` over the
prefix, as `manifest.rs` `walk` does: `ApplyGenesis`, `ApplySuccessor` and
`ApplyKey` are `try_apply_manifest` (both arms) and `try_apply_key`, in the
code's order: identity, signature under the keys in force, revision, and only
then content. `verify_envelope` has three outcomes: the signer's key is in force
(`Authentic`), it is not and the statement is skipped, or a signature entry cannot be
read (`~Readable`) and its error ends the walk, as an authentic statement of another
revision does. A key id stands for its key (`ResolvedKeyObject::resolve` ties
them); a list of key objects is searched for its first match, a map keeps the
last insertion, as in the code. Schema defects are one bit, `wellFormed`.

**GovernanceLog**. A log growing one entry at a time, and a second, loop-free
account of governance: a set of effective statements that *justifies itself*.
The walk is checked against it.

**Admission** (pure). What submitters post and how it is judged against given
tables: the overlay of `build_visible_prefix`, signature verification under a
version, `rotation_anchors_for`, the conflicts the inserts refuse, what is
recorded. A root stands for the leaf sequence it commits.

**AtomicMirror**. The abstract specification: staging, admitting a whole
submission and promoting one entry are single steps. It has no requests, locks,
transactions or crashes. The verdict is the one over the first rows of the
entries table, up to where it reached at some earlier moment, and the claims of
the submission: this is what reading before locking may see.

**Mirror**. The write side as it runs. `call[p]` is the request in slot `p`,
`tx` the open transaction with its copy of the entries table.

| action | code |
|---|---|
| `Stage` | `ingest::stage_entry` |
| `IngestRead` | `ingest_checkpoint` up to the rows read by `build_visible_prefix` |
| `IngestResolve` | the staged bytes of the overlay, `manifest::versions`, signature, anchors |
| `PromoteRead` | `promote_handler`'s `get_checkpoint` |
| `TxBegin`, `Rollback` | `Store::with_transaction` |
| `PromoteRepeated`, `PromoteNew`, `PromoteRefused` | one claim of the batch: `promote_entry_in`, `promote_entry_raw` |
| `RecordRefused`, `CommitIngest`, `CommitPromote` | root check, inserts, commit |
| `Crash` | the process dies at any point and the database rolls back |

While `tx.open`, no action of another request touches the store: the mutex.
`admitted` is history: every checkpoint answered 201, with the prefix it was
judged by and what was answered. No action reads it.

**Series** (pure). Usability, divergences and floor, the gap-free frontier with
its stops in the code's order of checks, ITUB. The frontier loop is stated as:
the members before the first interval with an obstacle.

**Answers** (pure). The errors of `error.rs` by name (the two an aborted walk ends
with, both answered 400, as one: `StatementRefused`), the status of each, and for
each write request the first check that refuses it, in the code's order:
`StageAnswer`, `PromoteAnswer`, `IngestAnswer`. A posting that fails checks of
its bytes carries the set of checks it fails; one that fails a check of its
signature carries the first that fails. `ClaimVerdict` is one claim over given
rows, `BatchVerdict` a batch in order, `Judged` a checkpoint under the version
in force.

**Feed**. The mirror fed by an honest log among strangers. `Own` are the
operator's requests, `Others` what anyone else posts, both finite and each
posted any number of times in any order. A staging or promotion is one critical
section; an ingestion reads its prefix in one (`BeginIngest`) and is answered in
another (`RefuseIngest`, `AcceptIngest`), so one of the operator's and one of a
stranger's may be judging at once, with other requests in between and `Crash` at
any moment. What lies inside the second section is Mirror's subject.

**Replica**. What the mirror promises that operator, in ten lines: a copy that
only grows along the log, more and more sizes and handovers provable, and in the
end all of them. `Feed!Mirrored` maps Feed to it: a size is provable when a
member of it recomputes and lies below the equivocation floor. Feed also
implements AtomicMirror (`ImplementsAtomicMirror`).

**Reads**. The read routes beside the writers of AtomicMirror: `Begin`, then the
critical sections of the route asked, up to `Answer` or `Refuse` with an error.
One reader is enough, for readers change nothing. `read.began` is history: the
floor and the standing of the sizes asked when the request began. The *standing*
of a size is what it has come to: unknown, authenticated, series-usable or
equivocated. The writers are the atomic ones: Mirror is shown to implement
them, and a transaction holds the mutex from begin to commit, so no reader ever
sees inside one.

**Order_proofs, Governance_proofs, GovernanceLog_proofs, Mirror_proofs,
Reads_proofs, Feed_proofs, TreeStore_proofs, Texts_proofs**. The proofs: lemmas
about the order of the naturals and recursion along it, about the walk, the series,
trees and what is opened from them as operators, and about the six machines; see
*Theorems*.

**Tree, TreeProofs** (pure). The stored tree material and what is opened from
it. A leaf's hash is `<<index>>` and a parent's the pair of its children's, so
trees of different shape differ. `CompletedRoots` is the climb of
`extend_subtree_cache`, `Open` is `with_tree_nodes` around the library's walk:
it takes each perfect subtree from the store and refuses when a complete one is
missing. `Upsert` is INSERT OR REPLACE, `Width` the leaves below a node of a level,
`Roots` the Merkle roots of each size at every offset. `BuildRange` and `VerifyRangeResponse` are `range.rs`. The algorithms of
`atl-core` and `ahl-core` are external, written from what RFC 6962, RFC 9162 and
`range.rs` say they walk.

**TreeStore**. The tree material over the life of a database. `leaf` and `roots`
are the column and the table; `phase` is where opening stands.

| action | code |
|---|---|
| `OpenStore` | `Store::open`, schema, `add_leaf_hash_column` |
| `SelectBatch`, `BackfillRow` | `backfill_leaf_hashes`: a select, then one committed UPDATE per row |
| `CheckCache` | `rebuild_subtree_cache_if_incomplete` |
| `DeleteRoots`, `InsertRoot` | `rebuild_subtree_cache`: the DELETE, then one committed INSERT per row |
| `Promote` | `promote_entry_raw` and `extend_subtree_cache` in their transaction |
| `LoseRow` | a row gone behind the store's back, as the tests of `store.rs` and `range.rs` do |
| `Crash` | the process dies between any two of these |

`Promote` is one step, which does not happen where a child it needs is missing.
That the error undoes the row already inserted is assumed here: it is the rollback
of `with_transaction`, modelled step by step in Mirror. `PromotionIsWhole` is thus
about which nodes a promotion completes, not about a torn one.

A database starts without tree material, as one written before it existed. No
two processes open one database. Levels stop at `MAX_SUBTREE_LEVEL` in the code,
which no index SQLite can hold reaches.

**Duration**. The parser of `duration.rs` on texts of letters and runs of
digits; a run counts by its value and its length. The word, the fraction and the
clock are scaled down together. The states are the well-formed texts and all
texts one inserted, changed or removed symbol away.

**CheckpointTime**. `checkpoint_time` as text: `RenderTime`,
`HasProfileTimeShape` and `ParseCheckpointTime` are the functions of
`checkpoint.rs`, over a calendar of small months. What the `time` library does
with a field out of its range is not in the repository, so `LibraryParse` may
refuse it or carry it over, and the property holds for both: the round trip
through `render_checkpoint_time` is what makes it so. It is the reason the other
modules may have one number for a time.

## Runs

All runs are exhaustive. Model values name entries: `g` genesis manifest, `r` a
log-key rotation, `w` a witness-key rotation, `d`, `d2` ordinary entries, `x` an
entry of a fork, `old` a governance statement of another revision, `bare` an outsider's
manifest and `bareKey` a key statement with signature entries that cannot be read.

| run | states | asks |
|---|---|---|
| `governance` | 108,385 | does the walk compute what the account says; do outsiders establish anything; is what was established kept |
| `mirror` | 161,524 | do two concurrent requests with crashes keep the tables sound and implement AtomicMirror, around a log-key rotation with a fork or around a witness-key rotation; is the anchor served independent of the order of posts |
| `reads` | 28,169 | is every answer, or the reason for refusing one, true of its size at some moment of the request; does one ever rest on a known divergence or on a root not held; are ranges, paths, rotations and retrieved entries the log's; does a size's standing only rise; are bounds only tightened; does every request end |
| `feed` | 19,448 | does a request of an honest operator succeed once what it waits for has arrived, and is it refused before only for what is missing, never for a stranger's doing; is a 500 ever answered; is what was granted granted again; does the mirror in the end hold and prove the whole log |
| `tree_store` | 1,989 | is the tree material ever wrong, is it complete once open, is every root, path and range opened from it right or refused, does opening a database end |
| `texts` | 588,602 | are exactly the durations of the grammar accepted, with their exact total; are exactly the rendered times accepted; do times sort as text as they do as instants |
| `mirror_superseded`, `mirror_stale`, `reads_torn`, `reads_old`, `duration_sign`, `governance_unreadable` | – | disagreements with the documents, below |

**Bounds.** Logs of at most five entries (`MaxLength`) reach genesis, a key
grant, its activation, a retirement, two competing successors and a third
version in one log. On the write side the submissions are a set of three to
eight, chosen so that every refusal and every pair of crossing admissions
occurs; each may be posted any number of times by either of two request slots.
Two slots suffice for a gap of one request to be filled by another; a third
would only repeat the second. Tree sizes reach `MaxTreeSize = 3`, and each run
set has a checkpoint beyond it or the whole range below it. Slots are symmetric
(`SYMMETRY Slots`) in the runs of Mirror, which ask for no liveness. On the read
side the requests are the routes over the sizes at which something happens.
`reads` tells two stories in one run, an honest log's and a fork's, and `mirror`
those of two rotations; `OneStory` keeps a state to one of them. In `mirror`, where
every property is of safety, that is no more than two runs in one. In `reads`, only
the writers' steps and the choice
of a request can leave a story: a reader's own steps change neither the store
nor the request, so the constraint cuts off no step the fairness asks for.

In `feed` the honest log is a genesis manifest, a rotation of the log key and an
entry; the operator has eight requests, all in order (`ProperAssumption`), and
the strangers eight, among them the same checkpoint with other claims, bytes of
their own at a contested index, a damaged staging and a forged fork. Times in it
are distinct, for a reason given under finding 2.

Trees reach thirteen entries: three levels of subtrees, 7, 8 and 9, and sizes of
one, two and three blocks; every window, every pair of sizes and every leaf of
each is opened. One row is lost between two openings, which reaches every node.

`MCGovernance` disables the deadlock check, for the log is full at `MaxLength`,
and so do the runs of `MCTexts`, whose texts are edited `MaxEdits` times.

**Fairness.** Mirror has none: its properties are safety, and that a transaction
ends is the shape of `with_transaction`, a closure run under a guard that is dropped
with it. `Reads!Fairness` assumes that a reader's next
critical section is eventually run. It runs on its own thread and every holder
gives the mutex up, and since `std::sync::Mutex` promises no turns this also
assumes that a waiting thread is not passed over for ever. `Feed!Fairness` is
the operator's persistence: it posts each of its requests again and again (there
is no retry in the mirror, so nothing less would do), and not every attempt is
lost or cut short by a crash. Nothing is assumed of strangers. `TreeStore!FairSpec`
assumes that the one thread opening the store runs on while the process lives;
it does not assume that the process lives.

**Mutants.** For each property `PROJECT.json` names a plausible bug (a dropped
bound, a skipped check, `INSERT OR REPLACE`, an error that keeps the rows of its
transaction) under which TLC finds the property violated. They are
operators next to the definitions they replace, marked `Mutant`, and used by
nothing.

## What disagrees with the documents

Each is one run with one property, read off the sentence it quotes.

1. **A superseded anchor's contradiction is not found** (`mirror_superseded`).
   `insert_rotation_checkpoint_raw` answers an anchor later than one held
   without storing it. If the mirror does not hold the entries of that size, a
   series member of the same size with another root then stands unopposed,
   though `store.rs` and the repository's README call this "a divergence like
   any other".
2. **A stale prefix decides** (`mirror_stale`). The visible prefix may be
   shorter than `tree_size`; a checkpoint under a key retired by a manifest not
   yet held enters the series, though `ingest_checkpoint` documents "refused
   rather than resolved from a stale or partial one". The refusal only covers a
   prefix without any genesis manifest. A consequence: such a member takes the
   slot of its size and time, and whatever the honest log later publishes in
   that slot is refused. `MCFeed` therefore gives the anchor of the rotation and
   the member of its size different times, as a log with one clock does.
3. **A torn view** (`reads_torn`). Entries promoted while `series_view` is
   between two members make it pass over the first and count the second, so
   `itub` answers with a checkpoint that is not the smallest usable one at any
   moment. The answer is sound, but looser.
4. **A plus sign is read** (`duration_sign`). The whole seconds go to
   `str::parse::<u64>`, which accepts `+5`; `PT+5S` is a duration to the mirror,
   though `duration.rs` documents `BadDuration` for whatever is not of the
   grammar. Days, hours, minutes and fractions are checked to be digits.
5. **The list can refuse** (`reads_old`). `resolve_governance_for` propagates
   every error but one, so a governance statement of another revision below a
   usable member fails `GET /v1/checkpoints`, which "never refuses".
6. **An unreadable signature ends the walk** (`governance_unreadable`).
   `verify_envelope` is called with `?`, so its error for a signature entry it cannot
   read (one without `key_id`, as in the test
   `a_signature_in_the_earlier_member_shape_fails_envelope_verification`) is an error
   of the whole walk, although no key in force signed the statement; and staging asks for no more than a non-empty `signatures` array. The
   comment on `try_apply_manifest` says "bytes anyone can append must not abort
   resolution", and the README that the one statement that aborts it is one whose
   signature verifies. From such an entry on, a prefix does not resolve: ingestions
   judged by it are refused and, as in 5, so is the list once a usable member lies
   past it. What such an entry cannot do is establish or change anything
   (`OutsidersEstablishNothing`). In `feed` an operator's requests are in order only
   if the log they commit resolves, so the log of an operator who took such an entry
   in is not one of those `OnlyTheMissingRefuses` speaks of.

## Theorems

### Governance

`Governance_proofs` is about the walk as an operator and `GovernanceLog_proofs`
proves what the run `governance` checks, for every log and whatever its entries
state: the walk computes what the account says and there is one account
(`WalkAlwaysMatchesAccount`), bytes no key in force signed establish nothing
(`OutsidersNeverEstablish`: the walk is what it would be with an unrelated entry in
their place, or it ends there with what came before), and a longer log takes nothing
back (`NothingIsTakenBack`).

*Argument.* `Walk` is a function defined by recursion over the prefix. That such
a function exists is itself proved, once for every recursion along the naturals:
`Order_proofs` has the value at n as a CONSTANT operator of those below, and shows
that the beginnings of such a function exist and agree (`RecursiveFunction`).
`IsRun` says of a function that it is the run over the first n entries; `RunExists`
gives one and `RunsAgree` leaves no second. Induction is over a set of naturals here
(`EveryNatural`), since no prover takes an induction rule over a formula. From there on the walk is
`WalkTo(log, n)`, one `WalkStep` per entry (`WalkToOneMore`); `StepCases` has
what a step can do, in five cases, `StepShape` that it adds one version at most,
and `StepExtends` and `WalkExtends` that it only extends, so that the rotations of
a prefix are rotations of the log (`RotationsKept`, `PrefixWalk`).

The account is not a recursion: a set of statements *justifies itself*. What
connects the two is the set `Effective` of the indices at which the walk acted,
and three inductions about it: the versions after n entries are the effective
manifests below n, in order (`AlwaysVersionsTracked`); the producer keys are those
the last effective statement about each left in force (`AlwaysKeysTracked`); the
walk has aborted when a statement it examined had unreadable signatures or was an
authentic one of another revision, and nothing is effective after
(`AlwaysAbortTracked`). They were checked by TLC on all logs of `governance` before
they were proved. `EffectiveJustified` concludes that
`Effective` is an account, and `OneAccount` that any other agrees with it: at the
least index where two differ, both saw the same statements before it, and an
account decides on an index by what lies before (`AccountIsLocal`).

### The write side

`Mirror_proofs` proves, for every log, every set of submissions and any number of
concurrent requests, what `mirror` checks on its own,
except that runs exercise the guards and theorems only use them.

The assumptions are those of the modules: `Genesis \in Entry`, `NoEntry` is not
an entry and `NotNamed` not an index, `MaxTreeSize` is a natural number, and
`SubmissionAssumption`: a submission has a checkpoint whose root is a function
on `0 .. size - 1`, and a finite batch of claims. Of
`Statement` only `ProducersAssumption` is assumed, that a manifest's producer keys
are a list: the theorems hold whatever governance the walk computes.

*Argument.* `TypeOK` is inductive by itself (`TypeCorrect`); its content is that
`entries`, the transaction's copy and every prefix a request holds are functions
on an interval from 0. The lemmas about intervals (`NextIndexIsLength`,
`ExtendIsLog`, `BelowIsRoot`, `VisiblePrefixIsLog`) carry it.

The table invariants are not inductive: a commit publishes the transaction's
copy and the request's verdict, so both must be sound before. `InFlightSound`
says so: `TxSound` (the copy extends the table by claims its checkpoint proves)
and `CallSound` for each request (what it read is still the first rows of the
table; what it resolved is the verdict over them; the member it picked is still
there). Others' steps keep it because tables only grow (`TablesGrow`,
`CallSoundMonotone`). `RecordsAnswered` ties the checkpoint tables to the
admissions, for a standalone promotion takes its evidence from a member. The
inductive invariant `IInv` is the conjunction of these with the table
invariants, one lemma per conjunct; `Inductive` is `Spec => []IInv`, the
properties follow, and so does the action property. `HonestLogMirrored` is
a consequence: two entries at one index would need two disagreeing admissions.

`Refinement`: under the identity mapping every step of
Mirror is a step of AtomicMirror or changes none of its variables, in states
satisfying `IInv`. The two commits are the only visible steps besides staging;
their atomic guards are exactly `TxSound` and `CallSound` at commit.

### The read side

`Reads_proofs` proves, for every set of submissions and requests and whatever
the submitters post between the critical sections of a request, the properties
of the run `reads` except the liveness of requests. The run exercises the routes,
the theorems hold for every log and size. To the assumptions above comes
`AskAssumption` (what is asked is one of the routes, with numbers for its sizes
and its index).

*Argument.* What a request answers is compared with what the store held when it
*began* and holds when it is answered, so an invariant of the store alone says
nothing of a request: between its sections the store has moved. The inductive
invariant is `IInv == StoreSound /\ RequestSound`.

- `StoreSound`: the tables hold what was published and admitted, and every
  entry is a leaf of an admission. `StoreStep` keeps it and shows that tables
  only grow; `StoreRises`, that growth takes no standing back and lifts no floor.
- `RequestSound` says, step by step of the route, what the request collected and
  that it still holds. `ScanSound` is the loop of `series_view`: the members
  scanned recomputed and come before those left, the members and anchors read
  show a floor no higher than when the request began, and no member then usable
  has been lost. `ViewSound` is the view it ends in. `Fits` and `GoodPick` say of
  the checkpoints picked that they lie below the floor of the beginning, were
  published and recompute.
- Others' steps keep all of it (`SubmissionsDoNotDisturb`): whatever recomputed
  goes on recomputing, since no entry is rewritten, and the reader compares with
  the past. One lemma per step of a route does the rest.

Where the invariant is needed is plain from `reads_torn`: a view can be one the
store never had, so "the view is that of some moment" is not available, and the
proof goes through what is left of it, bounds from both sides.

`Governance_proofs` has what that takes of the series: a divergence found stays found, so the floor
only sinks (`FloorOnlySinks`); a member recomputes for ever once it does
(`RecomputesGrows`), and is usable exactly then (`UsableDecides`); the frontier
lies below the floor, because every usable member ends an interval and one at
the floor would be an obstacle (`IntervalsCover`, `FrontierBelowFloor`); so does
every bound (`BoundBelowFloor`). For `BoundsOnlyTighten`, a bound once answered
stays usable: either the new frontier reaches it, and the new bound comes no
later, or the new frontier, and with it the new bound, lies below it, and is no
later where times follow sizes.

`ServedRotationsAreGenuine` is the one of them about governance. An anchor is
recorded for a rotation found in the prefix its submission was judged by, which
may end before the anchor's own size, and is served against its whole log. `RInv`
keeps that prefix: every anchor held was judged by rows that are still held
(`VisibleIsHeld`: once the batch is promoted, canonical rows and claims together
are the first rows of the table), and a request under way carries an anchor of the
manifest asked. `PrefixWalk` does the rest: what a prefix rotates, the log does.

### The honest log

`Feed_proofs` proves for any honest log, any finite or infinite set of requests
of its operator and of strangers, and any governance: the rows held are a
beginning of the log in every state (`CopyIsABeginning`); no request is answered
a 500 (`NeverAServerFault`, of the operator's requests as well as the
strangers'); and the requests as they are answered, check by check, implement
AtomicMirror (`AnswersImplementTheAtomicMirror`). The assumptions are
`HonestLogAssumption`, which is what makes a log honest (whatever verifies under
its key its operator issued, over its entries), and
`RequestAssumption`, the bodies the routes take and the errors
`verify_checkpoint_signature` can end with.

*Argument.* A claim that opens a genuine checkpoint names an entry of the log at
its own index (`GenuineOpens`), so whatever is promoted is of the log, and only
gaps have to be excluded: `ClaimLeavesNoGap` for one claim, `BatchIsCopied` for
a batch, by its first claim that would leave one (`LeastNatural` stands in for
induction). The invariant adds that every member held is genuine, for a
standalone promotion is proved against one, and that the rows an ingestion has
read are still the first rows held (`JudgingSound`), which is where AtomicMirror
takes its verdict from. `AcceptedIngestion` and `IngestionErrors` unfold the
order of the checks: the root comparison, answered 500, is only reached when
the ordinary rule or the exception has found the signature genuine, and then
the rows agree with the root (`GenuineRootAgrees`).

`MirrorGrowsAsAReplica` is the refinement of Replica but for its last conjunct,
that it is complete in the end. `RecordsBacked` adds that every checkpoint and
anchor recorded was issued by the operator and that every rotation anchored is
one of its log, again by `VisibleIsHeld` and `PrefixWalk`; then nothing diverges
(`NoDivergence`), the floor stays beyond every size, and what recomputed goes on
recomputing as the rows grow.

*What the operator asks.* `StrangersAreNeverInTheWay` and `AGrantIsRepeated` are
about requests in order (`Proper`): unflawed bytes, a claim of the log's, a
checkpoint alone in its slot whose claims open it and which is admissible by the
whole log it commits. These are conditions on the request and the log, not on
the state, and every request of the run meets them. Such a request succeeds as
soon as what it waits for is there (`Arrived`), and is refused before for an error
of `NotYet` only, by the rows held as by the rows an ingestion in flight has read.
Over rows of the log a claim of the log's can miss its bytes or the rows before it
and nothing else (`ClaimInOrder`); the log an ingestion sees is a beginning of the
one it commits, and all of it once the rest is in the batch (`SeesTheLog`); nothing
in it ends the walk (`NothingEndsTheWalk`); and a slot holds only what the operator
issued (`SlotIsFree`, from `RecordsBacked`).

For what was granted to be granted again, the invariant `GrantsKept` adds that the
bytes of every row are staged and that the rows an admission was judged by and
promoted are held. The rows have grown since, so the verdict must survive a longer
log: `StillCovered` follows the versions from the one that had the checkpoint's
key to the first that has not, which is a rotation the checkpoint anchors. That
step has a hypothesis, `KeysOnce`: no version of the log's governance lists a
log key twice. A version is searched for the *first* key object of an id
(`resolve_log_key`) but compared with its predecessor as a *set* (`rotates`), so
one that reorders two objects of one key could take a key out of force without
being a rotation. The code does not refuse such a list.

### The tree material

`TreeStore_proofs` proves for logs of any length, batches of any size and any
number of deaths, openings and promotions, that no row is ever wrong
(`RowsAreAlwaysTheLogs`), that a store which came up has every leaf hash and,
unless it lost a row since, every complete subtree (`OpensComplete`), and that an
entry becomes canonical only with every subtree it completes
(`PromotionsAreWhole`). It proves the same of what is served from the material: every
root and every inclusion and consistency path leads a verifier to the roots it is
served under, at a read for each one bit of the size, and none is refused unless a row
was lost (`ProofsAreRightOrRefused`); so with ranges, over any window
(`RangesAreRightOrRefused`); and a response that lost, gained, exchanged or changed an
entry or a node on its way, or was passed off as another window, verifies only if it
still is its window of the log (`OnlyWindowsVerify`). Nothing is assumed but `TreeStoreAssumption`: `MaxEntries`
is a natural number, `BackfillBatch` a positive one.

*Argument.* The model's functions over levels and sizes are defined by recursion,
and that each exists is `RecursiveFunction` of its own instance of `Order_proofs`.
After that `Width` doubles, and the root of a node is the pair of the roots below
it (`RootOfANode`), which is all the machine needs of them.

The rows are not inductive by themselves: what the rebuild inserts is computed from
hashes it holds in memory, and what a promotion inserts from rows it reads back.
`TreeInv` adds `PhaseShape` (no leaf hash is missing once the backfill is over: a
batch is only empty when nothing is missing) and `FoldSound` (`current` has the
roots of the whole level below, `next` those of the beginning of this one, and the
table has the levels below and that beginning, nothing else). It ends right because
each level has half as many complete nodes as the one below and a level with one of
them is the last (`HalfAsMany`, `NothingAbove`). That the open may *count* rows
instead of comparing them is `PopulationIsExact`: the rows held are complete nodes,
there are `Population(n)` of those, and a subset as large is the whole. For a
promotion, `OneMoreCompletes` says which nodes one more entry completes and
`CompletedRootsAreRight` that the climb computes their roots, as each left child it
reads is a complete node below the new entry.

What is served is a recursion over spans: a span of s leaves is cut at the largest
power of two below s. `EverySize` is the induction that goes with it: a set of sizes
with 1 in it, and with every size whose two parts it has, is all of them. The facts about
each algorithm are inductions along these cuts, over all offsets at once.

- *Opening* (`OpenIsRight`): over right rows what is opened is the root of the span; over a
  whole tree everything opens, as a complete node is a row; and where the span begins at a
  multiple of the power of two its size lies under (`Aligned`, kept by both parts), the reads
  are the one bits of the size. `CountOnes` is a sum over all levels; that the two parts of a
  size share no bit is the lemma about the one bits it takes.
- *Paths* (`PathLeads`, `SubproofLeads`): the spans a path names, opened, climb to the root.
  The verifier is not told the spans, it recurs by itself over the same cuts. Both
  recursions are followed at once: if the nodes from a place on carry the roots of the spans
  (`Carries`), what is climbed up to there is the root of the part.
- *Ranges*: `OutsAreSound` is about the spans outside the window, `WalksArrive` follows the
  verifier's walk, which ends at the root with every node used when it is given the right
  nodes and leaves. `WalksPassTheLeaves` is the converse, where hashing without collisions
  comes in: a walk that ends at the root *was* given the leaves of the window, whatever it was
  given for nodes.
- *Altered responses*: by that converse the claim holds of any response whose claims about size
  and root are true (`AcceptedIsTheWindow`); `AlteredStillIsOne` shows the alterations leave it one.

### The texts

`Texts_proofs` proves of the run `texts` that exactly the rendered times are
accepted (`OneTextForATime`), that times are in one order as texts and as instants
(`TimesSortAsTexts`), and that exactly the durations of the grammar are
accepted, with their exact total (`DurationsAreRead`), for every word, all units of
time and every calendar, and however often a text was edited. The assumptions are
`DurationAssumption`, that an hour is whole minutes and a day whole hours;
`CalendarAssumption`, that years and months follow one another and the last
instant lies within the last year; and, for the order, `WidthAssumption`, that every
field fits the digits it is written with: the word ends in the year 2554, and there
are four digits for it. `DurationsAreRead` has the hypothesis `NoPlus`, that
no plus sign occurs in a text: with one it is false, which is finding 4.

*Times.* `FieldsOfTheInstant` is the heart of it: the fields of an instant lie in the
calendar and make that instant again. The year is the last to have begun by the day,
so the next has not (`YearHasTheDay`), and so with the month; the rest are quotients
and remainders (`NestedRemainder`, `QuotientBelow`). A rendering has the shape that is
parsed and its fields in it, so the library reads the instant whatever it does with
fields out of range, and it is rendered as the same text. Whatever else the library
reads, the round trip refuses.

*Their order.* Of two instants the earlier has the smaller field where their fields
first differ (`FieldsInOrder`), because quotient and remainder compare one after the
other (`DividedInOrder`). The smaller of two numbers written with equally many
digits has the smaller digit where they first differ (`DigitsInOrder`); with digits
missing it would not, which is what the fixed widths are for. And what is before or
after the place where two texts first differ decides nothing (`BelowAfter`,
`BelowBefore`, `CharactersBelow`).

*Durations.* The parser goes from left to right by the first letter it finds, the
grammar says that there is some way to cut a text up. `ComponentTaken` and
`SecondsTaken` are about one step of the parser; `Rest` is what it leaves. `TimeIs`
and `Shape` say that there is only one way to cut, that of `Rest` and of the first T,
for a component cannot begin another way than by its own number and unit;
`NothingProhibited`, that the letters refused beforehand are in none of it. Nothing
is lost by checking every part against the word before the sum, as a part is never
more than the total (`PartsFit`). The total is compared with a reference that knows
nothing of components: a sum over the symbols, each number weighed by its neighbours.
`PartAdds` and `SecondsAdd` follow that sum over the parts, and `FractionIs` makes of
padding with zeros the division it stands for.

### Only model-checked

Liveness (`EveryRequestEnds`, `OpeningEnds`, and that a
Replica is complete in the end), which needs fairness. Every safety
property a passing run checks is a theorem.

## Not modelled

- *The Merkle and range-proof libraries*: external, written in Tree and
  TreeProofs from what they must compute, with no state of their own.
- *Texts* other than durations and checkpoint times: JSON, base64, hex, and the
  RFC 3339 `cadence_epoch`, which the library parses. Outside CheckpointTime a
  time is a number.
- *Cryptography and Merkle hashing* (`ahl-core`, `atl-core`): hashes are
  collision free, a genuine signature is that of its key.
- *I/O faults of SQLite* other than the process dying, and a poisoned mutex.
- *The server binary, configuration loading, log metadata bytes, fuzz targets.*
- *A promotion proof for an index the tree has not*: what the libraries answer to
  it is not in this repository, so no posting of Feed has one.

