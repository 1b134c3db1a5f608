----------------------------- MODULE Governance -----------------------------
(***************************************************************************)
(* The governance walk of src/manifest.rs: which manifest versions an  *)
(* entry prefix establishes, which producer keys are in force after it,    *)
(* which checkpoint-signing keys a version declares, and which versions    *)
(* rotate them.                                                            *)
(*                                                                         *)
(* An entry is named by its entry id.  A log is a function from the entry  *)
(* indices 0 .. n-1 to entry ids; Statement says what an entry's payload   *)
(* declares, so two entries with one id have one content (an entry id is   *)
(* the hash of the entry's bytes).  A key is named by its key id, which    *)
(* ResolvedKeyObject::resolve ties to the public key.                      *)
(***************************************************************************)
EXTENDS Integers, Sequences, FiniteSets, Functions

CONSTANTS
    Entry,          \* entry ids
    NoEntry,        \* "no predecessor member"
    Statement,      \* [Entry -> statement]: what each entry's payload declares
    Genesis,        \* config.genesis_manifest_entry_id
    GenesisKeys     \* config.genesis_producer_keys: a sequence of key objects

ASSUME NoEntryAssumption == NoEntry \notin Entry
ASSUME GenesisAssumption == Genesis \in Entry

(* A manifest's producer keys are a list.                                  *)
ASSUME ProducersAssumption ==
    \A e \in Entry :
        Statement[e].type = "manifest" =>
            Statement[e].producers \in Seq(Range(Statement[e].producers))

(* A key object: the key id and the first index it is valid for.           *)
KeyObject(key, from) == [key |-> key, from |-> from]

-----------------------------------------------------------------------------
(* Key lookups.  `keys` is a list searched for its first match (the log    *)
(* keys of a version, the configured genesis keys) or a map (producer      *)
(* keys), as in the code.                                                  *)

ListMatches(keys, key) == {i \in DOMAIN keys : keys[i].key = key}

(* iter().find(|k| k.key_id == key_id), then the activation bound.         *)
ListAuthorises(keys, key, at) ==
    \E i \in ListMatches(keys, key) :
        /\ \A j \in ListMatches(keys, key) : i <= j
        /\ keys[i].from <= at

(* Mutant: the activation bound is forgotten.                              *)
MapHolds(keys, key, at) == key \in DOMAIN keys
MapAuthorises(keys, key, at) == key \in DOMAIN keys /\ keys[key] <= at

(* collect() into a HashMap: the last object of a key id wins.             *)
ListToMap(keys) ==
    [k \in {keys[i].key : i \in DOMAIN keys} |->
        keys[CHOOSE i \in ListMatches(keys, k) :
                \A j \in ListMatches(keys, k) : j <= i].from]

-----------------------------------------------------------------------------
(* One manifest version, as GovernanceState holds it.                      *)
Version(e, index, genesis) ==
    [ index     |-> index,
      entry     |-> e,
      genesis   |-> genesis,
      epoch     |-> Statement[e].epoch,
      cadence   |-> Statement[e].cadence,
      log       |-> Statement[e].log,
      witnesses |-> Statement[e].witnesses ]

(* The state of the walk: the versions installed so far (the last one      *)
(* governs), the producer keys now in force, and whether a statement has   *)
(* ended the walk with an error: an authentic one of another revision      *)
(* (UnsupportedStatementVersion), or one whose signature entries           *)
(* verify_envelope could not read (Ahl).                                   *)
Unestablished == [aborted |-> FALSE, versions |-> <<>>, producers |-> <<>>]

Established(s) == s.versions # <<>>
Governing(s) == s.versions[Len(s.versions)]

Abort(s) == [s EXCEPT !.aborted = TRUE]
(* Mutant: only the governing version is kept.                             *)
InstallOnly(s, e, v) ==
    [s EXCEPT !.versions = <<v>>, !.producers = ListToMap(Statement[e].producers)]
Install(s, e, v) ==
    [s EXCEPT !.versions = Append(@, v), !.producers = ListToMap(Statement[e].producers)]

(* verify_envelope is external and has three outcomes: an error, where it  *)
(* cannot read a signature entry (one without key_id, say), and otherwise  *)
(* whether the signer's key is in force.                                   *)
Readable(e) == Statement[e].readable
Authentic(s, e, index) ==
    IF Established(s)
    THEN MapAuthorises(s.producers, Statement[e].signer, index)
    ELSE ListAuthorises(GenesisKeys, Statement[e].signer, index)

(* A manifest before any version governs: only the configured genesis id   *)
(* is a candidate; then signature, revision, and only then its content.    *)
ApplyGenesis(s, e, index) ==
    IF e # Genesis THEN s
    ELSE IF ~Readable(e) THEN Abort(s)
    ELSE IF ~Authentic(s, e, index) THEN s
    ELSE IF ~Statement[e].current THEN Abort(s)
    ELSE IF Statement[e].predecessor = NoEntry /\ Statement[e].wellFormed
         THEN Install(s, e, Version(e, index, index))
         ELSE s

(* Mutant: the revision is judged before the signature.                    *)
RevisionFirst(s, e, index) ==
    IF ~Readable(e) \/ ~Statement[e].current THEN Abort(s)
    ELSE IF /\ Authentic(s, e, index)
            /\ Statement[e].predecessor = Governing(s).entry
            /\ Statement[e].wellFormed
            /\ Statement[e].epoch = Governing(s).epoch
         THEN Install(s, e, Version(e, index, Governing(s).genesis))
         ELSE s

(* A manifest under a governing version: signature, revision, the          *)
(* predecessor link, then the content with the epoch of the corpus.        *)
ApplySuccessor(s, e, index) ==
    LET governing == Governing(s) IN
    IF ~Readable(e) THEN Abort(s)
    ELSE IF ~Authentic(s, e, index) THEN s
    ELSE IF ~Statement[e].current THEN Abort(s)
    ELSE IF /\ Statement[e].predecessor = governing.entry
            /\ Statement[e].wellFormed
            /\ Statement[e].epoch = governing.epoch
         THEN Install(s, e, Version(e, index, governing.genesis))
         ELSE s

(* A key statement: signature, revision, then its action on the producer   *)
(* keys.  It starts no version and never touches the log or witness keys.  *)
ApplyKey(s, e, index) ==
    LET st == Statement[e] IN
    IF ~Readable(e) THEN Abort(s)
    ELSE IF ~Authentic(s, e, index) THEN s
    ELSE IF ~st.current THEN Abort(s)
    ELSE CASE st.action = "add" ->
                [s EXCEPT !.producers = [k \in DOMAIN @ \cup {st.key} |->
                                            IF k = st.key THEN st.from ELSE @[k]]]
           [] st.action = "retire" ->
                [s EXCEPT !.producers = Restrict(@, DOMAIN @ \ {st.key})]
           [] OTHER -> s

WalkStep(s, e, index) ==
    IF s.aborted THEN s
    ELSE CASE Statement[e].type = "manifest" /\ ~Established(s) -> ApplyGenesis(s, e, index)
           [] Statement[e].type = "manifest" /\ Established(s)  -> ApplySuccessor(s, e, index)
           [] Statement[e].type = "key" /\ Established(s)       -> ApplyKey(s, e, index)
           [] OTHER -> s

(* The walk over a whole prefix.  (TLC evaluates an operator argument at    *)
(* every use and a member of a set once, hence the singletons.)            *)
Walk(log) ==
    LET run[n \in 0 .. Cardinality(DOMAIN log)] ==
            IF n = 0 THEN Unestablished
            ELSE CHOOSE t \in {WalkStep(s, e, n - 1) : s \in {run[n - 1]}, e \in {log[n - 1]}} : TRUE
    IN run[Cardinality(DOMAIN log)]

-----------------------------------------------------------------------------
(* What the rest of the mirror asks of a prefix.                           *)

(* Whether manifest::resolve / manifest::versions answer at all: the walk  *)
(* was not ended by an error and found a genesis manifest.                 *)
Aborted(log) == Walk(log).aborted
Resolvable(log) == ~Walk(log).aborted /\ Established(Walk(log))

(* manifest::versions, and the last of them: what manifest::resolve gives  *)
(* in every member but the producer keys.                                  *)
Versions(log) == Walk(log).versions
Active(log) == Governing(Walk(log))

(* GovernanceState::resolve_log_key for a checkpoint of this tree_size.    *)
LogKeyActive(version, key, size) == ListAuthorises(version.log, key, size)

(* GovernanceState::rotates: the log or the witness key objects differ, as *)
(* sets.                                                                   *)
Rotates(version, predecessor) ==
    \/ Range(version.log) # Range(predecessor.log)
    \/ version.witnesses # predecessor.witnesses

(* rotations_in: each rotating version's entry index with the version it   *)
(* retires.                                                                *)
Rotations(log) ==
    LET vs == Versions(log) IN
    { [index |-> vs[i + 1].index, outgoing |-> vs[i]] :
        i \in {j \in 1 .. Len(vs) - 1 : Rotates(vs[j + 1], vs[j])} }
=============================================================================
