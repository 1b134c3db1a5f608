---------------------------- MODULE GovernanceLog ----------------------------
(***************************************************************************)
(* A transparency log growing one entry at a time under the governance     *)
(* walk, and a declarative account of what the walk has to compute.  The   *)
(* walk itself (module Governance) is a loop over the prefix; the account  *)
(* below has no loop: it says which statements of a log are effective by   *)
(* relating each of them to the other effective ones.                      *)
(***************************************************************************)
EXTENDS Governance, FiniteSetsExt

CONSTANT MaxLength      \* bound on the length of the log

VARIABLE log

(* A log is contiguous from index 0 and never holds one entry id twice.    *)
Init == log = <<>>

Append1(e) ==
    LET n == Cardinality(DOMAIN log) IN
    /\ n < MaxLength
    /\ e \notin Range(log)
    /\ log' = [i \in 0 .. n |-> IF i = n THEN e ELSE log[i]]

Next == \E e \in Entry : Append1(e)

Spec == Init /\ [][Next]_log

-----------------------------------------------------------------------------
(* The declarative account.  J is a candidate for the set of indices of    *)
(* effective statements.                                                   *)

At(i) == Statement[log[i]]
ManifestsBefore(J, i) == {j \in J : j < i /\ At(j).type = "manifest"}

(* The key statements about `key` between the manifest governing at i and  *)
(* i itself.                                                               *)
KeyEvents(J, key, i) ==
    LET m == Max(ManifestsBefore(J, i)) IN
    {j \in J : /\ m < j /\ j < i
               /\ At(j).type = "key" /\ At(j).key = key
               /\ At(j).action \in {"add", "retire"}}

(* `key` may sign a statement at index i: before genesis it is a           *)
(* configured key; afterwards the last thing said of it since the          *)
(* governing manifest is a grant that has taken effect.                    *)
InForce(J, key, i) ==
    IF ManifestsBefore(J, i) = {}
    THEN ListAuthorises(GenesisKeys, key, i)
    ELSE IF KeyEvents(J, key, i) # {}
    THEN LET last == At(Max(KeyEvents(J, key, i)))
         IN last.action = "add" /\ last.from <= i
    ELSE LET granted == At(Max(ManifestsBefore(J, i))).producers
         IN \E x \in DOMAIN granted :
                /\ granted[x].key = key /\ granted[x].from <= i
                /\ \A y \in DOMAIN granted : y > x => granted[y].key # key

(* A statement whose signatures are looked at: any manifest or key         *)
(* statement, but only the configured manifest where nothing governs yet.  *)
Examined(J, i) ==
    /\ At(i).type \in {"manifest", "key"}
    /\ ManifestsBefore(J, i) = {} => log[i] = Genesis /\ At(i).type = "manifest"

(* One of them that a key in force signed.                                 *)
Candidate(J, i) ==
    /\ Examined(J, i)
    /\ Readable(log[i]) /\ InForce(J, At(i).signer, i)

(* What ends the walk: signatures that cannot be read, whoever wrote them, *)
(* and a candidate of another revision.                                    *)
Aborting(J) ==
    {i \in DOMAIN log :
        \/ Examined(J, i) /\ ~Readable(log[i])
        \/ Candidate(J, i) /\ ~At(i).current}

(* A candidate counts when its content is what its place in the chain      *)
(* calls for.                                                              *)
WellPlaced(J, i) ==
    At(i).type = "manifest" =>
        /\ At(i).wellFormed
        /\ IF ManifestsBefore(J, i) = {}
           THEN At(i).predecessor = NoEntry
           ELSE /\ At(i).predecessor = log[Max(ManifestsBefore(J, i))]
                /\ At(i).epoch = At(Min(ManifestsBefore(J, i))).epoch

(* J justifies itself: it is exactly the well placed candidates it makes,  *)
(* up to the first aborting one.                                           *)
Justified(J) ==
    LET Counts(i) == Candidate(J, i) /\ WellPlaced(J, i)
        aborting == Aborting(J)
    IN /\ \A i \in J : Counts(i)
       /\ J = {i \in DOMAIN log : Counts(i) /\ \A j \in aborting : i < j}

Accounts == {J \in SUBSET {i \in DOMAIN log : At(i).type # "other"} : Justified(J)}

-----------------------------------------------------------------------------
(* The walk agrees with the account: exactly one set of statements         *)
(* justifies itself, its manifests are the versions the walk reports, in   *)
(* order, the producer keys the walk ends with are the ones in force, and  *)
(* the walk refuses exactly the logs in which a statement with unreadable  *)
(* signatures or an authentic one of another revision occurs where it is   *)
(* examined (manifest.rs, walk and its appliers).                          *)
WalkMatchesAccount ==
    LET accounts == Accounts
        end == Cardinality(DOMAIN log)
        walk == Walk(log)
    IN  /\ Cardinality(accounts) = 1
        /\ \A J \in accounts :
           /\ {walk.versions[v].index : v \in 1 .. Len(walk.versions)}
                = ManifestsBefore(J, end)
           /\ \A v, w \in 1 .. Len(walk.versions) :
                v < w => walk.versions[v].index < walk.versions[w].index
           /\ walk.aborted <=> Aborting(J) # {}
           /\ Established(walk) /\ ~walk.aborted =>
                \A k \in {Statement[e].signer : e \in Entry} :
                    InForce(J, k, end) <=> MapAuthorises(walk.producers, k, end)

(* Bytes anyone can append establish nothing.  Compare the log with the    *)
(* one that has an unrelated entry in place of one no key in force signed: *)
(* the walks are the same, or the entry's signatures are unreadable and    *)
(* the walk ends there with exactly what the entries before it established *)
(* (try_apply_manifest, try_apply_key).                                    *)
OutsidersEstablishNothing ==
    \A i \in DOMAIN log, e \in Entry :
        LET before == Walk(Restrict(log, 0 .. i - 1)) IN
        ( /\ Statement[e].type = "other"
          /\ ~Authentic(before, log[i], i) )
        => \/ Walk(log) = Walk([log EXCEPT ![i] = e])
           \/ ~Readable(log[i]) /\ Walk(log) = Abort(before)

(* What the documents say: a statement that fails its check is skipped,    *)
(* for "bytes anyone can append must not abort resolution"                 *)
(* (try_apply_manifest).  So no log is refused for an entry that no key in *)
(* force signed.  The code propagates verify_envelope's error instead.     *)
OutsidersNeverAbort ==
    \A i \in DOMAIN log, e \in Entry :
        ( /\ Statement[e].type = "other"
          /\ ~Authentic(Walk(Restrict(log, 0 .. i - 1)), log[i], i) )
        => (Aborted(log) => Aborted([log EXCEPT ![i] = e]))

(* What a prefix established stays established: a longer log keeps every   *)
(* version and every rotation a shorter one had, and a refused log stays   *)
(* refused.  rotation_anchors_for reads rotations out of whatever prefix   *)
(* happens to be held and relies on it.                                    *)
EstablishedStaysEstablished ==
    [][ /\ Len(Versions(log)) <= Len(Versions(log'))
        /\ \A v \in 1 .. Len(Versions(log)) : Versions(log')[v] = Versions(log)[v]
        /\ Rotations(log) \subseteq Rotations(log')
        /\ Aborted(log) => Aborted(log') ]_log
=============================================================================
