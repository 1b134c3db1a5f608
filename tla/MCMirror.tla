------------------------------ MODULE MCMirror ------------------------------
(***************************************************************************)
(* Small logs for the write side.  The published log is g, r, d: a genesis *)
(* manifest under log key k1, a manifest rotating the log key to k2, and   *)
(* an ordinary entry.  A fork g, x leaves it after the genesis manifest,   *)
(* and w is a manifest that rotates the witness keys only.                 *)
(***************************************************************************)
EXTENDS Mirror, TLC

CONSTANTS g, r, w, d, x, p1, k1, k2

Manifest(predecessor, logKey, witnesses) ==
    [ type |-> "manifest", signer |-> p1, readable |-> TRUE, current |-> TRUE,
      predecessor |-> predecessor, wellFormed |-> TRUE, epoch |-> 0,
      cadence |-> 2, producers |-> <<KeyObject(p1, 0)>>,
      log |-> <<KeyObject(logKey, 0)>>, witnesses |-> witnesses ]

MCStatement ==
    [ e \in {g, r, w, d, x} |->
        CASE e = g -> Manifest(NoEntry, k1, {})
          [] e = r -> Manifest(g, k2, {})
          [] e = w -> Manifest(g, k1, {k2})
          [] OTHER -> [type |-> "other", signer |-> p1] ]
MCGenesisKeys == <<KeyObject(p1, 0)>>

Log(s) == [i \in 0 .. Len(s) - 1 |-> s[i + 1]]
Cp(s, time, key) ==
    [size |-> Len(s), root |-> Log(s), time |-> time, key |-> key, genuine |-> TRUE]
At(e, i) == [entry |-> e, index |-> i]

Post(cp, batch) == [cp |-> cp, batch |-> batch, named |-> NotNamed]
PostFor(cp, batch, manifest) == [cp |-> cp, batch |-> batch, named |-> manifest]
Forged(cp) == [cp EXCEPT !.genuine = FALSE]

Slots == Permutations(Request)

(* A log-key rotation: the outgoing and the incoming key both sign size 2, *)
(* with and without the rotating manifest in the batch, and the outgoing   *)
(* key signs a fork of the same size.  One batch fails at its second claim.*)
RotationEntry == {g, r, x}
RotationSubmission ==
    { Post(Cp(<<g>>, 1, k1), <<At(g, 0)>>),
      Post(Cp(<<g>>, 1, k1), <<At(g, 0), At(x, 1)>>),
      Post(Cp(<<g, r>>, 2, k1), <<>>),
      PostFor(Cp(<<g, r>>, 2, k1), <<At(g, 0), At(r, 1)>>, 1),
      Post(Cp(<<g, r>>, 2, k2), <<At(r, 1)>>),
      Post(Cp(<<g, x>>, 3, k1), <<>>),
      Post(Cp(<<g, x>>, 3, k1), <<At(g, 0), At(x, 1)>>),
      Post(Forged(Cp(<<g, x>>, 2, k1)), <<At(g, 0), At(x, 1)>>) }

(* A witness-key rotation: every later checkpoint under k1 is a series     *)
(* member and an anchor at once, posted in any order, with a quiet log     *)
(* republishing size 2 and a fork claiming the slot of a member.  A claim  *)
(* of a batch may be new, repeated, not a leaf, elsewhere or past the next *)
(* index.                                                                  *)
WitnessEntry == {g, w, d}
WitnessSubmission ==
    { Post(Cp(<<g>>, 1, k1), <<At(g, 0)>>),
      Post(Cp(<<g, w>>, 2, k1), <<At(g, 0), At(w, 1)>>),
      PostFor(Cp(<<g, w>>, 4, k1), <<>>, 1),
      Post(Cp(<<g, w, d>>, 3, k1), <<At(w, 1), At(d, 2)>>),
      Post(Cp(<<g, d>>, 2, k1), <<At(g, 0)>>),
      Post(Cp(<<g, w, g>>, 5, k1), <<At(g, 2)>>),
      Post(Cp(<<g, w, g>>, 5, k1), <<At(g, 0), At(d, 2)>>) }

(* The two logs are two stories: a state tells one of them.                *)
BothEntry == RotationEntry \cup WitnessEntry
BothSubmission == RotationSubmission \cup WitnessSubmission
RotationClaims == UNION {Range(s.batch) : s \in RotationSubmission}
WitnessClaims == UNION {Range(s.batch) : s \in WitnessSubmission}
Tells(c, entry, claims) == Range(c.cp.root) \subseteq entry /\ Range(c.batch) \subseteq claims
InStory(entry, claims) ==
    /\ staged \subseteq entry
    /\ \A a \in admitted : Tells(a, entry, claims)
    /\ \A p \in Request : call[p] = Idle \/ Tells(call[p], entry, claims)
OneStory == InStory(RotationEntry, RotationClaims) \/ InStory(WitnessEntry, WitnessClaims)

(* Rotation material contradicting the series at a size not yet held.      *)
SupersededEntry == {g, r, d, x}
SupersededSubmission ==
    { Post(Cp(<<g, r>>, 1, k1), <<At(g, 0), At(r, 1)>>),
      Post(Cp(<<g, r, d>>, 2, k2), <<>>),
      Post(Cp(<<g, r, x>>, 2, k1), <<>>) }

(* The outgoing key signs past a rotation the mirror does not hold yet.    *)
StaleSubmission ==
    { Post(Cp(<<g>>, 1, k1), <<At(g, 0)>>),
      Post(Cp(<<g, r>>, 2, k1), <<>>),
      Post(Cp(<<g, r>>, 2, k2), <<At(g, 0), At(r, 1)>>) }
=============================================================================
