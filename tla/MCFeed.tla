------------------------------- MODULE MCFeed -------------------------------
(***************************************************************************)
(* An honest log g, r, d: a genesis manifest under log key k1, a manifest  *)
(* rotating the log key to k2, an ordinary entry.  x is what a stranger    *)
(* has: well-formed bytes that are no entry of the log.                    *)
(***************************************************************************)
EXTENDS Feed, TLC

CONSTANTS g, r, d, x, p1, k1, k2

Manifest(predecessor, logKey) ==
    [ type |-> "manifest", signer |-> p1, readable |-> TRUE, current |-> TRUE,
      predecessor |-> predecessor, wellFormed |-> TRUE, epoch |-> 0,
      cadence |-> 2, producers |-> <<KeyObject(p1, 0)>>,
      log |-> <<KeyObject(logKey, 0)>>, witnesses |-> {} ]
MCStatement ==
    [ e \in {g, r, d, x} |->
        CASE e = g -> Manifest(NoEntry, k1)
          [] e = r -> Manifest(g, k2)
          [] OTHER -> [type |-> "other", signer |-> p1] ]
MCGenesisKeys == <<KeyObject(p1, 0)>>

LogOf(s) == [i \in 0 .. Len(s) - 1 |-> s[i + 1]]
MCLog == LogOf(<<g, r, d>>)
Cp(s, time, key) ==
    [size |-> Len(s), root |-> LogOf(s), time |-> time, key |-> key, genuine |-> TRUE]
At(e, i) == [entry |-> e, index |-> i]

Stage(e, flaws) == [kind |-> "stage", entry |-> e, flaws |-> flaws]
Promote(size, claim) == [kind |-> "promote", size |-> size, claim |-> claim]
Ingest(cp, batch, named, fault) ==
    [ kind |-> "ingest", cp |-> [cp EXCEPT !.genuine = fault = "accepted"], batch |-> batch,
      named |-> named, fault |-> fault ]

(* The operator's: the checkpoint that anchors the rotation is signed by   *)
(* the key it retires and carries the rotating manifest; the last one      *)
(* carries nothing, and the entry it commits is promoted on its own.       *)
MCOwn ==
    { Stage(g, {}), Stage(r, {}), Stage(d, {}),
      Ingest(Cp(<<g>>, 1, k1), <<At(g, 0)>>, NotNamed, "accepted"),
      Ingest(Cp(<<g, r>>, 2, k1), <<At(r, 1)>>, 1, "accepted"),
      Ingest(Cp(<<g, r>>, 3, k2), <<At(g, 0)>>, NotNamed, "accepted"),
      Ingest(Cp(<<g, r, d>>, 4, k2), <<>>, NotNamed, "accepted"),
      Promote(3, At(d, 2)) }

(* The strangers': bytes of their own, at a contested index; the           *)
(* operator's material damaged, unnamed or in another order; a forgery.    *)
MCOthers ==
    { Stage(x, {}), Stage(r, {"NotCanonical", "EntryIdMismatch"}),
      Promote(2, At(x, 1)), Promote(2, At(r, 1)),
      Ingest(Cp(<<g, r>>, 2, k1), <<>>, NotNamed, "accepted"),
      Ingest(Cp(<<g, r>>, 2, k1), <<At(r, 1), At(g, 0)>>, 1, "accepted"),
      Ingest(Cp(<<g, r, d>>, 4, k2), <<At(r, 1), At(d, 2)>>, NotNamed, "accepted"),
      Ingest(Cp(<<g, x>>, 3, k1), <<At(g, 0), At(x, 1)>>, NotNamed, "SignatureInvalid") }

MCSubmission ==
    {[cp |-> q.cp, batch |-> q.batch, named |-> q.named] :
        q \in {o \in MCOwn \cup MCOthers : o.kind = "ingest"}}

(* Every request of the operator's is in order.                            *)
ASSUME ProperAssumption == KeysOnce /\ Orderly = Own
=============================================================================
