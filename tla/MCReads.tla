------------------------------ MODULE MCReads -------------------------------
(***************************************************************************)
(* Small logs and requests for the read side.  The published log is        *)
(* g, d, d2 or g, r, d: a genesis manifest, perhaps a witness-key or       *)
(* log-key rotation, and ordinary entries; a fork leaves it after g.       *)
(* The passing run tells two stories, an honest log's and a fork's; a      *)
(* state belongs to one of them.                                           *)
(***************************************************************************)
EXTENDS Reads, TLC

CONSTANTS g, r, w, d, d2, x, old, p1, k1, k2

Manifest(predecessor, logKey, witnesses, cadence, current) ==
    [ type |-> "manifest", signer |-> p1, readable |-> TRUE, current |-> current,
      predecessor |-> predecessor, wellFormed |-> TRUE, epoch |-> 1,
      cadence |-> cadence, producers |-> <<KeyObject(p1, 0)>>,
      log |-> <<KeyObject(logKey, 0)>>, witnesses |-> witnesses ]

MCStatement ==
    [ e \in {g, r, w, d, d2, x, old} |->
        CASE e = g -> Manifest(NoEntry, k1, {}, 2, TRUE)
          [] e = r -> Manifest(g, k2, {}, 1, TRUE)
          [] e = w -> Manifest(g, k1, {k2}, 1, TRUE)
          [] e = old -> Manifest(g, k1, {}, 2, FALSE)
          [] OTHER -> [type |-> "other", signer |-> p1] ]
MCGenesisKeys == <<KeyObject(p1, 0)>>

Log(s) == [i \in 0 .. Len(s) - 1 |-> s[i + 1]]
Cp(s, time, key) ==
    [size |-> Len(s), root |-> Log(s), time |-> time, key |-> key, genuine |-> TRUE]
At(e, i) == [entry |-> e, index |-> i]
Post(cp, batch) == [cp |-> cp, batch |-> batch, named |-> NotNamed]

(* An honest log, republished while quiet, behind and ahead of its entries.*)
SeriesEntry == {g, w, d}
SeriesSubmission ==
    { Post(Cp(<<g>>, 1, k1), <<At(g, 0)>>),
      Post(Cp(<<g, w>>, 2, k1), <<>>),
      Post(Cp(<<g, w>>, 3, k1), <<At(g, 0), At(w, 1)>>),
      Post(Cp(<<g, w, d>>, 3, k1), <<At(w, 1), At(d, 2)>>) }
SeriesAsk ==
    { [route |-> "itub", index |-> 0],
      [route |-> "range", size |-> 3, from |-> 1, to |-> 3],
      [route |-> "range", size |-> 2, from |-> 0, to |-> 3],
      [route |-> "consistency", from |-> 1, to |-> 3],
      [route |-> "list"], [route |-> "entry", entry |-> d] }

(* A rotation of the log key, the log quiet after it, and forks of the log *)
(* signed by both keys: one drops the rotation, one has it elsewhere.      *)
ForkEntry == {g, r, x}
ForkSubmission ==
    { Post(Cp(<<g>>, 1, k1), <<At(g, 0)>>),
      Post(Cp(<<g, r>>, 2, k2), <<At(r, 1)>>),
      Post(Cp(<<g, r>>, 3, k2), <<>>),
      Post(Cp(<<g, x>>, 3, k1), <<>>),
      Post(Cp(<<g, r, x>>, 3, k1), <<At(x, 2)>>),
      Post(Cp(<<g, x, r>>, 4, k1), <<>>) }
ForkAsk ==
    { [route |-> "lookup", size |-> 2],
      [route |-> "range", size |-> 2, from |-> 1, to |-> 2],
      [route |-> "consistency", from |-> 2, to |-> 3],
      [route |-> "consistency", from |-> 3, to |-> 2],
      [route |-> "itub", index |-> 1],
      [route |-> "rotation", manifest |-> 1], [route |-> "entry", entry |-> x] }

BothEntry == SeriesEntry \cup ForkEntry
BothSubmission == SeriesSubmission \cup ForkSubmission
BothAsk == SeriesAsk \cup ForkAsk
Tells(entry, submission, ask) ==
    /\ staged \subseteq entry
    /\ \A a \in admitted : \E s \in submission : a.cp = s.cp /\ a.batch = s.batch
    /\ read.step = "idle" \/ read.ask \in ask
OneStory ==
    \/ Tells(SeriesEntry, SeriesSubmission, SeriesAsk)
    \/ Tells(ForkEntry, ForkSubmission, ForkAsk)

(* A member is passed over while its entries arrive.                       *)
TornEntry == {g, d, d2}
TornSubmission ==
    { Post(Cp(<<g>>, 1, k1), <<At(g, 0)>>),
      Post(Cp(<<g, d>>, 2, k1), <<>>),
      Post(Cp(<<g, d, d2>>, 3, k1), <<>>),
      Post(Cp(<<g, d, d2>>, 3, k1), <<At(d, 1), At(d2, 2)>>) }
TornAsk == { [route |-> "itub", index |-> 1] }

(* A governance statement of another revision becomes canonical under a    *)
(* checkpoint admitted on a prefix that ended before it.                   *)
OldEntry == {g, old}
OldSubmission ==
    { Post(Cp(<<g, old>>, 2, k1), <<At(g, 0)>>),
      Post(Cp(<<g, old>>, 2, k1), <<At(old, 1)>>) }
OldAsk == { [route |-> "list"] }
=============================================================================
