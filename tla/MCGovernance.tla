---------------------------- MODULE MCGovernance ----------------------------
(***************************************************************************)
(* A small governance history: a genesis manifest, two competing           *)
(* successors and a third version, key statements that add and retire      *)
(* producer keys, an authentic statement of another revision, a forged     *)
(* one, a manifest moving the epoch, a key statement and an outsider's     *)
(* manifest with signatures nobody can read, and an unrelated entry.       *)
(***************************************************************************)
EXTENDS GovernanceLog

CONSTANTS g, m1, m2, m3, add2, retire1, old, moved, stray, bare, bareKey, data,
          p1, p2, outsider, k1, k2

MCEntry == {g, m1, m2, m3, add2, retire1, old, moved, stray, bare, bareKey, data}
MCGenesisKeys == << KeyObject(p1, 0) >>

Manifest(signer, predecessor, epoch, producers, logKeys, witnesses) ==
    [ type |-> "manifest", signer |-> signer, readable |-> TRUE, current |-> TRUE,
      predecessor |-> predecessor, wellFormed |-> TRUE, epoch |-> epoch,
      cadence |-> 2, producers |-> producers, log |-> logKeys,
      witnesses |-> witnesses ]

KeyStatement(signer, action, key, from) ==
    [ type |-> "key", signer |-> signer, readable |-> TRUE, current |-> TRUE,
      action |-> action, key |-> key, from |-> from ]

MCStatement ==
    [ e \in MCEntry |->
        CASE e = g  -> Manifest(p1, NoEntry, 0, <<KeyObject(p1, 0), KeyObject(p2, 4), KeyObject(p2, 3)>>,
                                <<KeyObject(k1, 0)>>, {})
          [] e = m1 -> Manifest(p1, g, 0, <<KeyObject(p2, 0)>>, <<KeyObject(k2, 0)>>, {})
          [] e = m2 -> Manifest(p2, g, 0, <<KeyObject(p1, 0)>>, <<KeyObject(k1, 0)>>, {k2})
          [] e = m3 -> Manifest(p2, m1, 0, <<KeyObject(p2, 0)>>, <<KeyObject(k2, 0)>>, {k1})
          [] e = moved -> Manifest(p1, g, 1, <<KeyObject(p2, 0)>>, <<KeyObject(k2, 0)>>, {})
          [] e = add2 -> KeyStatement(p1, "add", p2, 0)
          [] e = retire1 -> KeyStatement(p2, "retire", p1, 0)
          [] e = old -> [KeyStatement(p2, "add", p1, 0) EXCEPT !.current = FALSE]
          [] e = stray -> [Manifest(outsider, g, 1, <<>>, <<>>, {}) EXCEPT !.current = FALSE]
          [] e = bare -> [Manifest(outsider, g, 0, <<>>, <<>>, {}) EXCEPT !.readable = FALSE]
          [] e = bareKey -> [KeyStatement(p1, "add", p2, 0) EXCEPT !.readable = FALSE]
          [] e = data -> [type |-> "other", signer |-> p1] ]
=============================================================================
