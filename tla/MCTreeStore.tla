---------------------------- MODULE MCTreeStore -----------------------------
(***************************************************************************)
(* Databases of up to thirteen entries: three levels of subtrees, complete *)
(* trees and the sizes on either side of them.                             *)
(***************************************************************************)
EXTENDS TreeStore
=============================================================================
