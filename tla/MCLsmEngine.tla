---------------------------- MODULE MCLsmEngine ----------------------------
EXTENDS LsmEngine, TLC

CONSTANTS fs, fk

(* A file at the path s (the source) and one at k (the sink); nothing has  *)
(* the third path at first, so that either may be renamed away.            *)
MCNameOf == fs :> "s" @@ fk :> "k"

Perms == Permutations(Procs)
============================================================================
