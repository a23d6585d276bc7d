---------------------------- MODULE AtomicPolicy ----------------------------
(***************************************************************************)
(* What the append channel promises the callers of a runtime, without the  *)
(* ring, the drains, the tables and the rollback that provide it: deltas   *)
(* come one at a time; while one is being installed, entries of that delta *)
(* alone come into force or leave it; a delta that is accepted is in force *)
(* with every entry, one that is refused with none; and a new runtime      *)
(* starts from nothing.                                                    *)
(*                                                                         *)
(* The promise lapses for good once a request has outlived the transaction *)
(* that submitted it (see DeltaChannel!FailedGone): from then on any step  *)
(* is allowed.                                                             *)
(***************************************************************************)
CONSTANTS
  Entries,   \* a function: the entries of each delta, disjoint between deltas
  Policy,    \* the delta without which a runtime does not stay up
  NoDelta

VARIABLES
  up,        \* a runtime serves requests
  busy,      \* the delta being installed, or NoDelta
  live,      \* the entries in force
  accepted, refused,   \* the answers of this runtime
  lapsed

vars == <<up, busy, live, accepted, refused, lapsed>>

Init ==
  /\ up = FALSE
  /\ busy = NoDelta
  /\ live = {}
  /\ accepted = {} /\ refused = {}
  /\ lapsed = FALSE

Restart ==
  /\ ~up
  /\ live' = {} /\ accepted' = {} /\ refused' = {}
  /\ UNCHANGED <<up, busy, lapsed>>

Serve ==
  /\ ~up /\ live = {}
  /\ up' = TRUE
  /\ UNCHANGED <<busy, live, accepted, refused, lapsed>>

Submit(d) ==
  /\ up /\ busy = NoDelta
  /\ d \notin accepted \cup refused
  /\ busy' = d
  /\ UNCHANGED <<up, live, accepted, refused, lapsed>>

(* Entries of the delta at hand, and no others, come and go.               *)
Work ==
  /\ busy # NoDelta
  /\ live' \ Entries[busy] = live \ Entries[busy]
  /\ live' \subseteq live \cup Entries[busy]
  /\ UNCHANGED <<up, busy, accepted, refused, lapsed>>

Accept ==
  /\ busy # NoDelta
  /\ Entries[busy] \subseteq live
  /\ accepted' = accepted \cup {busy}
  /\ busy' = NoDelta
  /\ UNCHANGED <<up, live, refused, lapsed>>

Refuse ==
  /\ busy # NoDelta
  /\ live \cap Entries[busy] = {}
  /\ refused' = refused \cup {busy}
  /\ busy' = NoDelta
  /\ up' = (busy # Policy)
  /\ UNCHANGED <<live, accepted, lapsed>>

(* The runtime ends or dies, perhaps in the middle of an installation; what*)
(* is in force stays until it is cleared.                                  *)
Down ==
  /\ up /\ up' = FALSE
  /\ busy' = NoDelta
  /\ UNCHANGED <<live, accepted, refused, lapsed>>

Clear ==
  /\ ~up
  /\ live' = {}
  /\ UNCHANGED <<up, busy, accepted, refused, lapsed>>

Next ==
  \/ Restart \/ Serve
  \/ \E d \in DOMAIN Entries : Submit(d)
  \/ Work \/ Accept \/ Refuse
  \/ Down \/ Clear
  \/ lapsed'

Spec == Init /\ [][Next]_vars
=============================================================================
