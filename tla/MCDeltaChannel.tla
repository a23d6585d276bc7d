--------------------------- MODULE MCDeltaChannel ---------------------------
(***************************************************************************)
(* Small instances of DeltaChannel.                                        *)
(***************************************************************************)
EXTENDS DeltaChannel

CONSTANTS base, pair, own

(* The first policy is a rule; `pair' is an update and a rule for the      *)
(* runtime's domain; `own' is a rule the child asks for in its domain.     *)
Updates1 == [d \in {base, pair, own} |-> IF d = pair THEN 1 ELSE 0]
Rules1 == [d \in {base, pair, own} |-> 1]
Callers == [d \in {pair, own} |-> IF d = own THEN Child ELSE Agent]
============================================================================
