--------------------------- MODULE MCHookProfile ---------------------------
(* Every combination of operation, effect and matcher class a policy can use. *)
EXTENDS HookProfile

MCUpdates ==
    {u \in UpdateType : (u.op \notin {"open", "write"}) => u.match = "exact"}
    \cup {[op |-> "exec", match |-> "suffix"]}

MCRules ==
    {r \in RuleType :
        /\ r.arg => r.op = "exec"
        /\ r.effect = "kill" => r.op = "exec"   \* elsewhere kill and notify are one class
        /\ r.op \in {"connect", "recv"} => r.match = "exact" /\ r.cond = "none"
        /\ r.op = "exec" => r.match # "contains" /\ r.cond \in {"none", "suffix"}
        /\ r.op \in {"open", "write"} => r.match # "exact" \/ r.cond # "exact"}

\* At most one update and one rule each.  What the loader decides is a union over
\* the entries, so a larger policy only adds programs and features.
MCPolicies ==
    LET Small(E) == {{}} \cup {{e} : e \in E} IN
    [updates : Small(MCUpdates), rules : Small(MCRules)]
============================================================================
