CONSTANTS
  Updates <- MCUpdates
  Rules <- MCRules
  Policies <- MCPolicies
  OneDelta = TRUE
SPECIFICATION Spec
INVARIANTS  CheckAgrees  RenamePaired
CHECK_DEADLOCK FALSE
