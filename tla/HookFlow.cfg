CONSTANTS
  Updates <- MCUpdates
  Rules <- MCRules
  Policies <- MCPolicies
  OneDelta = TRUE
SPECIFICATION Spec
INVARIANTS FdFlowFollowed
CHECK_DEADLOCK FALSE
