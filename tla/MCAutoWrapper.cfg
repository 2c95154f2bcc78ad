CONSTANTS
  Parameters = {"x"}
  Programs <- MCPrograms
  Namespaces <- MCNamespaces
SPECIFICATION Spec
INVARIANT ForwardIsPreserved
CHECK_DEADLOCK FALSE
