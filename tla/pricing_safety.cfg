SPECIFICATION Spec
CONSTANTS
  Forms <- MCForms
  Volumes = {1, 3, 6}
  MaxRules = 3
  Empty = Empty
INVARIANTS TypeOK ChargedInTier VariableIsCharged ConsecutiveIsCharged 
