SPECIFICATION Spec
CONSTANTS
  Alnum = {"a", "b"}
  Other = {"/"}
  Names <- MCNames
  Types <- MCTypes
INVARIANTS
  Contained
  Computed
  PlainIsUnique
CHECK_DEADLOCK FALSE
