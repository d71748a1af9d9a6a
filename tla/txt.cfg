SPECIFICATION Spec
CONSTANTS
  Char = {"a", "b", "newline"}
  Eq = "="
  Nul = "NUL"
  Special = {"newline"}
  Misread <- MCMisread
  Key <- MCKey
  Value <- MCValue
  Lists <- MCLists
  MaxMentions = 3
  None = None
  Unset = Unset
INVARIANTS
  TypeOK
  FindsPublished
  
