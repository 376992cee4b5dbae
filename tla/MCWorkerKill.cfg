CONSTANTS
  Owners = {o1, o2}
  Stoppers = {}
  Names = {n1}
SPECIFICATION Spec
PROPERTY KillingIsFinal
