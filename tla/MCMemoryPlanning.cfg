SPECIFICATION Spec
CONSTANTS
  Specs <- MCSpecs
  MemIds = {1, 2}
  Nodes <- MCNodes
  Plans <- MCPlans
  MaxNodes = 9
  Alignment = 2
INVARIANTS SharingSound FitsBuffer ModulesDisjoint
CHECK_DEADLOCK FALSE
