SPECIFICATION Spec

CONSTANTS
  Narrowings <- MCNarrowings
  TwoStep <- MCTwoStep
  Divergent <- MCDivergent

INVARIANTS
  RefusedChangesNothing
  DeclaredIsEnforced
