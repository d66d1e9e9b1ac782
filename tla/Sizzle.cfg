SPECIFICATION Spec
CONSTANTS
  N = 4
  Trees <- MCTrees
  Selectors <- MCSelectors
  Contexts = {0, 1}
  MaxFinds = 2
INVARIANTS
  FindsWhatIsMeant
