SPECIFICATION Spec
CONSTANTS
  doc = doc
  para = para
  link = link
  s1 = s1
  s2 = s2
  None = None
  Doc = doc
  Nodes <- MCNodes
  Tree <- MCTree
  Names <- MCNames
  Keys <- MCKeys
  Calls <- MCCalls
  Returns = {"go", "false", "stopNow", "throw"}
  MaxCalls = 4
INVARIANTS
  IdsOwned
  ListenersMatch
  RunsWhatIsBound
  OncePerEvent
