CONSTANTS
  Nodes = {x, y}  None = None
  Oversized = {y}
  PageSize = 2
  MaxResults = 4
  MaxTableRows = 1
  MaxEdges = 2
  MaxEvents = 4
  a = a  b = b  c = c  d = d
  run = run  build = build  first = first  second = second
  Null = Null
  CentralShare = 2
  MostCentral = 2
  Kinds = {run, build}
  Loadable = {first, second}
  Workspaces <- MCBlank
  Browsed = {}
  Links <- MCLinks
  MaxSteps = 0
SPECIFICATION Spec
PROPERTIES RejectionKeepsLocalRendering
CHECK_DEADLOCK FALSE
