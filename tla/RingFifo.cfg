CONSTANTS
  Producers = {p1, p2}
  Consumers = {c1}
  Items = {a, b}
  Size = 4
  IndexMod = 8
  StartIndexes = {6}
  Requests = {1}
  Behaviors = {"FIXED"}
  SpEnqueue = FALSE
  ScDequeue = TRUE
  WaterMarks = {}
  NoItem = NoItem
  Queriers = {c1}
SPECIFICATION SpecQuery
SYMMETRY Symmetry
PROPERTIES ImplementsFifo PromiseKept
