CONSTANTS
  Producers = {p1}
  Consumers = {c1, c2}
  Items = {a}
  Size = 4
  IndexMod = 8
  StartIndexes = {6}
  Requests = {2}
  Behaviors = {"VARIABLE", "FIXED"}
  SpEnqueue = TRUE
  ScDequeue = FALSE
  WaterMarks = {}
  NoItem = NoItem
  Queriers = {p1}
SPECIFICATION FairSpecQuery
PROPERTIES ReservationsComplete PromiseKept
