CONSTANTS
  Producers = {p1, p2}
  Consumers = {c1, c2}
  Items = {a}
  Size = 4
  IndexMod = 8
  StartIndexes = {6}
  Requests = {2}
  Behaviors = {"FIXED", "VARIABLE"}
  SpEnqueue = FALSE
  ScDequeue = FALSE
  WaterMarks = {2}
  NoItem = NoItem
SPECIFICATION Spec
SYMMETRY Symmetry
INVARIANTS IndexOrder RangesDisjoint NoSharedSlot
PROPERTIES AnswersHonest SilenceBelowWatermark
