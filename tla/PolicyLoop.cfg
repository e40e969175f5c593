CONSTANTS
  d1 = d1
  d2 = d2
  typo = typo
  garbled = garbled
  NoDoc = NoDoc
  NoAnn = NoAnn
  Empty = Empty
  Orig = 3
  MinCPU = 1
  MaxCPU = 6
  Faults = {"crash", "get", "resize", "clear"}
  MaxFaults = 1
  Docs = {d1, d2, typo, garbled}
  Parsed = {d1, d2, typo}
  Valid = {d1, d2}
  Rules <- MCRules
  Names = {"grow", "clean"}
  Levels = {"high", "low"}
  Cooldown <- MCCooldown
  MaxEdits = 2
SPECIFICATION LoopFairSpec
INVARIANT
  BaselineIsOriginal
PROPERTIES
  PolicyConverges
  FiresOncePerCooldown
  DemandIsMet
CHECK_DEADLOCK FALSE
