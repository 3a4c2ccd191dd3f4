CONSTANTS
  MaxSeq = 17
  Setups <- MCSetups
  RateHz = 3
  SlabFloorHz = 2
  ThermalHz = 1
  HeartbeatSeconds = 2
  MtdSeconds = 1
  Values <- MCValues
  Counts <- MCCounts
  Word = 32
  MaxStep = 2
  PerTick = 2
  LogSize = 2
  MaxLogged = 7
SPECIFICATION SamplerSpec
INVARIANTS
  TypeOK
  ReadsExact
  SamplesTruthful
  
CHECK_DEADLOCK FALSE
