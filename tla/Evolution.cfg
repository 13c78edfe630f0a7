SPECIFICATION EngineSpec
CONSTANTS
  None = None
  Bits = 1
  Seeds <- TwoSeeds
  PopSize = 3
  EliteCount = 1
  Methods = {"ROULETTE", "RANK", "TOURNAMENT"}
  Tournament = 2
  Crossovers = {"SINGLE_POINT", "UNIFORM"}
  Fitness <- EvaluateFitness
  MaxGens = {2, 3}
  Patience = 1
  Shortages = {"variant", "population", "best", "elites"}
  MaxFlips = 1
  MaxBlocks = 20
INVARIANTS TypeOK BestIsTop LengthOfSeed OwnershipTypeOK NothingDangles
PROPERTIES ElitesSurvive BreaksOnlyWithArray
CHECK_DEADLOCK FALSE
