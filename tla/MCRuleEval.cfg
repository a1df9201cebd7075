\* Rules of up to four comparisons over values of two bits.
SPECIFICATION FairSpec
CONSTANTS
  Variables <- Vars
  Ranks <- RankVars
  MaxU64 = 3
  Inputs <- SomeRules
  Data <- SomeData
  NoRank = NoRank
  Absent = Absent
  None = None
INVARIANTS
  TypeOK
  MeansWhatItSays
  ReasonsExplain
  AssumesTheWorst
  NothingIsSkipped
  NothingUnexpected
PROPERTY
  EvaluationEnds
