SPECIFICATION Spec
INVARIANTS
  TypeOK
  AskedOnce
  SuccessIsWritten
  CandidatesAreTrue
PROPERTIES
  StagesAdvance
  HumanDecisionsKept
  OnlyTheClaimSettles
  EverythingSettles
  NothingIsOverlooked
