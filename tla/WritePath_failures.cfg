SPECIFICATION FairSpec
CONSTANTS
  Calls = {c1, c2}
  Docs = {d1}
  Seed = seed
  Free = free
  MaxCrashes = 1
  LeaseMayLapse = TRUE
INVARIANTS CommitsExact NoLostUpdate LeaseDiscipline AnswerTruthful
PROPERTIES ImplementsStore NothingHangs
CHECK_DEADLOCK FALSE
