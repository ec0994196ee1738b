\* one /restart
SPECIFICATION Spec
CONSTANTS
  w1 = w1
  w2 = w2
  r1 = r1
  r2 = r2
  Workers <- TwoWorkers
  Runs <- OneRun
  MaxRestarts = 1
INVARIANTS
  NoUseAfterFree
