CONSTANTS
  t1 = t1
  t2 = t2
  t3 = t3
  Tasks = {t1, t2}
  Sigs = {s1}
  Pris = {0, 1}
  InitPri <- OneHigh
  Boot = t1
  Quantum = 1
  MaxNest = 1
SPECIFICATION FairSpec
INVARIANTS TypeOK StatesAgree NoLostSignal LocksHold PromptPreemption IdleMeansNobodyReady
PROPERTIES EveryTaskRuns
