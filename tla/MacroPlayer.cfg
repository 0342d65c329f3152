SPECIFICATION FairSpec
CONSTANTS
  hold = hold
  burst = burst
  once = once
  A = A
  B = B
  t1 = t1
  t2 = t2
  NoTrigger = NoTrigger
  NoThread = NoThread
  Triggers <- MCTriggers
  Codes <- MCCodes
  Macro <- MCMacro
  Threads <- MCThreads
INVARIANTS
  TypeOK
  OneWorker
  NoStuckKey
  CurrentIsTrue
PROPERTIES
  StopIsNotLost
  StopIsSynchronous
  OnlyOwnMacroIsStopped
  PlaysAsPromised
  PlayingEnds
CHECK_DEADLOCK FALSE
