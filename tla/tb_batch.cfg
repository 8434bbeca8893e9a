CONSTANTS
  N = 3
  work = work
  gate = gate
  note = note
  read = read
  shell = shell
  ghost = ghost
  Unlimited = Unlimited
  Unrestricted = Unrestricted
  Keep = Keep
  Names <- mc_Names
  Registered <- mc_Registered
  LimitCounted <- mc_LimitCounted
  ParallelSafe <- mc_ParallelSafe
  Voting <- mc_Voting
  AbortsSiblings <- mc_AbortsSiblings
  Exclusive <- mc_Exclusive
  Jobs <- mc_Jobs
  HookDecisions <- mc_Hooks
SPECIFICATION FairSpec
INVARIANTS
  OneResultPerCall
  SiblingAbortHasCause
  SkipsFollowFailure
  TerminateIsUnanimous
PROPERTIES
  ImplementsContract
  CancelEndsBatch
