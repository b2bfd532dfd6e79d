\* One source with three values, so that steps below the threshold add up;
\* two new values and two other events of any kind; processes are scheduled
\* and timers fire.
CONSTANTS
  Source = {s1}
  MaxValue = 2
  Nil = Nil
  MaxPoll = 2
  MaxEvent = 2
SPECIFICATION FairSpec
INVARIANT RunnerTypeOK
INVARIANT NoDeltaOverlooked
INVARIANT FallbackArmed
PROPERTY DeltasSettle
