\* The console alone, or cron alone; three days of two ticks.
SPECIFICATION FairSpec
CONSTANTS
  Id = {a}
  Setups <- Either
  PerDay = 2
  Mondays <- Mondays2
  Firsts <- Firsts1
  Daily = 1
  Weekly = 1
  Monthly = 1
  MaxAge = 2
  MaxTime = 4
  MaxLag = 1
  MaxRequests = 1
  MaxMishaps = 1
CHECK_DEADLOCK FALSE
INVARIANTS
  
  RetentionKept

  
