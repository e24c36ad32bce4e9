SPECIFICATION FairSpec
CONSTANTS
  MaxRetries = 5
  Timeout = 120
  AnswerTimes = {1}
  RetryAfters = {24}
  DelayCap = 20
  LongestDelay = 24
INVARIANTS TypeOK EveryAttemptUsed CallWithinTime
PROPERTIES CallEnds
CHECK_DEADLOCK FALSE
