SPECIFICATION FairSpec
CONSTANTS
  None = None
  TurnIds = {t1, t2}
  Processes = {p1}
  Watchers = {w1}
  LiveTTL = 2
  UnansweredAfter = 2
  Faults = {"die", "redis", "stall"}
  MaxFaults = 1
  MaxOutcomes = 1
CHECK_DEADLOCK FALSE
INVARIANTS OneTurnRuns LostMeansDead NoticedMeansStopped
PROPERTIES WatchersReturn NewestIsSettled
