SPECIFICATION NotifySpec
CONSTANTS
  NoTag = "none"
  IdCount = 2
  QueueMax = 2
  HistMax = 2
  Kinds <- Messages
  Picking = {"actions", "dismiss", "dismissall"}
  TimerMayFail = FALSE
INVARIANTS
  HeldBoxIsNotEmpty
CHECK_DEADLOCK FALSE
