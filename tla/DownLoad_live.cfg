CONSTANTS
  BgIds = {b1, b2}
  Timers = {tm1, tm2}
  Invalid = Invalid
  NoTimer = NoTimer
  isCanBackGround = FALSE
  Tasks = {t1}
  Xfers = {k1, k2}
  Nil = Nil
  MaxCancels = 1
  Faults = {"crash"}
  Caller = "any"

SPECIFICATION FairSpec

PROPERTIES
  StartIsServed
  FinishIsRecorded
  CancelIsServed

CHECK_DEADLOCK FALSE
