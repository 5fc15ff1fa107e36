CONSTANTS
  BgIds = {b1, b2}
  Timers = {tm1, tm2}
  Invalid = Invalid
  NoTimer = NoTimer
  isCanBackGround = FALSE
  Tasks = {t1, t2}
  Xfers = {k1, k2}
  Nil = Nil
  MaxCancels = 1
  Faults = {"crash"}
  Caller = "careful"

SPECIFICATION CtlSpec

SYMMETRY Symmetry

INVARIANTS
  CtlTypeOK

PROPERTIES
  AppearRestartsCancelled
  ImplementsRegistry

CHECK_DEADLOCK FALSE
