CONSTANTS
  BgIds = {b1, b2}
  Timers = {tm1, tm2}
  Invalid = Invalid
  NoTimer = NoTimer
  isCanBackGround = TRUE
  Tasks = {t1, t2}
  Xfers = {k1, k2}
  Nil = Nil
  MaxCancels = 1
  Faults = {"network"}
  Caller = "careful"

SPECIFICATION Spec

SYMMETRY Symmetry

INVARIANTS
  HeldIsKnown
  ActiveHoldsNone
  TransferIsMarked

PROPERTIES
  BackgroundCoversTransfers
  SuspendStopsTransfer

CHECK_DEADLOCK FALSE
