CONSTANTS
  BgIds = {b1, b2}
  Timers = {tm1, tm2}
  Invalid = Invalid
  NoTimer = NoTimer
  isCanBackGround = FALSE
  Tasks = {t1}
  Xfers = {k1, k2}
  Nil = Nil
  MaxCancels = 2
  Faults = {"crash", "disk"}
  Caller = "any"

SPECIFICATION Spec

SYMMETRY Symmetry

INVARIANTS
  TypeOK
  PlistMirrorsMemory
  InProgressIsLive
  CompletedHasFile

PROPERTIES
  EndIsRecorded
  ForgottenStays
  ImplementsRegistry

CHECK_DEADLOCK FALSE
