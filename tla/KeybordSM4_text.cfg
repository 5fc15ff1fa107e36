CONSTANTS
  LongBits = 64
  SboxTable <- MCSboxTable
  FK <- MCFK
  CK <- MCCK
  Texts <- MCTexts
  Keys <- MCKeys
  Ivs <- MCIvs

SPECIFICATION Spec

INVARIANTS
  KeybordTypeOK
  RoundsAreRetraced
  BlocksSurvive
  CipherIsOneToOne
  TextSurvives
  IsSM4

PROPERTY
  LongsAreWords

CHECK_DEADLOCK FALSE
