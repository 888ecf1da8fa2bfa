SPECIFICATION Spec
CONSTANTS
  k1 = k1
  k2 = k2
  u1 = u1
  NoKey = NoKey
  NoUrl = NoUrl
  Keys = {k1, k2}
  Urls = {u1}
  MaxTransfer = 1
  Max8005 = 1
  RetryCap = 1
  Requests = {"Download", "Upload"}
  InformCodes = {"CONNECTION_REQUEST"}
  Triggers = {"periodic"}
  ApplyStatus = {"exit", "fault", "ok"}
  MaxCrash = 2
  MayFail = TRUE
SYMMETRY Symmetry
INVARIANTS
  TypeOK
  TransferNeverLost
  TransferOnce
  SlotAccounting
  WakeupPending
  TruthfulReport
  CompleteTimeKnown
  NoOrphanEvent
PROPERTIES
  NotReportedTwice
