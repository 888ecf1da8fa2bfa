SPECIFICATION FairSpec
CONSTANTS
  k1 = k1
  k2 = k2
  u1 = u1
  u2 = u2
  NoKey = NoKey
  NoUrl = NoUrl
  Keys = {k1}
  Urls = {u1}
  MaxTransfer = 1
  Max8005 = 1
  RetryCap = 1
  Requests = {"Download","Upload", "ScheduleInform"}
  InformCodes = {"CONNECTION_REQUEST"}
  Triggers = {"notify"}
  ApplyStatus = {"exit", "fault"}
  MaxCrash = 1
  MayFail = FALSE
PROPERTIES
  TransferReported
  SessionEnds
