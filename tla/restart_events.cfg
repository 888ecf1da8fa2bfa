SPECIFICATION Spec
CONSTANTS
  k1 = k1
  k2 = k2
  u1 = u1
  u2 = u2
  NoKey = NoKey
  NoUrl = NoUrl
  Keys = {k1, k2}
  Urls = {u1}
  MaxTransfer = 2
  Max8005 = 1
  RetryCap = 1
  Requests = {"Download"}
  InformCodes = {"CONNECTION_REQUEST"}
  Triggers = {}
  ApplyStatus = {"exit"}
  MaxCrash = 0
  MayFail = FALSE
INVARIANT
  InformClearsEvents
