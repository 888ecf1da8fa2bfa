SPECIFICATION Spec
CONSTANTS
  k1 = k1
  k2 = k2
  u1 = u1
  u2 = u2
  NoKey = NoKey
  NoUrl = NoUrl
  Keys = {k1, k2}
  Urls = {u1, u2}
  MaxTransfer = 1
  Max8005 = 1
  RetryCap = 1
  Requests = {"Download", "Reboot", "FactoryReset", "SetURL"}
  InformCodes = {"CONNECTION_REQUEST"}
  Triggers = {"reload"}
  ApplyStatus = {"exit"}
  MaxCrash = 1
  MayFail = FALSE
SYMMETRY Symmetry
INVARIANTS
  NodesInSync
  BootstrapNotLost
PROPERTIES
  ImplementsLedger
