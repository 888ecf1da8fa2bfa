SPECIFICATION Spec
CONSTANTS
  p1 = p1
  p2 = p2
  Params = {p1, p2}
  InCap = 1
  OutCap = 1
  MaxReq = 3
  MaxDeath = 1
SYMMETRY Symmetry
INVARIANTS
  TypeOK
  NeverBothBlocked
  ConversationsInStep
  AnswersAreTrue
  FaultsLeaveNoTrace
  NothingLeftBehind
