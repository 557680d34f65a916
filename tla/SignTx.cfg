SPECIFICATION Spec
CONSTANTS
  UINT64_MAX = 7
  Assets = {"A", "B"}
  None = None
  Requests <- MCRequests
  InputMessages <- MCInputMessages
INVARIANTS SpendsAsApproved SwapAsApproved AnsweredOnce CommittedFirst
