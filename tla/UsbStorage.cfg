SPECIFICATION Spec
CONSTANTS
  QueueLength = 3
  Updates <- MCUpdates
INVARIANTS PortIsShared ErrorIsOfThisSession
PROPERTIES StopReturns
