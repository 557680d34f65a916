SPECIFICATION PumpSpec
CONSTANTS
  a = a
  b = b
  None = None
  Ids = {a, b}
  RequestCapacity = 1
  AnswerCapacity = 1
INVARIANTS TasksPaired
PROPERTIES ImplementsChannel WaitEnds StopReturns
