SPECIFICATION PipeFairSpec
CONSTANTS
  Clients = {a, b, c}
  Waker = Waker
  NoOne = NoOne
  PipeFaults <- AllFaults
INVARIANTS
  NobodyForgotten
PROPERTIES
  RequestAnswered
  StopAtNextCall
