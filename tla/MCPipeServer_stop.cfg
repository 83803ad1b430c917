SPECIFICATION PipeFairSpec
CONSTANTS
  Clients = {}
  Waker = Waker
  NoOne = NoOne
  PipeFaults <- NoFaults
PROPERTY StopCompletes
