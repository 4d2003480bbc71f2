CONSTANTS
  c1 = c1
  c2 = c2
  c3 = c3
  A = A
  Q = Q
  Alnum = {A, Q}
  Quit = Q
  Mute <- MuteRequests
  Hash = Hash
  Plus = Plus
  Semi = Semi
  Eol = Eol
  Bad = Bad
  RxSize = 3
  Conns = {c1, c2, c3}
  ListenOrder <- RigOnly
  RigSock = RigSock
  CatSock = CatSock
  NoSocket = NoSocket
  Beyond = Beyond
  MaxFds = 3
  Streams <- QuitStreams
  SndBuf = 1
  Signals = TRUE
  MayReset = {}
SPECIFICATION Spec
SYMMETRY Symmetry
CHECK_DEADLOCK FALSE
INVARIANTS TypeOK SlotsOK
PROPERTIES RefusesOnlyWhenFull ClosesForCause
