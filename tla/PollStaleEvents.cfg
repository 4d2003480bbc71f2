CONSTANTS
  c1 = c1
  c2 = c2
  c3 = c3
  A = A
  Q = Q
  Alnum = {A, Q}
  Quit = Q
  Mute <- MuteRequests
  Hash = Hash
  Plus = Plus
  Semi = Semi
  Eol = Eol
  Bad = Bad
  RxSize = 3
  Conns = {c1, c2}
  ListenOrder <- RigOnly
  RigSock = RigSock
  CatSock = CatSock
  NoSocket = NoSocket
  Beyond = Beyond
  MaxFds = 3
  Streams <- ShortStreams
  SndBuf = 1
  Signals = FALSE
  MayReset = {c1}
SPECIFICATION Spec
CHECK_DEADLOCK FALSE
PROPERTIES ClosesForCause
