CONSTANTS
  c1 = c1
  c2 = c2
  A = A
  Q = Q
  M = M
  Alnum = {A, Q, M}
  Quit = Q
  Mute <- MCMute
  Hash = Hash
  Plus = Plus
  Semi = Semi
  Eol = Eol
  Bad = Bad
  RxSize = 3
  Conns = {c1, c2}
  ListenOrder <- Both
  RigSock = RigSock
  CatSock = CatSock
  NoSocket = NoSocket
  Beyond = Beyond
  MaxFds = 4
  Streams <- MCScripts
  SndBuf = 1
  Signals = FALSE
  MayReset = {}
  Meaning <- MCMeaning
  RigRequests <- MCRigRequests
  CatRequests <- MCCatRequests
  RitLimit = 9999
  IdleFunctions <- Idle
SPECIFICATION MCFairSpec
CHECK_DEADLOCK FALSE
INVARIANTS CarriesOutWhatWasSent Serializable OwnAnswers AnswersAreCurrent
PROPERTIES SendsWhatWasWritten ServesWhatArrived
