SPECIFICATION Spec
CONSTANTS
  MAX_WORKER_TASKS = 2
  UINT32_VALUES = 1
  NULL = NULL
  Clients = {r1, r2}
  Inputs <- Kinds
  TextLengths = {3}
  REQUEST_STRING_SIZE = 3
  RESPONSE_LENGTH = 2
  BUFFER_SIZE = 1
  PeerFaults = {"no_route", "refuse", "early_fin", "reset"}
  AddressLists = {0, 1}
  MAX_IP_ADDRESS_CANDIDATES = 1
  ParseEarly = {"Needs_More_Data", "Done", "Invalid_Data", "assert"}
  ParseFull = {"Done", "Invalid_Data", "TODO", "assert"}
  Overlapping = TRUE
  MAX_OPEN_FILES = 2
  MaxRequests = 3
SYMMETRY Symmetry
INVARIANTS
  TypeOK
  SoundAssertions
  NetworkDeaths
  CalledBackOnce
  AnswerBehindCallback
  InnerTaskMatchesState
  BytesConserved
  ClientInv
PROPERTIES
  NoSilentLoss
  RefinesRequestService
CHECK_DEADLOCK FALSE
