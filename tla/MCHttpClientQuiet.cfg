SPECIFICATION Spec
CONSTANTS
  MAX_WORKER_TASKS = 2
  UINT32_VALUES = 1
  NULL = NULL
  Clients = {r1, r2}
  Inputs <- Sound
  TextLengths = {1, 3}
  REQUEST_STRING_SIZE = 4
  RESPONSE_LENGTH = 3
  BUFFER_SIZE = 2
  PeerFaults = {}
  AddressLists = {1, 2}
  MAX_IP_ADDRESS_CANDIDATES = 2
  ParseEarly = {"Needs_More_Data"}
  ParseFull = {"Done"}
  Overlapping = FALSE
  MAX_OPEN_FILES = 4
  MaxRequests = 3
INVARIANTS
  NeverDies
  EntireRequestSent
PROPERTIES
  EveryRequestAnswered
  LoopEnds
CHECK_DEADLOCK FALSE
