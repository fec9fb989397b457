SPECIFICATION Spec
CONSTANTS
  MAX_WORKER_TASKS = 2
  UINT32_VALUES = 1
  NULL = NULL
  Clients = {r1, r2}
  Inputs <- Sound
  TextLengths = {2}
  REQUEST_STRING_SIZE = 4
  RESPONSE_LENGTH = 2
  BUFFER_SIZE = 1
  PeerFaults = {}
  AddressLists = {0, 1}
  MAX_IP_ADDRESS_CANDIDATES = 1
  ParseEarly = {"Needs_More_Data"}
  ParseFull = {"Done"}
  Overlapping = FALSE
  MAX_OPEN_FILES = 4
  MaxRequests = 2
INVARIANTS
  DisconnectsConnected
CHECK_DEADLOCK FALSE
