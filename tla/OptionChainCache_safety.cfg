SPECIFICATION Spec
CONSTANTS
  r1 = r1
  r2 = r2
  r3 = r3
  spx = spx
  vix = vix
  rut = rut
  Requests = {r1, r2, r3}
  Keys = {spx, vix, rut}
  NoRequest = NoRequest
  NoKey = NoKey
  TTL = 2
  MaxEntries = 2
  MaxBytes = 4
  MaxInflight = 2
  SlotCapacity = 3
  Payloads <- MCPayloads
  Unknown = Unknown
  StaleAfter = 1
  MaxContracts = 5
SYMMETRY Symmetry
INVARIANTS
  TypeOK
  CacheWithinBounds
  OneFetchPerChain
  FetchedChainIsNotCached
PROPERTIES
  HitsAreCurrent
