CONSTANTS
  startup = startup
  recovery = recovery
  read = read
  login = login
  refresh = refresh
  probe = probe
  other = other
  NoThread = NoThread
  Startup = {startup}
  Recovery = {recovery}
  Reads = {read}
  Logins = {login}
  Refreshes = {}
  Probes = {}
  Others = {other}
  MaxVersion = 3
  MaxCrashes = 1
SPECIFICATION Spec
INVARIANTS RefreshingMeansWriting
