CONSTANTS
  startup = startup
  recovery = recovery
  read = read
  login = login
  refresh = refresh
  probe = probe
  other = other
  NoThread = NoThread
  Startup = {startup}
  Recovery = {recovery}
  Reads = {read}
  Logins = {}
  Refreshes = {}
  Probes = {}
  Others = {}
  MaxVersion = 2
  MaxCrashes = 0
SPECIFICATION Spec
PROPERTIES RefreshKeepsAuthorization
