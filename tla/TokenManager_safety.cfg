CONSTANTS
  startup = startup
  recovery = recovery
  read = read
  login = login
  refresh = refresh
  probe = probe
  other = other
  NoThread = NoThread
  Startup = {startup}
  Recovery = {}
  Reads = {}
  Logins = {login}
  Refreshes = {refresh}
  Probes = {probe}
  Others = {other}
  MaxVersion = 2
  MaxCrashes = 1
SPECIFICATION Spec
INVARIANTS TypeOK TransactionsExclude CallbacksSeeTheDocument AckedSurvives
PROPERTIES DocumentStaysWhole ImplementsRegister
