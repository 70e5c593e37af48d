SPECIFICATION BrowserSpec
CONSTANTS
  Goroutines = {t1, t2}
  MaxClients = 2
  MaxPollers = 2
  Nobody = Nobody
INVARIANTS
  BrowserTypeOK
  ConnectionsHaveOwner
  SessionsFit
SYMMETRY Symmetry
