\* Three connections compete for two entries of the table; one daemon.
CONSTANTS
  c1 = c1
  c2 = c2
  c3 = c3
  s1 = s1
  Conn = {c1, c2, c3}
  Sender = {s1}
  MaxClients = 2
  NumFd = 3
  Listener = Listener
  None = None
SPECIFICATION Spec
SYMMETRY Symmetry
INVARIANTS TypeOK TableMatchesThreads IsolatedUntilSendError
PROPERTIES WholeMessages ImplementsClientPool
