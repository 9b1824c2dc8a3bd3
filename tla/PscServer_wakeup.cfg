\* A send error while the handler is in its callback, and a descriptor reused.
CONSTANTS
  c1 = c1
  c2 = c2
  s1 = s1
  Conn = {c1, c2}
  Sender = {s1}
  MaxClients = 2
  NumFd = 3
  Listener = Listener
  None = None
SPECIFICATION FairSpec
PROPERTIES SendErrorWakesHandler
