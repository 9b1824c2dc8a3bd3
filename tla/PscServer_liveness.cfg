\* Two connections, one entry, one daemon: a refused client, a reused entry.
CONSTANTS
  c1 = c1
  c2 = c2
  s1 = s1
  Conn = {c1, c2}
  Sender = {s1}
  MaxClients = 1
  NumFd = 3
  Listener = Listener
  None = None
SPECIFICATION FairSpec
PROPERTIES EveryDaemonBroadcasts TableDrains
