----------------------------- MODULE PscServer ------------------------------
(***************************************************************************)
(* The PSC server of listener.c: the accept loop (psc_run), one handler    *)
(* thread per client (handle_client), and the daemons that broadcast with  *)
(* psc_send.  They share the client table, which sendguard protects, and   *)
(* the descriptor table of the IP stack, which it does not: a descriptor   *)
(* that was closed is given out again by the next accept.                  *)
(*                                                                         *)
(* A handler thread is identified with the connection it was started for.  *)
(* The contents of messages are left out; that a message is a header and a *)
(* body sent by two calls is kept.                                         *)
(***************************************************************************)
EXTENDS Integers, FiniteSets

CONSTANTS Conn,        \* TCP connections the clients make, each used once
          Sender,      \* daemon threads that call psc_send
          MaxClients,  \* PSC_MAX_CLIENTS
          NumFd,       \* descriptors 0..NumFd of the IP stack
          Listener,    \* what descriptor 0 refers to: the listening socket
          None

ASSUME ServerAssumption ==
  /\ MaxClients \in Nat \ {0}
  /\ NumFd \in Nat \ {0}
  /\ Conn \intersect Sender = {}
  /\ Listener \notin Conn
  /\ None \notin Conn \union Sender \union {Listener}

Slot == 0 .. MaxClients - 1
Fd == 0 .. NumFd
NoSock == -1
ListenFd == 0

VARIABLES
  fdtab,   \* what each descriptor refers to: Listener, a connection or None
  peer,    \* each connection: "new", "live", or "gone" once an end closed it
  used,    \* psc_key.clients_used
  sock,    \* psc_client.sock of each entry of the table
  guard,   \* thread that holds sendguard across several steps, or None
  tx,      \* progress of the thread inside psc_send / psc_send_one
  sent,    \* connections whose last transmitted part is a header
  apc, aconn, afd, aslot,  \* accept loop: program counter and locals
  hpc, hslot, hsock, hrx,  \* handlers: program counter, C, sock, blocked on
  failed   \* history: some send has returned an error

accVars == <<apc, aconn, afd, aslot>>
hndVars == <<hpc, hslot, hsock, hrx>>
vars == <<fdtab, peer, used, sock, guard, tx, sent, accVars, hndVars, failed>>

Idle == [step |-> "idle", idx |-> 0, fd |-> NoSock]

Init ==
  /\ fdtab = [f \in Fd |-> IF f = ListenFd THEN Listener ELSE None]
  /\ peer = [c \in Conn |-> "new"]
  /\ used = {}
  /\ sock = [s \in Slot |-> 0]
  /\ guard = None
  /\ tx = Idle
  /\ sent = {}
  /\ apc = "accept" /\ aconn = None /\ afd = NoSock /\ aslot = None
  /\ hpc = [c \in Conn |-> "none"]
  /\ hslot = [c \in Conn |-> None]
  /\ hsock = [c \in Conn |-> NoSock]
  /\ hrx = [c \in Conn |-> None]
  /\ failed = FALSE
-----------------------------------------------------------------------------
\* The descriptor table of the IP stack.

At(f) == IF f \in Fd THEN fdtab[f] ELSE None

\* close(f) ends the connection at both ends; an unknown descriptor is an error
\* that every caller ignores.
Close(f) ==
  /\ fdtab' = IF f \in Fd THEN [fdtab EXCEPT ![f] = None] ELSE fdtab
  /\ peer' = [c \in Conn |-> IF At(f) = c THEN "gone" ELSE peer[c]]

Attached(c) == \E f \in Fd : fdtab[f] = c

\* The client closes its end; nothing more arrives.
PeerLeaves(c) ==
  /\ peer[c] = "live"
  /\ peer' = [peer EXCEPT ![c] = "gone"]
  /\ UNCHANGED <<fdtab, used, sock, guard, tx, sent, accVars, hndVars, failed>>
-----------------------------------------------------------------------------
\* psc_run: the accept loop.

\* accept() gives the lowest free descriptor; it fails for good (-1, sleep,
\* try again) once descriptor 0 is no longer the listening socket.
Accept(c) ==
  /\ apc = "accept"
  /\ At(ListenFd) = Listener
  /\ peer[c] = "new"
  /\ \E f \in Fd :
       /\ fdtab[f] = None
       /\ \A g \in Fd : fdtab[g] = None => f <= g
       /\ fdtab' = [fdtab EXCEPT ![f] = c]
       /\ afd' = f
  /\ peer' = [peer EXCEPT ![c] = "live"]
  /\ apc' = "alloc"
  /\ aconn' = c
  /\ UNCHANGED <<aslot, used, sock, guard, tx, sent, hndVars, failed>>

\* psc_client_alloc takes the first free entry and clears it, sock included.
Alloc ==
  /\ apc = "alloc"
  /\ guard = None
  /\ \E s \in Slot \ used :
       /\ \A t \in Slot \ used : s <= t
       /\ used' = used \union {s}
       /\ sock' = [sock EXCEPT ![s] = 0]
       /\ aslot' = s
  /\ apc' = "assign"
  /\ UNCHANGED <<fdtab, peer, guard, tx, sent, aconn, afd, hndVars, failed>>

\* Mutant of AllocFull: the search stops one entry short of the table's end.
AllocFullShort ==
  /\ apc = "alloc"
  /\ guard = None
  /\ Slot \ {MaxClients - 1} \subseteq used
  /\ apc' = "drop"
  /\ UNCHANGED <<fdtab, peer, used, sock, guard, tx, sent,
                 aconn, afd, aslot, hndVars, failed>>

AllocFull ==
  /\ apc = "alloc"
  /\ guard = None
  /\ Slot \subseteq used
  /\ apc' = "drop"
  /\ UNCHANGED <<fdtab, peer, used, sock, guard, tx, sent,
                 aconn, afd, aslot, hndVars, failed>>

\* The client is dropped: close(client), without sendguard.
Drop ==
  /\ apc = "drop"
  /\ Close(afd)
  /\ apc' = "accept" /\ aconn' = None /\ afd' = NoSock
  /\ UNCHANGED <<aslot, used, sock, guard, tx, sent, hndVars, failed>>

\* C->sock = client, after sendguard was released.
Assign ==
  /\ apc = "assign"
  /\ sock' = [sock EXCEPT ![aslot] = afd]
  /\ apc' = "spawn"
  /\ UNCHANGED <<fdtab, peer, used, guard, tx, sent,
                 aconn, afd, aslot, hndVars, failed>>

Spawn ==
  /\ apc = "spawn"
  /\ hpc' = [hpc EXCEPT ![aconn] = "start"]
  /\ hslot' = [hslot EXCEPT ![aconn] = aslot]
  /\ apc' = "accept" /\ aconn' = None /\ afd' = NoSock /\ aslot' = None
  /\ UNCHANGED <<fdtab, peer, used, sock, guard, tx, sent, hsock, hrx, failed>>
-----------------------------------------------------------------------------
\* handle_client: the thread of one client.

Start(c) ==
  /\ hpc[c] = "start"
  /\ hsock' = [hsock EXCEPT ![c] = sock[hslot[c]]]
  /\ hpc' = [hpc EXCEPT ![c] = "welcome"]
  /\ UNCHANGED <<fdtab, peer, used, sock, guard, tx, sent, accVars,
                 hslot, hrx, failed>>

\* psc_recvmsg: recv() looks the descriptor up once and then blocks on the
\* connection it found.
RecvCall(c) ==
  /\ hpc[c] = "recv"
  /\ LET d == At(hsock[c]) IN
       IF d \in Conn
       THEN /\ hrx' = [hrx EXCEPT ![c] = d]
            /\ hpc' = [hpc EXCEPT ![c] = "blocked"]
       ELSE /\ hpc' = [hpc EXCEPT ![c] = "free"]
            /\ UNCHANGED hrx
  /\ UNCHANGED <<fdtab, peer, used, sock, guard, tx, sent, accVars,
                 hslot, hsock, failed>>

\* A whole message has arrived: the recv callback runs, without sendguard.
RecvMsg(c) ==
  /\ hpc[c] = "blocked"
  /\ Attached(hrx[c])
  /\ peer[hrx[c]] = "live"
  /\ hrx' = [hrx EXCEPT ![c] = None]
  /\ hpc' = [hpc EXCEPT ![c] = "callback"]
  /\ UNCHANGED <<fdtab, peer, used, sock, guard, tx, sent, accVars,
                 hslot, hsock, failed>>

CallbackDone(c) ==
  /\ hpc[c] = "callback"
  /\ hpc' = [hpc EXCEPT ![c] = "recv"]
  /\ UNCHANGED <<fdtab, peer, used, sock, guard, tx, sent, accVars,
                 hslot, hsock, hrx, failed>>

\* Mutants of RecvError: the thread closes its socket before it gives the entry
\* back; the thread goes on after an error.
RecvErrorCloses(c) ==
  /\ hpc[c] = "blocked"
  /\ hrx' = [hrx EXCEPT ![c] = None]
  /\ hpc' = [hpc EXCEPT ![c] = "free"]
  /\ Close(hsock[c])
  /\ UNCHANGED <<used, sock, guard, tx, sent, accVars,
                 hslot, hsock, failed>>

RecvErrorIgnored(c) ==
  /\ hpc[c] = "blocked"
  /\ hrx' = [hrx EXCEPT ![c] = None]
  /\ hpc' = [hpc EXCEPT ![c] = "recv"]
  /\ UNCHANGED <<fdtab, peer, used, sock, guard, tx, sent, accVars,
                 hslot, hsock, failed>>

\* psc_recvmsg fails: the peer closed or was silent for SO_RCVTIMEO, a header
\* was bad, or another thread closed the connection.
RecvError(c) ==
  /\ hpc[c] = "blocked"
  /\ hrx' = [hrx EXCEPT ![c] = None]
  /\ hpc' = [hpc EXCEPT ![c] = "free"]
  /\ UNCHANGED <<fdtab, peer, used, sock, guard, tx, sent, accVars,
                 hslot, hsock, failed>>

\* Mutant of FreeClient: the entry is spoiled before its index is used.
FreeClientSpoiled(c) ==
  /\ hpc[c] = "free"
  /\ guard = None
  /\ used' = used \ {0}
  /\ sock' = [sock EXCEPT ![hslot[c]] = 0]
  /\ hslot' = [hslot EXCEPT ![c] = None]
  /\ hpc' = [hpc EXCEPT ![c] = "close"]
  /\ UNCHANGED <<fdtab, peer, guard, tx, sent, accVars, hsock, hrx, failed>>

\* psc_client_free.
FreeClient(c) ==
  /\ hpc[c] = "free"
  /\ guard = None
  /\ used' = used \ {hslot[c]}
  /\ sock' = [sock EXCEPT ![hslot[c]] = 0]
  /\ hslot' = [hslot EXCEPT ![c] = None]
  /\ hpc' = [hpc EXCEPT ![c] = "close"]
  /\ UNCHANGED <<fdtab, peer, guard, tx, sent, accVars, hsock, hrx, failed>>

\* close(sock) of the thread's own copy, whatever the descriptor is by now.
CloseClient(c) ==
  /\ hpc[c] = "close"
  /\ guard = None
  /\ Close(hsock[c])
  /\ hsock' = [hsock EXCEPT ![c] = NoSock]
  /\ hpc' = [hpc EXCEPT ![c] = "done"]
  /\ UNCHANGED <<used, sock, guard, tx, sent, accVars,
                 hslot, hrx, failed>>
-----------------------------------------------------------------------------
\* psc_send (all entries of the table) and psc_send_one (one entry), which
\* hold sendguard from their first step to their last.

Broadcasting == guard \in Sender

SendLock(t) ==
  /\ guard = None
  /\ t \in Sender
  /\ guard' = t
  /\ tx' = [step |-> "slot", idx |-> 0, fd |-> NoSock]
  /\ UNCHANGED <<fdtab, peer, used, sock, sent, accVars, hndVars, failed>>

\* Mutant of WelcomeLock: psc_send_one does not wait for sendguard.
WelcomeUnlocked(c) ==
  /\ hpc[c] = "welcome"
  /\ guard' = c
  /\ tx' = [step |-> "slot", idx |-> hslot[c], fd |-> NoSock]
  /\ UNCHANGED <<fdtab, peer, used, sock, sent, accVars, hndVars, failed>>

\* client_event: the static message for a client that has just connected.
WelcomeLock(c) ==
  /\ guard = None
  /\ hpc[c] = "welcome"
  /\ guard' = c
  /\ tx' = [step |-> "slot", idx |-> hslot[c], fd |-> NoSock]
  /\ UNCHANGED <<fdtab, peer, used, sock, sent, accVars, hndVars, failed>>

\* Mutant of NextEntry: the loop runs one past the end of the table.
NextEntryPastEnd ==
  IF Broadcasting /\ tx.idx < MaxClients
  THEN /\ tx' = [step |-> "slot", idx |-> tx.idx + 1, fd |-> NoSock]
       /\ UNCHANGED <<guard, hpc>>
  ELSE /\ tx' = Idle
       /\ guard' = None
       /\ hpc' = IF Broadcasting THEN hpc ELSE [hpc EXCEPT ![guard] = "recv"]

\* On to the next entry; after the last one sendguard is released.
NextEntry ==
  IF Broadcasting /\ tx.idx + 1 \in Slot
  THEN /\ tx' = [step |-> "slot", idx |-> tx.idx + 1, fd |-> NoSock]
       /\ UNCHANGED <<guard, hpc>>
  ELSE /\ tx' = Idle
       /\ guard' = None
       /\ hpc' = IF Broadcasting THEN hpc ELSE [hpc EXCEPT ![guard] = "recv"]

Sendable(s) == (Broadcasting => s \in used) /\ sock[s] # NoSock

SkipEntry ==
  /\ tx.step = "slot"
  /\ ~Sendable(tx.idx)
  /\ NextEntry
  /\ UNCHANGED <<fdtab, peer, used, sock, sent, accVars,
                 hslot, hsock, hrx, failed>>

\* psc_sendmsg is called with the value C->sock has now.
BeginEntry ==
  /\ tx.step = "slot"
  /\ Sendable(tx.idx)
  /\ tx' = [tx EXCEPT !.step = "head", !.fd = sock[tx.idx]]
  /\ UNCHANGED <<fdtab, peer, used, sock, guard, sent, accVars, hndVars, failed>>

SendHead ==
  /\ tx.step = "head"
  /\ At(tx.fd) \in Conn
  /\ sent' = sent \union {At(tx.fd)}
  /\ tx' = [tx EXCEPT !.step = "body"]
  /\ UNCHANGED <<fdtab, peer, used, sock, guard, accVars, hndVars, failed>>

SendBody ==
  /\ tx.step = "body"
  /\ At(tx.fd) \in Conn
  /\ sent' = sent \ {At(tx.fd)}
  /\ NextEntry
  /\ UNCHANGED <<fdtab, peer, used, sock, accVars, hslot, hsock, hrx, failed>>

\* send() fails: peer gone, SO_SNDTIMEO with a full window, a descriptor that
\* is closed or is the listening socket.
SendFails ==
  /\ tx.step \in {"head", "body"}
  /\ tx' = [tx EXCEPT !.step = "close"]
  /\ failed' = TRUE
  /\ UNCHANGED <<fdtab, peer, used, sock, guard, sent, accVars, hndVars>>

\* close(C->sock), which reads the field again, and then C->sock = -1.
CloseEntry ==
  /\ tx.step = "close"
  /\ Close(sock[tx.idx])
  /\ tx' = [tx EXCEPT !.step = "mark"]
  /\ UNCHANGED <<used, sock, guard, sent, accVars, hndVars, failed>>

\* Mutant of MarkEntry: the message is tried again instead of given up.
MarkEntryRetry ==
  /\ tx.step = "mark"
  /\ tx' = [tx EXCEPT !.step = "slot"]
  /\ UNCHANGED <<fdtab, peer, used, sock, guard, sent, accVars, hndVars, failed>>

MarkEntry ==
  /\ tx.step = "mark"
  /\ sock' = [sock EXCEPT ![tx.idx] = NoSock]
  /\ NextEntry
  /\ UNCHANGED <<fdtab, peer, used, sent, accVars, hslot, hsock, hrx, failed>>
-----------------------------------------------------------------------------
AcceptLoop == (\E c \in Conn : Accept(c)) \/ Alloc \/ AllocFull \/ Drop
              \/ Assign \/ Spawn

Handler(c) == Start(c) \/ RecvCall(c) \/ RecvMsg(c) \/ CallbackDone(c)
              \/ RecvError(c) \/ FreeClient(c) \/ CloseClient(c)

Sending == SkipEntry \/ BeginEntry \/ SendHead \/ SendBody \/ SendFails
           \/ CloseEntry \/ MarkEntry

Next ==
  \/ AcceptLoop
  \/ Sending
  \/ \E c \in Conn : Handler(c) \/ WelcomeLock(c) \/ PeerLeaves(c)
  \/ \E t \in Sender : SendLock(t)

Spec == Init /\ [][Next]_vars

\* The threads run at one priority with time slicing; a thread that waits for
\* sendguard gets it, because its holders delay between two calls; the socket
\* timeouts end every blocking call.
Fairness ==
  /\ WF_vars(Sending)
  /\ WF_vars(Assign \/ Spawn \/ Drop)
  /\ SF_vars(Alloc \/ AllocFull)
  /\ \A c \in Conn : /\ WF_vars(Handler(c))
                     /\ SF_vars(FreeClient(c))
                     /\ SF_vars(CloseClient(c))
                     /\ SF_vars(WelcomeLock(c))
  /\ \A t \in Sender : SF_vars(SendLock(t))

FairSpec == Spec /\ Fairness
-----------------------------------------------------------------------------
SendSteps == {"idle", "slot", "head", "body", "close", "mark"}

\* Type invariant of the server's state.
TypeOK ==
  /\ fdtab \in [Fd -> Conn \union {Listener, None}]
  /\ peer \in [Conn -> {"new", "live", "gone"}]
  /\ used \subseteq Slot
  /\ sock \in [Slot -> Fd \union {NoSock}]
  /\ guard \in Conn \union Sender \union {None}
  /\ tx \in [step : SendSteps, idx : Slot, fd : Fd \union {NoSock}]
  /\ sent \subseteq Conn
  /\ apc \in {"accept", "alloc", "drop", "assign", "spawn"}
  /\ aconn \in Conn \union {None}
  /\ afd \in Fd \union {NoSock}
  /\ aslot \in Slot \union {None}
  /\ hpc \in [Conn -> {"none", "start", "welcome", "recv", "blocked",
                       "callback", "free", "close", "done"}]
  /\ hslot \in [Conn -> Slot \union {None}]
  /\ hsock \in [Conn -> Fd \union {NoSock}]
  /\ hrx \in [Conn -> Conn \union {None}]
  /\ failed \in BOOLEAN

\* Handlers whose thread exists and has not freed its entry, and the
\* connection the accept loop is about to start a handler for.
Running == {c \in Conn : hpc[c] \notin {"none", "close", "done"}}
Admitted == IF apc \in {"assign", "spawn"} THEN {aconn} ELSE {}

EntryOf(c) == IF c \in Admitted THEN aslot ELSE hslot[c]

\* The bits of clients_used are exactly the entries of the clients that are
\* being served: no entry is shared, none is leaked, and the descriptor an
\* entry holds is its own handler's or -1 after a send error, although the
\* accept loop and the handlers touch the entry outside sendguard.
TableMatchesThreads ==
  /\ used = {EntryOf(c) : c \in Running \union Admitted}
  /\ \A c, d \in Running \union Admitted : EntryOf(c) = EntryOf(d) => c = d
  /\ \A c \in Running :
       hpc[c] # "start" => sock[hslot[c]] \in {hsock[c], NoSock}

\* As long as no send has failed, every handler's descriptor is still the
\* connection it was started for and the server can still accept.  (After a
\* send error it need not be: psc_send closes a descriptor whose number the
\* handler keeps, uses and closes again.)
IsolatedUntilSendError ==
  ~failed =>
    /\ fdtab[ListenFd] = Listener
    /\ \A c \in Conn :
         /\ hpc[c] \notin {"none", "start", "done"} => At(hsock[c]) = c
         /\ hrx[c] \in {c, None}

\* Until a send fails, two threads never interleave their messages on one
\* connection: a header is only sent where the previous message is complete,
\* and a body only right after its header, because sendguard is held for both.
WholeMessages ==
  [][~failed => /\ SendHead => At(tx.fd) \notin sent
                /\ SendBody => At(tx.fd) \in sent]_vars

\* Every daemon gets to broadcast again and again, whatever clients come, go
\* or stop reading: sendguard is always released and never deadlocks.
EveryDaemonBroadcasts ==
  \A t \in Sender : []<>(guard = t) /\ []<>(guard # t)

\* When no client is left (each closed its end or was closed) the table
\* becomes and stays empty: no handler and no entry survives its client, even if
\* it was mixed up with another one.
TableDrains ==
  (<>[](\A c \in Conn : peer[c] # "live")) => <>[](used = {})

\* listener.c:251 says of the close() after a send error that it "will wake up
\* RX thread": a handler whose entry was marked and whose connection is closed
\* leaves its receive loop.
SendErrorWakesHandler ==
  \A c \in Conn :
    (/\ c \in Running
     /\ hpc[c] # "start"
     /\ sock[hslot[c]] = NoSock
     /\ ~Attached(c))
      ~> (hpc[c] \in {"free", "close", "done"})

\* listener.c:250 calls the failure of a send a "client error": what is closed
\* then belongs to a client and never is the server's listening socket.
SendErrorClosesClient ==
  [][CloseEntry => At(sock[tx.idx]) # Listener]_vars
-----------------------------------------------------------------------------
\* The server implements the abstract client pool.
Pool == INSTANCE ClientPool WITH
  members  <- Running \union Admitted,
  refused  <- {c \in Conn : /\ peer[c] # "new" /\ hpc[c] = "none"
                            /\ c = aconn => apc = "drop"},
  departed <- {c \in Conn : hpc[c] \in {"close", "done"}}

\* Clients are admitted while the table has room, refused only when it is
\* full and leave once; the window between taking an entry and starting its
\* thread is part of being admitted.
ImplementsClientPool == Pool!PoolSpec
=============================================================================
