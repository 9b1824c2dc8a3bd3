-------------------------- MODULE PscServerProofs ---------------------------
(***************************************************************************)
(* Proofs about PscServer for every number of connections, daemons, table  *)
(* entries and descriptors.                                                *)
(***************************************************************************)
EXTENDS PscServer, FiniteSetTheorems, TLAPS

USE DEF NoSock, ListenFd

LEMMA ConstantFacts ==
  /\ MaxClients \in Nat /\ MaxClients >= 1 /\ 0 \in Slot
  /\ NumFd \in Nat /\ 0 \in Fd
  /\ NoSock \notin Fd
  /\ None \notin Conn /\ None \notin Sender /\ None # Listener
  /\ Listener \notin Conn
  /\ \A t \in Sender : t \notin Conn
BY ServerAssumption DEF Slot, Fd

-----------------------------------------------------------------------------
InTable(c) == hpc[c] \notin {"none", "close", "done"}
Holding == apc \in {"assign", "spawn"}

\* What the program counters say about the locals of their threads.
Shape ==
  /\ \A c \in Conn : InTable(c) => hslot[c] \in Slot
  /\ Holding => aslot \in Slot
  /\ apc # "accept" => aconn \in Conn /\ hpc[aconn] = "none" /\ peer[aconn] # "new"
  /\ \A c \in Conn : hpc[c] # "none" => peer[c] # "new"
  /\ (guard = None) <=> (tx.step = "idle")
  /\ guard \in Conn => hpc[guard] = "welcome" /\ tx.idx = hslot[guard]

\* Type correctness needs to know where the locals of a thread are set.
LEMMA ShapeInit == Init => TypeOK /\ Shape
<1> SUFFICES ASSUME Init PROVE TypeOK /\ Shape
  OBVIOUS
<1> USE ConstantFacts DEF Init
<1>1. tx \in [step : SendSteps, idx : Slot, fd : Fd \union {NoSock}]
  BY DEF Idle, SendSteps
<1>2. TypeOK
  BY <1>1 DEF TypeOK
<1>3. Shape
  BY DEF Shape, InTable, Holding, Idle
<1> QED BY <1>2, <1>3

LEMMA NextEntryType ==
  ASSUME TypeOK, Shape, NextEntry, tx.step # "idle"
  PROVE  /\ tx' \in [step : SendSteps, idx : Slot, fd : Fd \union {NoSock}]
         /\ guard' \in {guard, None}
         /\ (guard' = None) <=> (tx'.step = "idle")
         /\ guard' \notin Conn
         /\ hpc' \in [Conn -> {"none", "start", "welcome", "recv", "blocked",
                              "callback", "free", "close", "done"}]
         /\ \A c \in Conn : \/ hpc'[c] = hpc[c]
                           \/ (c = guard /\ hpc[c] = "welcome" /\ hpc'[c] = "recv")
<1> USE ConstantFacts
<1>1. /\ tx \in [step : SendSteps, idx : Slot, fd : Fd \union {NoSock}]
      /\ guard \in Conn \union Sender
      /\ hpc \in [Conn -> {"none", "start", "welcome", "recv", "blocked",
                          "callback", "free", "close", "done"}]
      /\ guard \in Conn => hpc[guard] = "welcome"
  BY DEF TypeOK, Shape
<1>2. CASE Broadcasting /\ tx.idx + 1 \in Slot
  <2>1. tx' = [step |-> "slot", idx |-> tx.idx + 1, fd |-> NoSock]
    BY <1>2 DEF NextEntry
  <2>2. guard' = guard /\ hpc' = hpc
    BY <1>2 DEF NextEntry
  <2>3. guard \notin Conn /\ guard # None
    BY <1>2 DEF Broadcasting
  <2> QED BY <1>1, <1>2, <2>1, <2>2, <2>3 DEF SendSteps
<1>3. CASE ~(Broadcasting /\ tx.idx + 1 \in Slot)
  <2>1. tx' = Idle /\ guard' = None
    BY <1>3 DEF NextEntry
  <2>2. tx' \in [step : SendSteps, idx : Slot, fd : Fd \union {NoSock}] /\ tx'.step = "idle"
    BY <2>1 DEF Idle, SendSteps
  <2>3. hpc' = IF Broadcasting THEN hpc ELSE [hpc EXCEPT ![guard] = "recv"]
    BY <1>3 DEF NextEntry
  <2> QED BY <1>1, <2>1, <2>2, <2>3 DEF Broadcasting
<1> QED BY <1>2, <1>3

LEMMA ShapeStep == TypeOK /\ Shape /\ [Next]_vars => TypeOK' /\ Shape'
<1> SUFFICES ASSUME TypeOK, Shape, [Next]_vars PROVE TypeOK' /\ Shape'
  OBVIOUS
<1> USE ConstantFacts DEF TypeOK, Shape, InTable, Holding
<1>1. CASE UNCHANGED vars
  BY <1>1 DEF vars, accVars, hndVars
<1>2. CASE AcceptLoop
  <2>1. ASSUME NEW c \in Conn, Accept(c) PROVE TypeOK' /\ Shape'
    BY <2>1 DEF Accept, hndVars
  <2>2. CASE Alloc
    BY <2>2 DEF Alloc, hndVars
  <2>3. CASE AllocFull
    BY <2>3 DEF AllocFull, hndVars
  <2>4. CASE Drop
    BY <2>4 DEF Drop, Close, hndVars
  <2>5. CASE Assign
    BY <2>5 DEF Assign, hndVars
  <2>6. CASE Spawn
    BY <2>6 DEF Spawn, hndVars
  <2> QED BY <1>2, <2>1, <2>2, <2>3, <2>4, <2>5, <2>6 DEF AcceptLoop
<1>3. ASSUME NEW c \in Conn, Handler(c) PROVE TypeOK' /\ Shape'
  <2>1. CASE Start(c)
    BY <2>1 DEF Start, accVars
  <2>2. CASE RecvCall(c)
    BY <2>2 DEF RecvCall, accVars
  <2>3. CASE RecvMsg(c)
    BY <2>3 DEF RecvMsg, accVars
  <2>4. CASE CallbackDone(c)
    BY <2>4 DEF CallbackDone, accVars
  <2>5. CASE RecvError(c)
    BY <2>5 DEF RecvError, accVars
  <2>6. CASE FreeClient(c)
    BY <2>6 DEF FreeClient, accVars
  <2>7. CASE CloseClient(c)
    BY <2>7 DEF CloseClient, Close, accVars
  <2> QED BY <1>3, <2>1, <2>2, <2>3, <2>4, <2>5, <2>6, <2>7 DEF Handler
<1>4. ASSUME NEW c \in Conn, WelcomeLock(c) PROVE TypeOK' /\ Shape'
  BY <1>4 DEF WelcomeLock, SendSteps, accVars, hndVars
<1>5. ASSUME NEW c \in Conn, PeerLeaves(c) PROVE TypeOK' /\ Shape'
  BY <1>5 DEF PeerLeaves, accVars, hndVars
<1>6. ASSUME NEW t \in Sender, SendLock(t) PROVE TypeOK' /\ Shape'
  BY <1>6 DEF SendLock, SendSteps, accVars, hndVars
<1>7. CASE Sending
  <2>1. CASE SkipEntry
    BY <2>1, NextEntryType DEF SkipEntry, accVars
  <2>2. CASE BeginEntry
    BY <2>2 DEF BeginEntry, SendSteps, accVars, hndVars
  <2>3. CASE SendHead
    BY <2>3 DEF SendHead, SendSteps, accVars, hndVars
  <2>4. CASE SendBody
    BY <2>4, NextEntryType DEF SendBody, accVars
  <2>5. CASE SendFails
    BY <2>5 DEF SendFails, SendSteps, accVars, hndVars
  <2>6. CASE CloseEntry
    BY <2>6 DEF CloseEntry, Close, SendSteps, accVars, hndVars
  <2>7. CASE MarkEntry
    BY <2>7, NextEntryType DEF MarkEntry, accVars
  <2> QED BY <1>7, <2>1, <2>2, <2>3, <2>4, <2>5, <2>6, <2>7 DEF Sending
<1> QED BY <1>1, <1>2, <1>3, <1>4, <1>5, <1>6, <1>7 DEF Next

\* Every variable of the server keeps its type, for any number of clients,
\* daemons, table entries and descriptors.
THEOREM TypeCorrect == Spec => []TypeOK
<1>1. Spec => [](TypeOK /\ Shape)
  BY ShapeInit, ShapeStep, PTL DEF Spec
<1> QED BY <1>1, PTL
-----------------------------------------------------------------------------
(***************************************************************************)
(* The client table against the threads.                                   *)
(***************************************************************************)
\* TableMatchesThreads entry by entry; inductive together with Shape.
TableInv ==
  /\ \A c \in Conn : InTable(c) => hslot[c] \in used
  /\ \A c, d \in Conn : InTable(c) /\ InTable(d) /\ hslot[c] = hslot[d] => c = d
  /\ Holding => aslot \in used
  /\ Holding => \A c \in Conn : InTable(c) => hslot[c] # aslot
  /\ \A s \in used : \/ Holding /\ aslot = s
                     \/ \E c \in Conn : InTable(c) /\ hslot[c] = s
  /\ \A c \in Conn : InTable(c) /\ hpc[c] # "start" => sock[hslot[c]] \in {hsock[c], NoSock}

LEMMA TableStep ==
  TypeOK /\ Shape /\ TableInv /\ [Next]_vars => TableInv'
<1> SUFFICES ASSUME TypeOK, Shape, TableInv, [Next]_vars PROVE TableInv'
  OBVIOUS
<1> USE ConstantFacts DEF TypeOK, Shape, InTable, Holding, TableInv
<1>1. CASE UNCHANGED vars
  BY <1>1 DEF vars, accVars, hndVars
<1>2. CASE AcceptLoop
  <2>1. ASSUME NEW c \in Conn, Accept(c) PROVE TableInv'
    BY <2>1 DEF Accept, hndVars
  <2>2. CASE Alloc
    BY <2>2 DEF Alloc, hndVars
  <2>3. CASE AllocFull
    BY <2>3 DEF AllocFull, hndVars
  <2>4. CASE Drop
    BY <2>4 DEF Drop, hndVars
  <2>5. CASE Assign
    BY <2>5 DEF Assign, hndVars
  <2>6. CASE Spawn
    BY <2>6 DEF Spawn, hndVars
  <2> QED BY <1>2, <2>1, <2>2, <2>3, <2>4, <2>5, <2>6 DEF AcceptLoop
<1>3. ASSUME NEW c \in Conn, Handler(c) PROVE TableInv'
  <2>1. CASE Start(c)
    BY <2>1 DEF Start, accVars
  <2>2. CASE RecvCall(c)
    BY <2>2 DEF RecvCall, accVars
  <2>3. CASE RecvMsg(c)
    BY <2>3 DEF RecvMsg, accVars
  <2>4. CASE CallbackDone(c)
    BY <2>4 DEF CallbackDone, accVars
  <2>5. CASE RecvError(c)
    BY <2>5 DEF RecvError, accVars
  <2>6. CASE FreeClient(c)
    BY <2>6 DEF FreeClient, accVars
  <2>7. CASE CloseClient(c)
    BY <2>7 DEF CloseClient, accVars
  <2> QED BY <1>3, <2>1, <2>2, <2>3, <2>4, <2>5, <2>6, <2>7 DEF Handler
<1>4. ASSUME NEW c \in Conn, WelcomeLock(c) PROVE TableInv'
  BY <1>4 DEF WelcomeLock, accVars, hndVars
<1>5. ASSUME NEW c \in Conn, PeerLeaves(c) PROVE TableInv'
  BY <1>5 DEF PeerLeaves, accVars, hndVars
<1>6. ASSUME NEW t \in Sender, SendLock(t) PROVE TableInv'
  BY <1>6 DEF SendLock, accVars, hndVars
<1>7. CASE Sending
  <2>1. CASE SkipEntry
    BY <2>1, NextEntryType DEF SkipEntry, accVars
  <2>2. CASE BeginEntry
    BY <2>2 DEF BeginEntry, accVars, hndVars
  <2>3. CASE SendHead
    BY <2>3 DEF SendHead, accVars, hndVars
  <2>4. CASE SendBody
    BY <2>4, NextEntryType DEF SendBody, accVars
  <2>5. CASE SendFails
    BY <2>5 DEF SendFails, accVars, hndVars
  <2>6. CASE CloseEntry
    BY <2>6 DEF CloseEntry, accVars, hndVars
  <2>7. CASE MarkEntry
    BY <2>7, NextEntryType DEF MarkEntry, accVars
  <2> QED BY <1>7, <2>1, <2>2, <2>3, <2>4, <2>5, <2>6, <2>7 DEF Sending
<1> QED BY <1>1, <1>2, <1>3, <1>4, <1>5, <1>6, <1>7 DEF Next

LEMMA TableInvImplies == TypeOK /\ Shape /\ TableInv => TableMatchesThreads
<1> SUFFICES ASSUME TypeOK, Shape, TableInv PROVE TableMatchesThreads
  OBVIOUS
<1> USE ConstantFacts
<1>1. \A c \in Conn : c \in Running <=> InTable(c)
  BY DEF Running, InTable
<1>2. \A c \in Running \union Admitted : c \in Conn
  BY DEF Running, Admitted, Shape
<1>3. \A c \in Running : EntryOf(c) = hslot[c]
  BY DEF Running, Admitted, EntryOf, Shape
<1>4. Holding => Admitted = {aconn} /\ EntryOf(aconn) = aslot
  BY DEF Holding, Admitted, EntryOf
<1>5. ~Holding => Admitted = {}
  BY DEF Holding, Admitted
<1>6. \A c \in Running \union Admitted : EntryOf(c) \in used
  BY <1>1, <1>2, <1>3, <1>4, <1>5 DEF TableInv
<1>7. \A s \in used : \E c \in Running \union Admitted : EntryOf(c) = s
  BY <1>1, <1>3, <1>4 DEF TableInv
<1>8. \A c, d \in Running \union Admitted : EntryOf(c) = EntryOf(d) => c = d
  BY <1>1, <1>2, <1>3, <1>4, <1>5 DEF TableInv
<1>9. \A c \in Running : hpc[c] # "start" => sock[hslot[c]] \in {hsock[c], NoSock}
  BY <1>1, <1>2 DEF TableInv
<1>10. used = {EntryOf(c) : c \in Running \union Admitted}
  BY <1>6, <1>7
<1> QED BY <1>8, <1>9, <1>10 DEF TableMatchesThreads

LEMMA TableInit == Init => TableInv
BY ConstantFacts DEF Init, TableInv, InTable, Holding

\* clients_used and the entries' sockets always describe exactly the clients
\* being served: no entry is shared or leaked by psc_client_alloc, the start
\* of a handler or psc_client_free in any interleaving.
THEOREM TableCorrect == Spec => []TableMatchesThreads
<1>1. Spec => [](TypeOK /\ Shape /\ TableInv)
  BY ShapeInit, ShapeStep, TableInit, TableStep, PTL DEF Spec
<1> QED BY <1>1, TableInvImplies, PTL
-----------------------------------------------------------------------------
(***************************************************************************)
(* Clients are isolated from each other until a send fails.                *)
(***************************************************************************)
LEMMA NextEntryStep ==
  ASSUME NextEntry PROVE tx'.step \in {"slot", "idle"}
BY DEF NextEntry, Idle

\* The descriptor a message is being sent on belongs to a client being served
\* (or is the listening socket): nobody can close it before sendguard is free.
IsolationInv ==
  ~failed =>
    /\ fdtab[0] = Listener
    /\ tx.step \notin {"close", "mark"}
    /\ apc # "accept" => afd \in Fd /\ fdtab[afd] = aconn
    /\ apc = "assign" => sock[aslot] = 0
    /\ apc = "spawn" => sock[aslot] = afd
    /\ \A c \in Conn : hpc[c] \notin {"none", "start", "done"} =>
                         hsock[c] \in Fd /\ fdtab[hsock[c]] = c
    /\ \A c \in Conn : hrx[c] \in {c, None}
    /\ \A c \in Conn : InTable(c) =>
                         sock[hslot[c]] \in Fd /\ fdtab[sock[hslot[c]]] = c
    /\ tx.step \in {"head", "body"} =>
         /\ tx.fd \in Fd
         /\ \/ fdtab[tx.fd] = Listener
            \/ fdtab[tx.fd] \in Conn /\ InTable(fdtab[tx.fd])
            \/ Holding /\ fdtab[tx.fd] = aconn
    /\ sent = IF tx.step = "body" THEN {fdtab[tx.fd]} ELSE {}

LEMMA IsolationStep ==
  TypeOK /\ Shape /\ TableInv /\ IsolationInv /\ [Next]_vars => IsolationInv'
<1> SUFFICES ASSUME TypeOK, Shape, TableInv, IsolationInv, [Next]_vars
             PROVE IsolationInv'
  OBVIOUS
<1> USE ConstantFacts DEF TypeOK, Shape, InTable, Holding, TableInv, IsolationInv
<1>1. CASE UNCHANGED vars
  BY <1>1 DEF vars, accVars, hndVars
<1>2. CASE AcceptLoop
  <2>1. ASSUME NEW c \in Conn, Accept(c) PROVE IsolationInv'
    BY <2>1 DEF Accept, hndVars
  <2>2. CASE Alloc
    BY <2>2 DEF Alloc, hndVars
  <2>3. CASE AllocFull
    BY <2>3 DEF AllocFull, hndVars
  <2>4. CASE Drop
    BY <2>4 DEF Drop, Close, hndVars
  <2>5. CASE Assign
    BY <2>5 DEF Assign, hndVars
  <2>6. CASE Spawn
    BY <2>6 DEF Spawn, hndVars
  <2> QED BY <1>2, <2>1, <2>2, <2>3, <2>4, <2>5, <2>6 DEF AcceptLoop
<1>3. ASSUME NEW c \in Conn, Handler(c) PROVE IsolationInv'
  <2>1. CASE Start(c)
    BY <2>1 DEF Start, accVars
  <2>2. CASE RecvCall(c)
    BY <2>2 DEF RecvCall, At, accVars
  <2>3. CASE RecvMsg(c)
    BY <2>3 DEF RecvMsg, accVars
  <2>4. CASE CallbackDone(c)
    BY <2>4 DEF CallbackDone, accVars
  <2>5. CASE RecvError(c)
    BY <2>5 DEF RecvError, accVars
  <2>6. CASE FreeClient(c)
    BY <2>6 DEF FreeClient, accVars
  <2>7. CASE CloseClient(c)
    BY <2>7 DEF CloseClient, Close, accVars
  <2> QED BY <1>3, <2>1, <2>2, <2>3, <2>4, <2>5, <2>6, <2>7 DEF Handler
<1>4. ASSUME NEW c \in Conn, WelcomeLock(c) PROVE IsolationInv'
  BY <1>4 DEF WelcomeLock, accVars, hndVars
<1>5. ASSUME NEW c \in Conn, PeerLeaves(c) PROVE IsolationInv'
  BY <1>5 DEF PeerLeaves, accVars, hndVars
<1>6. ASSUME NEW t \in Sender, SendLock(t) PROVE IsolationInv'
  BY <1>6 DEF SendLock, accVars, hndVars
<1>7. CASE Sending
  <2>1. CASE SkipEntry
    BY <2>1, NextEntryType, NextEntryStep DEF SkipEntry, accVars
  <2>2. CASE BeginEntry
    BY <2>2 DEF BeginEntry, Sendable, Broadcasting, SendSteps, accVars, hndVars
  <2>3. CASE SendHead
    BY <2>3 DEF SendHead, At, SendSteps, accVars, hndVars
  <2>4. CASE SendBody
    BY <2>4, NextEntryType, NextEntryStep DEF SendBody, At, accVars
  <2>5. CASE SendFails
    BY <2>5 DEF SendFails, accVars, hndVars
  <2>6. CASE CloseEntry
    BY <2>6 DEF CloseEntry, accVars, hndVars
  <2>7. CASE MarkEntry
    BY <2>7 DEF MarkEntry, accVars
  <2> QED BY <1>7, <2>1, <2>2, <2>3, <2>4, <2>5, <2>6, <2>7 DEF Sending
<1> QED BY <1>1, <1>2, <1>3, <1>4, <1>5, <1>6, <1>7 DEF Next

LEMMA IsolationInit == Init => IsolationInv
BY ConstantFacts DEF Init, IsolationInv, InTable, Holding, Idle

LEMMA AllInvariants == Spec => [](TypeOK /\ Shape /\ TableInv /\ IsolationInv)
BY ShapeInit, ShapeStep, TableInit, TableStep, IsolationInit, IsolationStep,
   PTL DEF Spec

\* Until the first send error every handler reads from and closes only the
\* connection it was started for, and the server goes on accepting: everything
\* that goes wrong with descriptors starts at a failed send.
THEOREM Isolated == Spec => []IsolatedUntilSendError
<1>1. TypeOK /\ IsolationInv => IsolatedUntilSendError
  BY ConstantFacts DEF TypeOK, IsolationInv, IsolatedUntilSendError, At
<1> QED BY <1>1, AllInvariants, PTL

\* Until then messages of different threads never interleave on a connection.
THEOREM MessagesWhole == Spec => WholeMessages
<1>1. /\ TypeOK /\ Shape /\ TableInv /\ IsolationInv
      /\ [Next]_vars
      => [~failed => /\ SendHead => At(tx.fd) \notin sent
                     /\ SendBody => At(tx.fd) \in sent]_vars
  BY DEF IsolationInv, SendHead, SendBody, At
<1> QED BY <1>1, AllInvariants, PTL DEF Spec, WholeMessages
-----------------------------------------------------------------------------
(***************************************************************************)
(* The server implements ClientPool.                                       *)
(***************************************************************************)
Members == Running \union Admitted
Refused == {c \in Conn : peer[c] # "new" /\ hpc[c] = "none" /\ (c = aconn => apc = "drop")}
Departed == {c \in Conn : hpc[c] \in {"close", "done"}}

\* What the mapping needs beyond the table: a descriptor only refers to a
\* connection that was accepted, and the accept loop forgets the one it is
\* done with.
AcceptInv ==
  /\ \A f \in Fd : fdtab[f] \in Conn => peer[fdtab[f]] # "new"
  /\ apc = "accept" => aconn = None

LEMMA AcceptInit == Init => AcceptInv
BY ConstantFacts DEF Init, AcceptInv

LEMMA AcceptStep == TypeOK /\ Shape /\ AcceptInv /\ [Next]_vars => AcceptInv'
<1> SUFFICES ASSUME TypeOK, Shape, AcceptInv, [Next]_vars PROVE AcceptInv'
  OBVIOUS
<1> USE ConstantFacts DEF TypeOK, Shape, AcceptInv
<1>1. CASE UNCHANGED vars
  BY <1>1 DEF vars, accVars
<1>2. CASE AcceptLoop
  BY <1>2 DEF AcceptLoop, Accept, Alloc, AllocFull, Drop, Close, Assign, Spawn
<1>3. ASSUME NEW c \in Conn, Handler(c) PROVE AcceptInv'
  BY <1>3 DEF Handler, Start, RecvCall, RecvMsg, CallbackDone, RecvError,
              FreeClient, CloseClient, Close, accVars
<1>4. ASSUME NEW c \in Conn, WelcomeLock(c) \/ PeerLeaves(c) PROVE AcceptInv'
  BY <1>4 DEF WelcomeLock, PeerLeaves, accVars
<1>5. ASSUME NEW t \in Sender, SendLock(t) PROVE AcceptInv'
  BY <1>5 DEF SendLock, accVars
<1>6. CASE Sending
  BY <1>6 DEF Sending, SkipEntry, BeginEntry, SendHead, SendBody, SendFails,
              CloseEntry, Close, MarkEntry, accVars
<1> QED BY <1>1, <1>2, <1>3, <1>4, <1>5, <1>6 DEF Next

LEMMA SlotSize == IsFiniteSet(Slot) /\ Cardinality(Slot) = MaxClients
<1>1. /\ IsFiniteSet(0 .. MaxClients - 1)
      /\ Cardinality(0 .. MaxClients - 1) =
           IF 0 > MaxClients - 1 THEN 0 ELSE (MaxClients - 1) - 0 + 1
  BY ConstantFacts, FS_Interval
<1> QED BY <1>1, ConstantFacts DEF Slot

\* Clients being served and entries taken are equally many, however many
\* connections there are.
LEMMA PoolSize ==
  ASSUME TypeOK, TableMatchesThreads
  PROVE  IsFiniteSet(Members) /\ Cardinality(Members) = Cardinality(used)
<1> DEFINE f == [c \in Members |-> EntryOf(c)]
<1>1. f \in Bijection(Members, used)
  <2>1. f \in Injection(Members, used)
    BY DEF Injection, IsInjective, TableMatchesThreads, Members
  <2>2. f \in Surjection(Members, used)
    BY DEF Surjection, TableMatchesThreads, Members
  <2> QED BY <2>1, <2>2 DEF Bijection
<1>2. IsFiniteSet(used)
  BY SlotSize, FS_Subset DEF TypeOK
<1>3. IsFiniteSet(Members) /\ Cardinality(Members) <= Cardinality(used)
  BY <1>1, <1>2, FS_Injection DEF Bijection
<1> QED BY <1>1, <1>2, <1>3, FS_Injection DEF Bijection

\* A step that moves no handler in or out of the table and leaves the accept
\* loop where it stands for the mapping is a stutter of the pool.
LEMMA SameMembers ==
  ASSUME TypeOK, Shape, AcceptInv,
         \A c \in Conn : /\ InTable(c)' <=> InTable(c)
                         /\ (hpc'[c] = "none") <=> (hpc[c] = "none")
                         /\ (peer'[c] = "new") <=> (peer[c] = "new"),
         Holding' <=> Holding, apc' = "drop" <=> apc = "drop", aconn' = aconn
  PROVE  Members' = Members /\ Refused' = Refused /\ Departed' = Departed
<1> USE DEF Members, Refused, Departed, Running, Admitted, InTable, Holding
<1>1. Running' = Running /\ Departed' = Departed
  OBVIOUS
<1>2. Admitted' = Admitted
  OBVIOUS
<1> QED BY <1>1, <1>2

LEMMA HandlerPool ==
  ASSUME TypeOK, Shape, TableInv, AcceptInv, NEW c \in Conn, Handler(c)
  PROVE  \/ /\ c \in Members /\ Members' = Members \ {c}
            /\ Departed' = Departed \union {c}
            /\ Refused' = Refused
         \/ Members' = Members /\ Refused' = Refused /\ Departed' = Departed
<1> USE ConstantFacts DEF TypeOK, Shape, AcceptInv, accVars, InTable, Holding
<1>1. CASE FreeClient(c)
  <2>1. /\ hpc[c] = "free" /\ hpc' = [hpc EXCEPT ![c] = "close"]
        /\ UNCHANGED <<peer, apc, aconn>>
    BY <1>1 DEF FreeClient
  <2>2. c \notin Admitted /\ Admitted' = Admitted
    BY <2>1 DEF Admitted
  <2>3. c \in Running /\ Running' = Running \ {c}
    BY <2>1 DEF Running
  <2>4. Departed' = Departed \union {c}
    BY <2>1 DEF Departed
  <2>5. Refused' = Refused
    BY <2>1 DEF Refused
  <2> QED BY <2>2, <2>3, <2>4, <2>5 DEF Members
<1>2. CASE CloseClient(c)
  <2>1. /\ hpc[c] = "close" /\ hpc' = [hpc EXCEPT ![c] = "done"]
        /\ UNCHANGED <<apc, aconn>>
        /\ \A d \in Conn : (peer'[d] = "new") <=> (peer[d] = "new")
    BY <1>2 DEF CloseClient, Close, At
  <2> QED BY <2>1, SameMembers
<1>3. ASSUME ~FreeClient(c), ~CloseClient(c)
      PROVE  Members' = Members /\ Refused' = Refused /\ Departed' = Departed
  <2>1. /\ UNCHANGED <<peer, apc, aconn>>
        /\ \A d \in Conn : /\ InTable(d)' <=> InTable(d)
                           /\ (hpc'[d] = "none") <=> (hpc[d] = "none")
    BY <1>3 DEF Handler, Start, RecvCall, RecvMsg, CallbackDone, RecvError
  <2> QED BY <2>1, SameMembers
<1> QED BY <1>1, <1>2, <1>3

LEMMA SendingPool ==
  ASSUME TypeOK, Shape, AcceptInv,
         \/ Sending
         \/ \E c \in Conn : WelcomeLock(c) \/ PeerLeaves(c)
         \/ \E t \in Sender : SendLock(t)
  PROVE  Members' = Members /\ Refused' = Refused /\ Departed' = Departed
<1> USE ConstantFacts DEF TypeOK, Shape, AcceptInv, accVars, hndVars, InTable, Holding
<1>1. CASE SkipEntry \/ SendBody \/ MarkEntry
  <2>1. NextEntry /\ tx.step # "idle" /\ UNCHANGED <<peer, apc, aconn>>
    BY <1>1 DEF SkipEntry, SendBody, MarkEntry
  <2>2. \A c \in Conn : \/ hpc'[c] = hpc[c]
                        \/ (c = guard /\ hpc[c] = "welcome" /\ hpc'[c] = "recv")
    BY <2>1, NextEntryType
  <2> QED BY <2>1, <2>2, SameMembers
<1>2. CASE CloseEntry
  <2>1. /\ UNCHANGED <<apc, aconn, hpc>>
        /\ \A d \in Conn : (peer'[d] = "new") <=> (peer[d] = "new")
    BY <1>2 DEF CloseEntry, Close, At
  <2> QED BY <2>1, SameMembers
<1>3. CASE BeginEntry \/ SendHead \/ SendFails
  <2>1. UNCHANGED <<apc, aconn, hpc, peer>>
    BY <1>3 DEF BeginEntry, SendHead, SendFails
  <2> QED BY <2>1, SameMembers
<1>4. ASSUME NEW c \in Conn, WelcomeLock(c) \/ PeerLeaves(c)
      PROVE  Members' = Members /\ Refused' = Refused /\ Departed' = Departed
  <2>1. /\ UNCHANGED <<apc, aconn, hpc>>
        /\ \A d \in Conn : (peer'[d] = "new") <=> (peer[d] = "new")
    BY <1>4 DEF WelcomeLock, PeerLeaves
  <2> QED BY <2>1, SameMembers
<1>5. ASSUME NEW t \in Sender, SendLock(t)
      PROVE  Members' = Members /\ Refused' = Refused /\ Departed' = Departed
  <2>1. UNCHANGED <<apc, aconn, hpc, peer>>
    BY <1>5 DEF SendLock
  <2> QED BY <2>1, SameMembers
<1> QED BY <1>1, <1>2, <1>3, <1>4, <1>5 DEF Sending

LEMMA AcceptPool ==
  ASSUME TypeOK, Shape, TableInv, AcceptInv, AcceptLoop
  PROVE  \/ /\ aconn \notin Members \union Refused \union Departed /\ aconn \in Conn
            /\ \/ /\ Cardinality(Members) < MaxClients
                  /\ Members' = Members \union {aconn}
                  /\ Refused' = Refused
               \/ /\ Cardinality(Members) = MaxClients
                  /\ Refused' = Refused \union {aconn}
                  /\ Members' = Members
            /\ Departed' = Departed
         \/ Members' = Members /\ Refused' = Refused /\ Departed' = Departed
<1> USE ConstantFacts DEF TypeOK, Shape, AcceptInv, hndVars, InTable, Holding
<1>1. TableMatchesThreads
  BY TableInvImplies
<1>2. IsFiniteSet(Members) /\ Cardinality(Members) = Cardinality(used)
  BY <1>1, PoolSize
<1>3. apc = "alloc" => /\ aconn \notin Members \union Refused \union Departed
                       /\ aconn \in Conn
  BY DEF Members, Refused, Departed, Running, Admitted
<1>4. CASE Alloc
  <2>1. /\ apc = "alloc" /\ apc' = "assign" /\ ~(Slot \subseteq used)
        /\ UNCHANGED <<peer, aconn, hpc>>
    BY <1>4 DEF Alloc
  <2>2. Cardinality(used) < MaxClients
    BY <2>1, SlotSize, FS_Subset, FS_CardinalityType
  <2>3. Members' = Members \union {aconn} /\ Departed' = Departed /\ Refused' = Refused
    BY <2>1 DEF Members, Refused, Departed, Running, Admitted
  <2> QED BY <1>2, <1>3, <2>1, <2>2, <2>3
<1>5. CASE AllocFull
  <2>1. /\ apc = "alloc" /\ apc' = "drop" /\ Slot = used
        /\ UNCHANGED <<peer, aconn, hpc>>
    BY <1>5 DEF AllocFull
  <2>2. Members' = Members /\ Departed' = Departed /\ Refused' = Refused \union {aconn}
    BY <2>1 DEF Members, Refused, Departed, Running, Admitted
  <2> QED BY <1>2, <1>3, <2>1, <2>2, SlotSize
<1>6. ASSUME NEW c \in Conn, Accept(c)
      PROVE  Members' = Members /\ Refused' = Refused /\ Departed' = Departed
  BY <1>6 DEF Accept, Members, Refused, Departed, Running, Admitted
<1>7. CASE Drop
  <2>1. /\ apc = "drop" /\ apc' = "accept" /\ aconn' = None /\ hpc' = hpc
        /\ \A d \in Conn : (peer'[d] = "new") <=> (peer[d] = "new")
    BY <1>7 DEF Drop, Close, At
  <2> QED BY <2>1 DEF Members, Refused, Departed, Running, Admitted
<1>8. CASE Assign
  <2>1. apc = "assign" /\ apc' = "spawn" /\ UNCHANGED <<peer, aconn, hpc>>
    BY <1>8 DEF Assign
  <2> QED BY <2>1, SameMembers
<1>9. CASE Spawn
  <2>1. /\ apc = "spawn" /\ apc' = "accept" /\ aconn' = None /\ peer' = peer
        /\ hpc' = [hpc EXCEPT ![aconn] = "start"]
    BY <1>9 DEF Spawn
  <2> QED BY <2>1 DEF Members, Refused, Departed, Running, Admitted
<1> QED BY <1>4, <1>5, <1>6, <1>7, <1>8, <1>9 DEF AcceptLoop

\* The pool counts its members with the same operator.
LEMMA SameCardinality == \A S : Pool!Cardinality(S) = Cardinality(S)
BY DEF Pool!Cardinality, Cardinality

LEMMA PoolStep ==
  TypeOK /\ Shape /\ TableInv /\ AcceptInv /\ [Next]_vars
    => [Pool!PoolNext]_<<Members, Refused, Departed>>
<1> SUFFICES ASSUME TypeOK, Shape, TableInv, AcceptInv, [Next]_vars
             PROVE  Pool!PoolNext \/ UNCHANGED <<Members, Refused, Departed>>
  OBVIOUS
<1> USE DEF Pool!PoolNext, Pool!Admit, Pool!Refuse, Pool!Leave, Pool!Fresh
<1>1. CASE UNCHANGED vars
  <2>1. UNCHANGED <<peer, apc, aconn, hpc>>
    BY <1>1 DEF vars, accVars, hndVars
  <2> QED BY <2>1 DEF Members, Refused, Departed, Running, Admitted
<1>2. CASE AcceptLoop
  <2>1. ASSUME aconn \in Conn, Pool!Admit(aconn) \/ Pool!Refuse(aconn)
        PROVE  Pool!PoolNext
    BY ONLY <2>1 DEF Pool!PoolNext
  <2> QED BY <1>2, <2>1, AcceptPool, SameCardinality DEF Members, Refused, Departed
<1>3. ASSUME NEW c \in Conn, Handler(c)
      PROVE  Pool!PoolNext \/ UNCHANGED <<Members, Refused, Departed>>
  BY <1>3, HandlerPool DEF Members, Refused, Departed
<1>4. CASE \/ Sending
           \/ \E c \in Conn : WelcomeLock(c) \/ PeerLeaves(c)
           \/ \E t \in Sender : SendLock(t)
  BY <1>4, SendingPool
<1> QED BY <1>1, <1>2, <1>3, <1>4 DEF Next

LEMMA PoolStart == Init => Pool!PoolInit
BY ConstantFacts DEF Init, Pool!PoolInit, Running, Admitted

\* The accept loop and the handlers together implement the client pool: a
\* client is admitted only while an entry is free, refused only when all
\* MaxClients entries belong to clients being served, and leaves once.
THEOREM ServerImplementsPool == Spec => ImplementsClientPool
<1>1. Spec => [](TypeOK /\ Shape /\ TableInv /\ AcceptInv)
  BY ShapeInit, ShapeStep, TableInit, TableStep, AcceptInit, AcceptStep, PTL DEF Spec
<1>2. TypeOK /\ Shape /\ TableInv /\ AcceptInv /\ [Next]_vars => [Pool!PoolNext]_Pool!poolVars
  BY PoolStep DEF Pool!poolVars, Members, Refused, Departed
<1> QED BY <1>1, <1>2, PoolStart, PTL DEF Spec, ImplementsClientPool, Pool!PoolSpec
=============================================================================
