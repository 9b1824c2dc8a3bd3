----------------------------- MODULE ClientPool -----------------------------
(***************************************************************************)
(* What the PSC server promises about its clients, without threads, sockets*)
(* or locks: a client is admitted only while fewer than MaxClients are in  *)
(* the pool, it is turned away only when the pool is full, and one that    *)
(* was admitted leaves exactly once.                                       *)
(***************************************************************************)
EXTENDS Naturals, FiniteSets

CONSTANTS Conn,        \* the TCP connections clients make
          MaxClients   \* size of the client table, PSC_MAX_CLIENTS

VARIABLES members,     \* connections that own an entry of the client table
          refused,     \* connections turned away because the table was full
          departed     \* connections whose entry has been given back

poolVars == <<members, refused, departed>>

PoolInit == members = {} /\ refused = {} /\ departed = {}

Fresh(c) == c \notin members \union refused \union departed

Admit(c) ==
  /\ Fresh(c)
  /\ Cardinality(members) < MaxClients
  /\ members' = members \union {c}
  /\ UNCHANGED <<refused, departed>>

Refuse(c) ==
  /\ Fresh(c)
  /\ Cardinality(members) = MaxClients
  /\ refused' = refused \union {c}
  /\ UNCHANGED <<members, departed>>

Leave(c) ==
  /\ c \in members
  /\ members' = members \ {c}
  /\ departed' = departed \union {c}
  /\ UNCHANGED refused

PoolNext == \E c \in Conn : Admit(c) \/ Refuse(c) \/ Leave(c)

PoolSpec == PoolInit /\ [][PoolNext]_poolVars
=============================================================================
