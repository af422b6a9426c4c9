---------------------------- MODULE DaemonProofs -----------------------------
(***************************************************************************)
(* Proofs about Daemon, for any nodes, clients and number of connections.  *)
(*                                                                         *)
(* The table knows connections only by the key of their node.  The         *)
(* invariant says what the key can be trusted for: an entry stands under   *)
(* the node of its own connection, was made by the one command that        *)
(* established it, and was never disconnected; and a task that is gone     *)
(* before its connection is entered went by itself, not by being aborted.  *)
(***************************************************************************)
EXTENDS Daemon, TLAPS

\* Connections are numbered as they are made.
MadeOK ==
  \A c \in Conn :
    /\ c <= made => node[c] \in Node
    /\ c > made => task[c] = "none" /\ ~entered[c]

\* What an entry of the table says of the connection in it.
TableOK ==
  \A n \in Node :
    peers[n] # None => /\ peers[n] \in 1..made
                       /\ node[peers[n]] = n
                       /\ entered[peers[n]]
                       /\ ~delisted[peers[n]]

\* A connection is entered by the command that made it, and by no other.
ClientOK ==
  \A k \in Client :
    /\ cpc[k] # "idle" => cnode[k] \in Node
    /\ cpc[k] = "entering" =>
         /\ cconn[k] \in 1..made /\ ~entered[cconn[k]] /\ node[cconn[k]] = cnode[k]
         /\ \A l \in Client : cpc[l] = "entering" /\ cconn[l] = cconn[k] => l = k

\* Before it is entered a connection cannot have been disconnected.
EnteredOK ==
  \A c \in Conn :
    /\ delisted[c] => entered[c]
    /\ ~entered[c] => task[c] # "cancelled" /\ (task[c] = "over" => early[c])

\* The two properties, for the node of an entry.
SoleOK ==
  \A c \in 1..made :
    entered[c] /\ task[c] = "running" /\ OnlyConnection(c) => peers[node[c]] = c
StaleOK ==
  \A n \in Node :
    peers[n] # None /\ task[peers[n]] \in {"over", "cancelled"} => early[peers[n]]

IInv ==
  TypeOK /\ MadeOK /\ TableOK /\ ClientOK /\ EnteredOK /\ SoleOK /\ StaleOK

\* None is no connection.
LEMMA NoneIsNoConn == \A c \in Conn : c \in Nat /\ c # None
BY MaxConnsAssumption, NoneAssumption DEF Conn

\* The invariant holds when the daemon starts.
LEMMA InitIInv == Init => IInv
<1> SUFFICES ASSUME Init PROVE IInv
  OBVIOUS
<1>1. TypeOK
  BY MaxConnsAssumption DEF Init, TypeOK, TaskState
<1>2. MadeOK /\ TableOK /\ ClientOK /\ EnteredOK /\ SoleOK /\ StaleOK
  BY MaxConnsAssumption, NoneIsNoConn
     DEF Init, MadeOK, TableOK, ClientOK, EnteredOK, SoleOK, StaleOK, Conn
<1> QED BY <1>1, <1>2 DEF IInv

\* cmd_connect starts to dial, or fails.
LEMMA DialStep ==
  ASSUME IInv, NEW k \in Client, NEW n \in Node,
         ConnectStart(k, n) \/ ConnectFails(k)
  PROVE  IInv'
<1> USE DEF connVars, history, Answer
<1>1. TypeOK'
  BY DEF IInv, TypeOK, ConnectStart, ConnectFails
<1>2. MadeOK' /\ TableOK' /\ EnteredOK' /\ SoleOK' /\ StaleOK'
  BY DEF IInv, ConnectStart, ConnectFails, MadeOK, TableOK, EnteredOK, SoleOK, StaleOK,
         OnlyConnection
<1>3. ClientOK'
  BY DEF IInv, TypeOK, ClientOK, ConnectStart, ConnectFails
<1> QED BY <1>1, <1>2, <1>3 DEF IInv

\* conn::connect returns and the read task is spawned: its connection is new.
LEMMA SpawnStep ==
  ASSUME IInv, NEW k \in Client, ConnectSpawn(k)
  PROVE  IInv'
<1> DEFINE c == made + 1
<1> USE DEF connVars, history
<1>1. /\ c \in Conn /\ made \in Nat /\ c # None
      /\ cnode[k] \in Node
      /\ task[c] = "none" /\ ~entered[c]
  BY MaxConnsAssumption, NoneIsNoConn DEF IInv, TypeOK, MadeOK, ClientOK, ConnectSpawn, Conn
<1>2. TypeOK'
  BY <1>1, MaxConnsAssumption DEF IInv, TypeOK, ConnectSpawn, TaskState, Conn
<1>3. /\ made' = made + 1 /\ UNCHANGED <<peers, entered, delisted, early>>
      /\ node' = [node EXCEPT ![c] = cnode[k]] /\ task' = [task EXCEPT ![c] = "running"]
      /\ node'[c] = cnode[k] /\ task'[c] = "running"
      /\ \A o \in Conn : o # c => node'[o] = node[o] /\ task'[o] = task[o]
  BY <1>1 DEF IInv, TypeOK, ConnectSpawn
<1>4. MadeOK'
  BY <1>1, <1>3 DEF IInv, MadeOK, Conn
<1>5. TableOK' /\ StaleOK'
  BY <1>1, <1>3, MaxConnsAssumption DEF IInv, TypeOK, TableOK, StaleOK, Conn
<1>6. EnteredOK'
  BY <1>1, <1>3 DEF IInv, EnteredOK
<1>7. SoleOK'
  <2> SUFFICES ASSUME NEW o \in 1..made', entered'[o], task'[o] = "running",
                      OnlyConnection(o)'
               PROVE  peers'[node'[o]] = o
    BY DEF SoleOK
  <2>1. o \in 1..made /\ o # c /\ o \in Conn
    BY <1>1, <1>3, MaxConnsAssumption DEF Conn
  <2>2. OnlyConnection(o)
    BY <1>1, <1>3, <2>1, MaxConnsAssumption DEF OnlyConnection, Conn
  <2> QED BY <1>3, <2>1, <2>2 DEF IInv, SoleOK
<1>8. ClientOK'
  <2>1. /\ cnode' = cnode /\ cpc' = [cpc EXCEPT ![k] = "entering"]
        /\ cconn' = [cconn EXCEPT ![k] = c]
    BY DEF ConnectSpawn
  <2>2. \A l \in Client : cpc[l] = "entering" => cconn[l] \in 1..made /\ cconn[l] # c
    BY <1>1 DEF IInv, ClientOK
  <2> QED BY <1>1, <1>3, <2>1, <2>2, MaxConnsAssumption DEF IInv, TypeOK, ClientOK, Conn
<1> QED BY <1>2, <1>4, <1>5, <1>6, <1>7, <1>8 DEF IInv

\* cmd_connect enters its connection, over whatever stood under the node's key.
LEMMA EnterStep ==
  ASSUME IInv, NEW k \in Client, ConnectEnter(k)
  PROVE  IInv'
<1> DEFINE c == cconn[k]
           n == cnode[k]
<1> USE DEF connVars, history, Answer
<1>1. /\ c \in 1..made /\ c \in Conn /\ c # None /\ n \in Node
      /\ ~entered[c] /\ node[c] = n /\ ~delisted[c]
      /\ task[c] # "cancelled" /\ (task[c] = "over" => early[c])
      /\ \A l \in Client : cpc[l] = "entering" /\ cconn[l] = c => l = k
  BY MaxConnsAssumption, NoneIsNoConn
     DEF IInv, TypeOK, ClientOK, EnteredOK, ConnectEnter, Conn
<1>2. /\ UNCHANGED <<made, node, task, delisted, early>>
      /\ peers' = [peers EXCEPT ![n] = c] /\ entered' = [entered EXCEPT ![c] = TRUE]
      /\ peers'[n] = c /\ entered'[c]
      /\ \A m \in Node : m # n => peers'[m] = peers[m]
      /\ \A o \in Conn : o # c => entered'[o] = entered[o]
  BY <1>1 DEF IInv, TypeOK, ConnectEnter
<1>3. TypeOK'
  BY <1>1 DEF IInv, TypeOK, ConnectEnter
<1>4. MadeOK' /\ EnteredOK'
  BY <1>1, <1>2, MaxConnsAssumption DEF IInv, MadeOK, EnteredOK, TypeOK, Conn
<1>5. TableOK'
  BY <1>1, <1>2, MaxConnsAssumption DEF IInv, TypeOK, TableOK, Conn
<1>6. StaleOK'
  BY <1>1, <1>2 DEF IInv, StaleOK
<1>7. SoleOK'
  <2> SUFFICES ASSUME NEW o \in 1..made, entered'[o], task[o] = "running",
                      OnlyConnection(o)
               PROVE  peers'[node[o]] = o
    BY <1>2 DEF SoleOK, OnlyConnection
  <2>1. CASE o = c
    BY <1>1, <1>2, <2>1
  <2>2. CASE o # c
    <3>1. o \in Conn /\ entered[o]
      BY <1>2, <2>2, MaxConnsAssumption DEF IInv, TypeOK, Conn
    <3>2. node[o] # n
      BY <1>1, <2>2 DEF OnlyConnection
    <3>3. node[o] \in Node
      BY <3>1 DEF IInv, TypeOK, MadeOK
    <3> QED BY <1>2, <3>1, <3>2, <3>3 DEF IInv, SoleOK
  <2> QED BY <2>1, <2>2
<1>8. ClientOK'
  <2>1. /\ cpc' = [cpc EXCEPT ![k] = "idle"] /\ cnode' = [cnode EXCEPT ![k] = None]
        /\ cconn' = [cconn EXCEPT ![k] = None]
    BY DEF ConnectEnter
  <2>2. \A l \in Client : l # k =>
          cpc'[l] = cpc[l] /\ cnode'[l] = cnode[l] /\ cconn'[l] = cconn[l]
    BY <2>1 DEF IInv, TypeOK
  <2>3. cpc'[k] = "idle"
    BY <2>1 DEF IInv, TypeOK
  <2>4. \A l \in Client : cpc[l] = "entering" /\ l # k =>
          cconn[l] \in Conn /\ cconn[l] # c
    BY <1>1, MaxConnsAssumption DEF IInv, TypeOK, ClientOK, Conn
  <2> QED BY <1>2, <2>2, <2>3, <2>4 DEF IInv, ClientOK
<1> QED BY <1>3, <1>4, <1>5, <1>6, <1>7, <1>8 DEF IInv

\* cmd_disconnect: the entry goes and its task is aborted.
LEMMA DisconnectStep ==
  ASSUME IInv, NEW k \in Client, NEW n \in Node, Disconnect(k, n)
  PROVE  IInv'
<1> DEFINE c == peers[n]
<1> USE DEF connVars
<1>1. /\ c \in 1..made /\ c \in Conn /\ c # None
      /\ node[c] = n /\ entered[c]
  BY MaxConnsAssumption DEF IInv, TypeOK, TableOK, Disconnect, Conn
<1>2. /\ UNCHANGED <<made, node, entered, early, cpc, cnode, cconn>>
      /\ peers' = [peers EXCEPT ![n] = None]
      /\ delisted' = [delisted EXCEPT ![c] = TRUE]
      /\ task' = [task EXCEPT ![c] = IF @ \in {"running", "leaving"} THEN "cancelled" ELSE @]
      /\ peers'[n] = None /\ task'[c] # "running"
      /\ \A m \in Node : m # n => peers'[m] = peers[m]
      /\ \A o \in Conn : o # c => task'[o] = task[o] /\ delisted'[o] = delisted[o]
  BY <1>1 DEF IInv, TypeOK, Disconnect, abort
<1>3. TypeOK'
  BY <1>1, <1>2 DEF IInv, TypeOK, Disconnect, TaskState
<1>4. MadeOK' /\ EnteredOK' /\ ClientOK'
  BY <1>1, <1>2, MaxConnsAssumption DEF IInv, TypeOK, MadeOK, EnteredOK, ClientOK, Conn
<1>5. TableOK' /\ StaleOK'
  <2>1. \A m \in Node : m # n /\ peers[m] # None => peers[m] # c /\ peers[m] \in Conn
    BY <1>1 DEF IInv, TypeOK, TableOK
  <2> QED BY <1>1, <1>2, <2>1 DEF IInv, TableOK, StaleOK
<1>6. SoleOK'
  <2> SUFFICES ASSUME NEW o \in 1..made, entered[o], task'[o] = "running",
                      OnlyConnection(o)
               PROVE  peers'[node[o]] = o
    BY <1>2 DEF SoleOK, OnlyConnection
  <2>1. o # c /\ o \in Conn /\ task[o] = "running"
    BY <1>2, MaxConnsAssumption DEF IInv, TypeOK, Conn
  <2>2. node[o] # n /\ node[o] \in Node
    BY <1>1, <2>1 DEF OnlyConnection, IInv, TypeOK, MadeOK
  <2> QED BY <1>2, <2>1, <2>2 DEF IInv, SoleOK
<1> QED BY <1>3, <1>4, <1>5, <1>6 DEF IInv

\* The sending commands leave the table alone.
LEMMA SendStep ==
  ASSUME IInv, NEW k \in Client, NEW n \in Node,
         SendLookup(k, n) \/ Funded(k) \/ FundingFails(k) \/ SendEnds(k)
  PROVE  IInv'
<1> USE DEF connVars, history, Answer, Prepare
<1>1. TypeOK'
  BY DEF IInv, TypeOK, SendLookup, Funded, FundingFails, SendEnds
<1>2. MadeOK' /\ TableOK' /\ EnteredOK' /\ SoleOK' /\ StaleOK'
  BY DEF IInv, SendLookup, Funded, FundingFails, SendEnds, MadeOK, TableOK, EnteredOK,
         SoleOK, StaleOK, OnlyConnection
<1>3. ClientOK'
  BY DEF IInv, TypeOK, ClientOK, SendLookup, Funded, FundingFails, SendEnds
<1> QED BY <1>1, <1>2, <1>3 DEF IInv

\* A socket goes down, a loop breaks, or a cancelled task is dropped: the task is
\* not running afterwards, and nothing else changes.
LEMMA TaskStep ==
  ASSUME IInv, NEW c \in Conn, LinkDown(c) \/ LoopBreak(c) \/ CancelTakes(c)
  PROVE  IInv'
<1> USE DEF connVars, history
<1>1. /\ UNCHANGED <<peers, made, node, entered, cpc, cnode, cconn, early, delisted>>
      /\ \A o \in Conn : task'[o] = "running" => task[o] = "running"
      /\ \A o \in Conn : task'[o] \in {"over", "cancelled"} =>
                           task[o] = task'[o] \/ task[o] = "cancelled"
      /\ \A o \in Conn : task[o] = "none" => task'[o] = "none"
      /\ \A o \in Conn : task'[o] = "cancelled" => task[o] = "cancelled"
  BY DEF IInv, TypeOK, LinkDown, LoopBreak, CancelTakes
<1>2. TypeOK'
  BY DEF IInv, TypeOK, LinkDown, LoopBreak, CancelTakes, TaskState
<1>3. MadeOK' /\ TableOK' /\ ClientOK'
  BY <1>1 DEF IInv, MadeOK, TableOK, ClientOK
<1>4. EnteredOK'
  BY <1>1 DEF IInv, EnteredOK
<1>5. SoleOK'
  BY <1>1, MaxConnsAssumption DEF IInv, TypeOK, SoleOK, OnlyConnection, Conn
<1>6. StaleOK'
  BY <1>1 DEF IInv, TypeOK, StaleOK
<1> QED BY <1>2, <1>3, <1>4, <1>5, <1>6 DEF IInv

\* A read task removes what stands under the key of its node.
LEMMA RemoveStep ==
  ASSUME IInv, NEW c \in Conn, TaskRemove(c) \/ CancelTooLate(c)
  PROVE  IInv'
<1> USE DEF connVars
<1>1. c \in 1..made /\ node[c] \in Node /\ task[c] \in {"leaving", "cancelled"}
  BY MaxConnsAssumption DEF IInv, TypeOK, MadeOK, TaskRemove, CancelTooLate, Conn
<1>2. /\ UNCHANGED <<made, node, entered, cpc, cnode, cconn, delisted>>
      /\ peers' = [peers EXCEPT ![node[c]] = None]
      /\ task' = [task EXCEPT ![c] = "over"] /\ early' = [early EXCEPT ![c] = ~entered[c]]
      /\ peers'[node[c]] = None /\ task'[c] = "over" /\ (early'[c] <=> ~entered[c])
      /\ \A m \in Node : m # node[c] => peers'[m] = peers[m]
      /\ \A o \in Conn : o # c => task'[o] = task[o] /\ early'[o] = early[o]
  BY <1>1 DEF IInv, TypeOK, TaskRemove, CancelTooLate, RemoveSelf
<1>3. TypeOK'
  <2> DEFINE b == ~entered[c]
  <2>1. b \in BOOLEAN /\ early' = [early EXCEPT ![c] = b]
    BY <1>2
  <2> HIDE DEF b
  <2>2. early' \in [Conn -> BOOLEAN]
    BY <2>1 DEF IInv, TypeOK
  <2>3. removed' = [removed EXCEPT ![c] = TRUE] /\ link' = link
    BY DEF TaskRemove, CancelTooLate, RemoveSelf
  <2>4. removed' \in [Conn -> BOOLEAN]
    BY <2>3 DEF IInv, TypeOK
  <2>5. peers' \in [Node -> Conn \cup {None}] /\ task' \in [Conn -> TaskState]
    BY <1>2 DEF IInv, TypeOK, TaskState
  <2> QED BY <1>2, <2>2, <2>3, <2>4, <2>5 DEF IInv, TypeOK
<1>4. MadeOK' /\ ClientOK'
  BY <1>1, <1>2, MaxConnsAssumption DEF IInv, TypeOK, MadeOK, ClientOK, Conn
<1>5. EnteredOK'
  BY <1>2 DEF IInv, EnteredOK
<1>6. TableOK' /\ StaleOK'
  <2>1. \A m \in Node : m # node[c] /\ peers[m] # None => peers[m] # c /\ peers[m] \in Conn
    BY DEF IInv, TypeOK, TableOK
  <2> QED BY <1>2, <2>1 DEF IInv, TableOK, StaleOK
<1>7. SoleOK'
  <2> SUFFICES ASSUME NEW o \in 1..made, entered[o], task'[o] = "running",
                      OnlyConnection(o)
               PROVE  peers'[node[o]] = o
    BY <1>2 DEF SoleOK, OnlyConnection
  <2>1. o # c /\ o \in Conn /\ task[o] = "running"
    BY <1>2, MaxConnsAssumption DEF IInv, TypeOK, Conn
  <2>2. node[o] # node[c] /\ node[o] \in Node
    BY <1>1, <2>1 DEF OnlyConnection, IInv, TypeOK, MadeOK
  <2> QED BY <1>2, <2>1, <2>2 DEF IInv, SoleOK
<1> QED BY <1>3, <1>4, <1>5, <1>6, <1>7 DEF IInv

\* Every step keeps the invariant.
LEMMA NextIInv == IInv /\ [Next]_vars => IInv'
<1> SUFFICES ASSUME IInv, [Next]_vars PROVE IInv'
  OBVIOUS
<1>1. CASE UNCHANGED vars
  BY <1>1 DEF vars, IInv, TypeOK, MadeOK, TableOK, ClientOK, EnteredOK, SoleOK, StaleOK,
              OnlyConnection
<1>2. ASSUME NEW k \in Client, NEW n \in Node,
             ConnectStart(k, n) \/ Disconnect(k, n) \/ SendLookup(k, n)
      PROVE  IInv'
  BY <1>2, DialStep, DisconnectStep, SendStep
<1>3. ASSUME NEW k \in Client,
             ConnectFails(k) \/ Funded(k) \/ FundingFails(k) \/ SendEnds(k)
      PROVE  IInv'
  <2>1. cnode[k] \in Node
    BY <1>3 DEF IInv, ClientOK, ConnectFails, Funded, FundingFails, SendEnds
  <2> QED BY <1>3, <2>1, DialStep, SendStep
<1>4. ASSUME NEW k \in Client, ConnectSpawn(k) \/ ConnectEnter(k)
      PROVE  IInv'
  BY <1>4, SpawnStep, EnterStep
<1>5. ASSUME NEW c \in Conn,
             LinkDown(c) \/ LoopBreak(c) \/ TaskRemove(c) \/ CancelTakes(c) \/ CancelTooLate(c)
      PROVE  IInv'
  BY <1>5, TaskStep, RemoveStep
<1> QED BY <1>1, <1>2, <1>3, <1>4, <1>5 DEF Next

------------------------------------------------------------------------------
\* The inductive invariant holds of every execution.
THEOREM Invariance == Spec => []IInv
BY InitIInv, NextIInv, PTL DEF Spec

\* Every variable keeps its type.
THEOREM TypeCorrect == Spec => []TypeOK
<1>1. IInv => TypeOK
  BY DEF IInv
<1> QED BY <1>1, Invariance, PTL

\* However commands, tasks and the network interleave, a connection that is the
\* only one to its node is in the table while it runs.
THEOREM SoleListed == Spec => []SoleConnectionListed
<1>1. IInv => SoleConnectionListed
  BY MaxConnsAssumption DEF IInv, TypeOK, MadeOK, SoleOK, SoleConnectionListed, Listed, Conn
<1> QED BY <1>1, Invariance, PTL

\* The only cause of an entry whose task is gone is a task that ended before
\* cmd_connect entered its connection.
THEOREM StaleEntry == Spec => []StaleEntryIsEarly
<1>1. IInv => StaleEntryIsEarly
  BY NoneIsNoConn, MaxConnsAssumption DEF IInv, TypeOK, StaleOK, StaleEntryIsEarly, Listed, Conn
<1> QED BY <1>1, Invariance, PTL

\* A connection that cmd_disconnect has reported as disconnected is never listed
\* again.
THEOREM DisconnectFinal == Spec => DisconnectIsFinal
<1> DEFINE Kept == \A c \in Conn : delisted[c] => delisted'[c] /\ ~Listed(c)'
<1>1. IInv /\ IInv' /\ [Next]_vars => [Kept]_vars
  <2> SUFFICES ASSUME IInv', IInv, Next, NEW c \in Conn, delisted[c]
               PROVE  delisted'[c] /\ ~Listed(c)'
    OBVIOUS
  <2>1. delisted'[c]
    BY DEF IInv, TypeOK, Next, ConnectStart, ConnectFails, ConnectSpawn, ConnectEnter,
           Disconnect, SendLookup, Funded, FundingFails, SendEnds, LinkDown, LoopBreak,
           TaskRemove, CancelTakes, CancelTooLate, RemoveSelf, history
  <2>2. \A n \in Node : peers'[n] # c
    BY <2>1, NoneIsNoConn DEF IInv, TableOK
  <2> QED BY <2>1, <2>2 DEF Listed
<1> QED BY <1>1, Invariance, PTL DEF Spec, DisconnectIsFinal
==============================================================================
