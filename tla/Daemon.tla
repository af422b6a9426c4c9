------------------------------- MODULE Daemon --------------------------------
(***************************************************************************)
(* The daemon of bin/simd.rs: its table of peers, the read task of every   *)
(* connection, and the commands that clients issue over the Unix socket.   *)
(*                                                                         *)
(* The table is behind an async mutex and none of its critical sections    *)
(* awaits anything, so each of them is one step here.  What is between     *)
(* them is not atomic: cmd_connect spawns the read task before it enters   *)
(* the connection in the table; a read task that leaves its loop removes   *)
(* the entry of its node, by the node's key, in a step of its own; a       *)
(* command that sends has cloned the writer long before it writes, and     *)
(* holds on to the connection for as long as the write takes.              *)
(*                                                                         *)
(* Connections are numbered as they are established, so that two           *)
(* connections to one node can be told apart.  The code does not: an entry *)
(* that is overwritten drops its JoinHandle, and the old task runs on.     *)
(***************************************************************************)
EXTENDS Naturals, FiniteSets

CONSTANTS
  Node,      \* public keys of Lightning nodes
  Client,    \* connections to the Unix socket, each handling one line at a time
  MaxConns,  \* bound: connections established
  None       \* no connection, or no node

Conn == 1..MaxConns

ASSUME MaxConnsAssumption == MaxConns \in Nat
ASSUME NoneAssumption == None \notin Nat /\ None \notin Node

VARIABLES
  peers,     \* the table: peers[n] is the connection entered for n, or None
  made,      \* how many connections have been established
  node,      \* node[c]: the node at the other end of c
  task,      \* task[c]: the state of c's read task
  link,      \* link[c]: whether the socket is up
  entered,   \* entered[c]: cmd_connect has inserted c in the table
  cpc,       \* cpc[k]: where client k's command is
  cnode,     \* cnode[k]: the node it names
  cconn,     \* cconn[k]: the connection it established, or whose writer it holds
  \* History.
  removed,   \* removed[c]: the table operation of c's read task has run
  early,     \* early[c]: and it ran before cmd_connect entered c
  delisted   \* delisted[c]: cmd_disconnect has removed c and answered so

vars == <<peers, made, node, task, link, entered, cpc, cnode, cconn, removed, early,
          delisted>>

\* A read task is "running" in its select! loop, "leaving" once the loop is over
\* and until it has locked the table, "cancelled" when abort() has been called on
\* it and "over" when it is gone.
TaskState == {"none", "running", "leaving", "cancelled", "over"}

Listed(c) == c \in {peers[n] : n \in Node}

Init ==
  /\ peers = [n \in Node |-> None]
  /\ made = 0
  /\ node = [c \in Conn |-> None]
  /\ task = [c \in Conn |-> "none"]
  /\ link = [c \in Conn |-> "up"]
  /\ entered = [c \in Conn |-> FALSE]
  /\ cpc = [k \in Client |-> "idle"]
  /\ cnode = [k \in Client |-> None]
  /\ cconn = [k \in Client |-> None]
  /\ removed = [c \in Conn |-> FALSE]
  /\ early = [c \in Conn |-> FALSE]
  /\ delisted = [c \in Conn |-> FALSE]

connVars == <<made, node, link>>
history == <<removed, early, delisted>>

\* Client k's command returns its answer and drops what it holds.
Answer(k) ==
  /\ cpc' = [cpc EXCEPT ![k] = "idle"]
  /\ cnode' = [cnode EXCEPT ![k] = None]
  /\ cconn' = [cconn EXCEPT ![k] = None]

------------------------------------------------------------------------------
(* connect <pubkey> <addr>                                                  *)

\* The arguments parse; conn::connect starts dialling.
ConnectStart(k, n) ==
  /\ cpc[k] = "idle"
  /\ cpc' = [cpc EXCEPT ![k] = "dialling"]
  /\ cnode' = [cnode EXCEPT ![k] = n]
  /\ UNCHANGED <<peers, connVars, task, entered, cconn, history>>

\* Fault: a failed dial takes the node's entry out of the table.
ConnectFailsRemoves(k) ==
  /\ cpc[k] = "dialling"
  /\ peers' = [peers EXCEPT ![cnode[k]] = None]
  /\ Answer(k)
  /\ UNCHANGED <<connVars, task, entered, history>>

ConnectFails(k) ==
  /\ cpc[k] = "dialling"
  /\ Answer(k)
  /\ UNCHANGED <<peers, connVars, task, entered, history>>

\* The handshake and the Init exchange succeed, and the read task is spawned.
ConnectSpawn(k) ==
  LET c == made + 1
  IN  /\ cpc[k] = "dialling" /\ made < MaxConns
      /\ made' = c
      /\ node' = [node EXCEPT ![c] = cnode[k]]
      /\ task' = [task EXCEPT ![c] = "running"]
      /\ cconn' = [cconn EXCEPT ![k] = c]
      /\ cpc' = [cpc EXCEPT ![k] = "entering"]
      /\ UNCHANGED <<peers, link, entered, cnode, history>>

\* peers.insert(pubkey, ...): an entry that was there is dropped, not aborted.
ConnectEnter(k) ==
  LET c == cconn[k]
  IN  /\ cpc[k] = "entering"
      /\ peers' = [peers EXCEPT ![cnode[k]] = c]
      /\ entered' = [entered EXCEPT ![c] = TRUE]
      /\ Answer(k)
      /\ UNCHANGED <<connVars, task, history>>

------------------------------------------------------------------------------
(* disconnect <pubkey>: one critical section.                               *)

\* Fault: the JoinHandle is dropped with its entry, which detaches the task.
abort_detaches(c) == UNCHANGED task

\* abort() on the task of c; a task that is already over stays over.
abort(c) ==
  task' = [task EXCEPT ![c] = IF @ \in {"running", "leaving"} THEN "cancelled" ELSE @]

\* Fault: the task is aborted and the entry stays.
DisconnectKeepsEntry(k, n) ==
  /\ cpc[k] = "idle" /\ peers[n] # None
  /\ abort(peers[n])
  /\ delisted' = [delisted EXCEPT ![peers[n]] = TRUE]
  /\ UNCHANGED <<peers, connVars, entered, cpc, cnode, cconn, removed, early>>

Disconnect(k, n) ==
  /\ cpc[k] = "idle" /\ peers[n] # None
  /\ peers' = [peers EXCEPT ![n] = None]
  /\ abort(peers[n])
  /\ delisted' = [delisted EXCEPT ![peers[n]] = TRUE]
  /\ UNCHANGED <<connVars, entered, cpc, cnode, cconn, removed, early>>

------------------------------------------------------------------------------
(* The five commands that send a message.                                   *)

\* Where a command goes from its lookup: the announcements to their calls to
\* bitcoind, the others to the writer.
Prepare(k) == \E at \in {"funding", "sending"} : cpc' = [cpc EXCEPT ![k] = at]

\* Fault: the check that the peer is connected is dropped.
SendLookupUnchecked(k, n) ==
  /\ cpc[k] = "idle"
  /\ cnode' = [cnode EXCEPT ![k] = n]
  /\ cconn' = [cconn EXCEPT ![k] = peers[n]]
  /\ Prepare(k)
  /\ UNCHANGED <<peers, connVars, task, entered, history>>

\* "Check if peer is connected": look the peer up and clone its writer.  A peer
\* that is not in the table is answered at once and changes nothing.
SendLookup(k, n) ==
  /\ cpc[k] = "idle" /\ peers[n] # None
  /\ cnode' = [cnode EXCEPT ![k] = n]
  /\ cconn' = [cconn EXCEPT ![k] = peers[n]]
  /\ Prepare(k)
  /\ UNCHANGED <<peers, connVars, task, entered, history>>

\* mine_to_funding has returned, on a thread of its own: the announcement is
\* signed, or the answer is "Funding failed".
Funded(k) ==
  /\ cpc[k] = "funding"
  /\ cpc' = [cpc EXCEPT ![k] = "sending"]
  /\ UNCHANGED <<peers, connVars, task, entered, cnode, cconn, history>>

FundingFails(k) ==
  /\ cpc[k] = "funding"
  /\ Answer(k)
  /\ UNCHANGED <<peers, connVars, task, entered, history>>

\* Fault: the entry is put back when the message has been sent.
SendEndsReenters(k) ==
  /\ cpc[k] = "sending"
  /\ peers' = [peers EXCEPT ![cnode[k]] = cconn[k]]
  /\ Answer(k)
  /\ UNCHANGED <<connVars, task, entered, history>>

\* writer.lock().await.send(..).await returns, and the clone is dropped.  Neither
\* wait has a timeout: another holder of the writer may keep it, and the peer may
\* not read.
SendEnds(k) ==
  /\ cpc[k] = "sending"
  /\ Answer(k)
  /\ UNCHANGED <<peers, connVars, task, entered, history>>

\* On a link that is down every write returns its error, one holder after the
\* other.
SendFails(k) == cpc[k] = "sending" /\ link[cconn[k]] = "down" /\ SendEnds(k)

------------------------------------------------------------------------------
(* Read tasks and sockets.                                                  *)

\* The peer or the network takes the connection down: from now on reads and writes
\* return an error.
LinkDown(c) ==
  /\ task[c] # "none" /\ link[c] = "up"
  /\ link' = [link EXCEPT ![c] = "down"]
  /\ UNCHANGED <<peers, made, node, task, entered, cpc, cnode, cconn, history>>

\* The select! loop breaks: a read error, a body that is too short, an answer or
\* a ping that could not be sent.  On a link that is up it may break as well.
LoopBreak(c) ==
  /\ task[c] = "running"
  /\ task' = [task EXCEPT ![c] = "leaving"]
  /\ UNCHANGED <<peers, connVars, entered, cpc, cnode, cconn, history>>

\* Fault: the task ends and forgets its entry.
RemoveSelfForgotten(c) ==
  /\ task' = [task EXCEPT ![c] = "over"]
  /\ removed' = [removed EXCEPT ![c] = TRUE]
  /\ early' = [early EXCEPT ![c] = ~entered[c]]
  /\ UNCHANGED <<peers, connVars, entered, cpc, cnode, cconn, delisted>>

\* daemon.peers.lock().await.remove(&peer_id), by the key of the node.
RemoveSelf(c) ==
  /\ peers' = [peers EXCEPT ![node[c]] = None]
  /\ task' = [task EXCEPT ![c] = "over"]
  /\ removed' = [removed EXCEPT ![c] = TRUE]
  /\ early' = [early EXCEPT ![c] = ~entered[c]]
  /\ UNCHANGED <<connVars, entered, cpc, cnode, cconn, delisted>>

TaskRemove(c) == task[c] = "leaving" /\ RemoveSelf(c)

\* A cancelled task is dropped when the runtime next looks at it; one that another
\* thread is polling at that moment runs on to its next await that has to wait,
\* which may be past its removal.
CancelTakes(c) ==
  /\ task[c] = "cancelled"
  /\ task' = [task EXCEPT ![c] = "over"]
  /\ UNCHANGED <<peers, connVars, entered, cpc, cnode, cconn, history>>

CancelTooLate(c) == task[c] = "cancelled" /\ RemoveSelf(c)

------------------------------------------------------------------------------
Next ==
  \/ \E k \in Client :
       \/ \E n \in Node : ConnectStart(k, n) \/ Disconnect(k, n) \/ SendLookup(k, n)
       \/ ConnectFails(k) \/ ConnectSpawn(k) \/ ConnectEnter(k)
       \/ Funded(k) \/ FundingFails(k) \/ SendEnds(k)
  \/ \E c \in Conn :
       LinkDown(c) \/ LoopBreak(c) \/ TaskRemove(c) \/ CancelTakes(c) \/ CancelTooLate(c)

\* The runtime runs every task that can go on: a read task whose socket is down
\* or whose lock is free, a command that has its connection, whose bitcoind calls
\* have returned, as they do at the latest when they time out, or whose write has
\* failed.  Dialling and a write on a link that is up have no timeout, so nothing is
\* assumed of them.
Fairness ==
  /\ \A c \in Conn : /\ WF_vars(link[c] = "down" /\ LoopBreak(c))
                     /\ WF_vars(TaskRemove(c))
                     /\ WF_vars(CancelTakes(c) \/ CancelTooLate(c))
  /\ \A k \in Client : /\ WF_vars(ConnectEnter(k))
                       /\ WF_vars(Funded(k) \/ FundingFails(k))
                       /\ WF_vars(SendFails(k))

Spec == Init /\ [][Next]_vars /\ Fairness

------------------------------------------------------------------------------
(* Properties.                                                              *)

\* Every variable has its type; a command past its lookup or its handshake holds
\* a connection.
TypeOK ==
  /\ peers \in [Node -> Conn \cup {None}]
  /\ made \in 0..MaxConns
  /\ node \in [Conn -> Node \cup {None}]
  /\ task \in [Conn -> TaskState]
  /\ link \in [Conn -> {"up", "down"}]
  /\ entered \in [Conn -> BOOLEAN]
  /\ cpc \in [Client -> {"idle", "dialling", "entering", "funding", "sending"}]
  /\ cnode \in [Client -> Node \cup {None}]
  /\ cconn \in [Client -> Conn \cup {None}]
  /\ \A k \in Client : cpc[k] \in {"entering", "funding", "sending"} => cconn[k] # None
  /\ removed \in [Conn -> BOOLEAN]
  /\ early \in [Conn -> BOOLEAN]
  /\ delisted \in [Conn -> BOOLEAN]

\* No other connection to c's node has been established.
OnlyConnection(c) == \A o \in 1..made : node[o] = node[c] => o = c

\* As long as a node has been dialled once only, its connection is in the table
\* from the moment cmd_connect answers until its read task ends or it is
\* disconnected: whatever other peers, clients and tasks do.
SoleConnectionListed ==
  \A c \in 1..made :
    entered[c] /\ task[c] = "running" /\ OnlyConnection(c) => Listed(c)

\* An entry whose read task is gone has one cause only: the task ended before
\* cmd_connect entered it.  (Being aborted is not a cause.)
StaleEntryIsEarly ==
  \A c \in 1..made : Listed(c) /\ task[c] \in {"over", "cancelled"} => early[c]

\* Once cmd_disconnect has answered "Disconnected", that connection is never
\* listed again.
DisconnectIsFinal ==
  [][\A c \in Conn : delisted[c] => delisted'[c] /\ ~Listed(c)']_vars

\* A connection that has gone down leaves the table in the end, unless its task
\* ended before it was entered.
DeadIsDelisted ==
  \A c \in Conn : entered[c] /\ link[c] = "down" ~> ~Listed(c) \/ early[c]

\* Nothing in the daemon holds connection c any more: not its read task, no command
\* that looked it up, not the table.
Dropped(c) == task[c] = "over" /\ (\A k \in Client : cconn[k] # c) /\ ~Listed(c)

\* A command that hangs in its write to c.
WriteHangs(c) == link[c] = "up" /\ \E k \in Client : cpc[k] = "sending" /\ cconn[k] = c

\* "Disconnected" becomes true in the end: whatever the read task was doing, and
\* however many commands had cloned the writer before, the daemon lets go of the
\* connection, unless one of those commands hangs for ever in a write to a peer that
\* does not read.
DisconnectedIsDropped ==
  \A c \in Conn : delisted[c] ~> (Dropped(c) \/ []WriteHangs(c))

\* README.md: `peers` lists the connected peers.  A connection that was entered,
\* whose read task runs and that nobody disconnected, is a connected peer.
ConnectedIsListed ==
  \A c \in 1..made : entered[c] /\ task[c] = "running" => peers[node[c]] # None

\* The read task logs "disconnected, removing from peer list" before it removes
\* its entry: when it is gone, so is the entry.
RemovedIsDelisted == \A c \in 1..made : removed[c] => ~Listed(c)
==============================================================================
