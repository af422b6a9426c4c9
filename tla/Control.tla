------------------------------- MODULE Control -------------------------------
(***************************************************************************)
(* The life of the daemon process and its control socket: main of          *)
(* bin/simd.rs, the start of the bitcoind client, and the client of        *)
(* bin/cli.rs.                                                             *)
(*                                                                         *)
(* Several daemons may be started, one after the other or at once.  They   *)
(* share the path of the socket and the wallet of one bitcoind; neither    *)
(* is locked.  A client opens the path, writes one line, and reads until   *)
(* the daemon closes.  Its command runs in a task of its own, which the    *)
(* end of the process cuts off.                                            *)
(*                                                                         *)
(* The commands are told apart by what they wait for: info for three       *)
(* calls to bitcoind, mine for one, the two announcements for bitcoind and *)
(* then, like the other three that send, for the writer of a peer and for  *)
(* the peer to read; connect for a peer to answer.  The waits for a peer   *)
(* have no timeout.  stop, disconnect and peers wait for nobody, nor do    *)
(* the commands whose line is refused.                                     *)
(***************************************************************************)
EXTENDS Integers

CONSTANTS
  Proc,      \* daemon processes, each started at most once
  Cli,       \* runs of the command line client
  None,      \* no process, or an RPC that failed
  MaxHeight  \* bound: blocks found while the daemons run

ASSUME NoneAssumption == None \notin Proc /\ None \notin Nat
ASSUME HeightAssumption == MaxHeight \in Nat

VARIABLES
  proc,    \* proc[d]: where main of process d is
  stop,    \* stop[d]: shutdown has been called
  path,    \* the process whose socket file is at SOCK_PATH, or None
  wallet,  \* the wallet in bitcoind: "absent", "unloaded" or "loaded"
  height,  \* height of bitcoind's best block
  pc,      \* pc[k]: where client k and its command are
  server,  \* server[k]: the process it is connected to, or None
  blocks,  \* blocks[k], best[k]: what its info command has read
  best

cliVars == <<pc, server, blocks, best>>
vars == <<proc, stop, path, wallet, height, cliVars>>

Alive == {"serving", "leaving", "draining"}
Dead == {"off", "failed", "gone"}

\* Where a client is: not run, waiting to be accepted, its command in one of its
\* waits, its answer being written; at the end it has its answer, found no daemon,
\* or was cut off.
Asking == {"ask_count", "ask_best", "ask_balance"}
Calling == Asking \cup {"mining", "funding"}
Handled == {"handling", "dialling", "sending", "answering"} \cup Calling
Ended == {"answered", "refused", "cut"}

Init ==
  /\ proc = [d \in Proc |-> "off"] /\ stop = [d \in Proc |-> FALSE]
  /\ path = None
  /\ wallet \in {"absent", "unloaded", "loaded"}
  /\ height = 0
  /\ pc = [k \in Cli |-> "idle"] /\ server = [k \in Cli |-> None]
  /\ blocks = [k \in Cli |-> 0] /\ best = [k \in Cli |-> None]

\* main of d is at "from" and goes on to "to".
Go(d, from, to) == proc[d] = from /\ proc' = [proc EXCEPT ![d] = to]

\* The process ends: its connections are closed, whatever their commands do, and
\* what they have read is gone.
Cut(d) ==
  LET lost == {k \in Cli : server[k] = d}
  IN  /\ pc' = [k \in Cli |-> IF k \in lost THEN "cut" ELSE pc[k]]
      /\ server' = [k \in Cli |-> IF k \in lost THEN None ELSE server[k]]
      /\ blocks' = [k \in Cli |-> IF k \in lost THEN 0 ELSE blocks[k]]
      /\ best' = [k \in Cli |-> IF k \in lost THEN None ELSE best[k]]

------------------------------------------------------------------------------
(* BitcoindClient::new.  Every call may fail.                               *)

\* The process starts and calls getblockchaininfo: a call that fails, or a chain
\* that is not regtest, ends it.
Start(d) ==
  /\ Go(d, "off", "load") \/ Go(d, "off", "failed")
  /\ UNCHANGED <<stop, path, wallet, height, cliVars>>

\* Fault: every failure of load_wallet is taken for "already loaded".
LoadWalletAnyError(d) ==
  /\ Go(d, "load", "unlink")
  /\ wallet' = IF wallet = "unloaded" THEN "loaded" ELSE wallet
  /\ UNCHANGED <<stop, path, height, cliVars>>

\* load_wallet loads a wallet that exists, complains that it is already loaded,
\* or fails, before or after the work is done; only then is a wallet created.
LoadWallet(d) ==
  /\ \/ wallet # "absent" /\ Go(d, "load", "unlink") /\ wallet' = "loaded"
     \/ Go(d, "load", "create") /\ UNCHANGED wallet
     \/ wallet = "unloaded" /\ Go(d, "load", "create") /\ wallet' = "loaded"
  /\ UNCHANGED <<stop, path, height, cliVars>>

\* create_wallet succeeds if there is none yet; its reply may get lost.
CreateWallet(d) ==
  /\ \/ wallet = "absent" /\ Go(d, "create", "unlink") /\ wallet' = "loaded"
     \/ wallet = "absent" /\ Go(d, "create", "failed") /\ wallet' = "loaded"
     \/ Go(d, "create", "failed") /\ UNCHANGED wallet
  /\ UNCHANGED <<stop, path, height, cliVars>>

------------------------------------------------------------------------------
(* main: the socket, the accept loop, the end.                              *)

\* Fault: a file at the path is left alone.
UnlinkNothing(d) ==
  /\ Go(d, "unlink", "bind")
  /\ UNCHANGED <<stop, path, wallet, height, cliVars>>

\* remove_file(SOCK_PATH), whosever file it is.
Unlink(d) ==
  /\ Go(d, "unlink", "bind")
  /\ path' = None
  /\ UNCHANGED <<stop, wallet, height, cliVars>>

\* bind fails if a file is there again.
Bind(d) ==
  /\ \/ path = None /\ Go(d, "bind", "serving") /\ path' = d
     \/ path # None /\ Go(d, "bind", "failed") /\ UNCHANGED path
  /\ UNCHANGED <<stop, wallet, height, cliVars>>

CtrlC(d) ==
  /\ Go(d, "serving", "leaving")
  /\ stop' = [stop EXCEPT ![d] = TRUE]
  /\ UNCHANGED <<path, wallet, height, cliVars>>

\* stop_rx.changed() in the select!.
StopSeen(d) ==
  /\ stop[d] /\ Go(d, "serving", "leaving")
  /\ UNCHANGED <<stop, path, wallet, height, cliVars>>

\* remove_file(SOCK_PATH) after the loop.
RemoveSocket(d) ==
  /\ Go(d, "leaving", "draining")
  /\ path' = None
  /\ UNCHANGED <<stop, wallet, height, cliVars>>

\* Fault: the process waits for the commands that are under way.
ExitJoins(d) ==
  /\ \A k \in Cli : server[k] = d => pc[k] \in Ended
  /\ Go(d, "draining", "gone") /\ Cut(d)
  /\ UNCHANGED <<stop, path, wallet, height>>

\* main returns and the runtime is dropped: the tasks go where they stand, but the
\* threads of spawn_blocking, which call bitcoind, are waited for.
Exit(d) ==
  /\ \A k \in Cli : server[k] = d => pc[k] \notin Calling
  /\ Go(d, "draining", "gone") /\ Cut(d)
  /\ UNCHANGED <<stop, path, wallet, height>>

\* The process is killed; its socket file stays.
Crash(d) ==
  /\ proc[d] \notin Dead
  /\ proc' = [proc EXCEPT ![d] = "gone"] /\ Cut(d)
  /\ UNCHANGED <<stop, path, wallet, height>>

------------------------------------------------------------------------------
(* The client, and the task that serves it.                                 *)

Listening == {d \in Proc : proc[d] \in {"serving", "leaving"}}

\* cli.rs: connect, write the line, close the writing side.
CliConnects(k) ==
  /\ pc[k] = "idle"
  /\ \/ /\ path \in Listening
        /\ pc' = [pc EXCEPT ![k] = "queued"] /\ server' = [server EXCEPT ![k] = path]
     \/ /\ path \notin Listening
        /\ pc' = [pc EXCEPT ![k] = "refused"] /\ UNCHANGED server
  /\ UNCHANGED <<proc, stop, path, wallet, height, blocks, best>>

\* Command k goes from one place to another, in a process that is there.
Step(k, from, to) ==
  /\ pc[k] = from /\ server[k] # None /\ proc[server[k]] \in Alive
  /\ pc' = [pc EXCEPT ![k] = to]

\* Fault: no task of its own, the accept loop handles the command.
AcceptInline(k) ==
  /\ pc[k] = "queued" /\ proc[server[k]] = "serving"
  /\ \A j \in Cli : server[j] = server[k] => pc[j] \notin Handled
  /\ Step(k, "queued", "handling")
  /\ UNCHANGED <<proc, stop, path, wallet, height, server, blocks, best>>

\* accept, and a task for the connection, which reads the line.
Accept(k) ==
  /\ pc[k] = "queued" /\ proc[server[k]] = "serving"
  /\ Step(k, "queued", "handling")
  /\ UNCHANGED <<proc, stop, path, wallet, height, server, blocks, best>>

\* handle_command for a line that waits for nobody: stop, which calls shutdown,
\* disconnect, peers, and whatever is refused, "Not connected" included.
Quick(k) ==
  /\ Step(k, "handling", "answering")
  /\ \/ UNCHANGED stop
     \/ stop' = [stop EXCEPT ![server[k]] = TRUE]
  /\ UNCHANGED <<proc, path, wallet, height, server, blocks, best>>

\* The other commands begin their first wait.
Begin(k) ==
  /\ \E to \in {"ask_count", "dialling", "mining", "funding", "sending"} :
       Step(k, "handling", to)
  /\ UNCHANGED <<proc, stop, path, wallet, height, server, blocks, best>>

\* btc.mine or btc.mine_to_funding returns, or fails; an announcement that is
\* funded goes on to send.  The blocks are those of Block.
Mined(k) ==
  /\ \/ Step(k, "mining", "answering")
     \/ Step(k, "funding", "sending")
     \/ Step(k, "funding", "answering")
  /\ UNCHANGED <<proc, stop, path, wallet, height, server, blocks, best>>

\* Fault: the best block is asked for before the count.
AskBestFirst(k) ==
  /\ \/ /\ Step(k, "ask_count", "ask_best")
        /\ best' \in {[best EXCEPT ![k] = v] : v \in {height, None}} /\ UNCHANGED blocks
     \/ /\ Step(k, "ask_best", "ask_balance")
        /\ blocks' \in {[blocks EXCEPT ![k] = v] : v \in {height, 0}} /\ UNCHANGED best
     \/ Step(k, "ask_balance", "answering") /\ UNCHANGED <<blocks, best>>
  /\ UNCHANGED <<proc, stop, path, wallet, height, server>>

\* The three calls of cmd_info, one by one; one that fails yields a default.
Ask(k) ==
  /\ \/ /\ Step(k, "ask_count", "ask_best")
        /\ blocks' \in {[blocks EXCEPT ![k] = v] : v \in {height, 0}} /\ UNCHANGED best
     \/ /\ Step(k, "ask_best", "ask_balance")
        /\ best' \in {[best EXCEPT ![k] = v] : v \in {height, None}} /\ UNCHANGED blocks
     \/ Step(k, "ask_balance", "answering") /\ UNCHANGED <<blocks, best>>
  /\ UNCHANGED <<proc, stop, path, wallet, height, server>>

\* conn::connect returns: the peer has accepted and sent act two and its Init, or
\* has failed or misbehaved at one of these.  None of the waits has a timeout.
Dial(k) ==
  /\ Step(k, "dialling", "answering")
  /\ UNCHANGED <<proc, stop, path, wallet, height, server, blocks, best>>

\* writer.lock().await.send(..).await returns: the writer was free and the peer has
\* read, or the connection is gone.
SendEnds(k) ==
  /\ Step(k, "sending", "answering")
  /\ UNCHANGED <<proc, stop, path, wallet, height, server, blocks, best>>

\* The answer is written; the client prints it and finds the end of the stream.
WriteAnswer(k) ==
  /\ Step(k, "answering", "answered")
  /\ server' = [server EXCEPT ![k] = None]
  /\ blocks' = [blocks EXCEPT ![k] = 0] /\ best' = [best EXCEPT ![k] = None]
  /\ UNCHANGED <<proc, stop, path, wallet, height>>

\* Somebody mines: mine, an announcement, or another user of bitcoind.
Block ==
  /\ height < MaxHeight
  /\ height' = height + 1
  /\ UNCHANGED <<proc, stop, path, wallet, cliVars>>

------------------------------------------------------------------------------
Main(d) ==
  \/ LoadWallet(d) \/ CreateWallet(d) \/ Unlink(d) \/ Bind(d)
  \/ StopSeen(d) \/ RemoveSocket(d) \/ Exit(d)

Serve(k) ==
  Accept(k) \/ Quick(k) \/ Begin(k) \/ Mined(k) \/ Ask(k) \/ WriteAnswer(k)

Next ==
  \/ \E d \in Proc : Start(d) \/ Main(d) \/ CtrlC(d) \/ Crash(d)
  \/ \E k \in Cli : CliConnects(k) \/ Serve(k) \/ Dial(k) \/ SendEnds(k)
  \/ Block

\* The runtime polls main and every task that can go on, and the kernel hands over
\* connections; the select! of main picks among what is ready at random, so that a
\* stop is seen in the end.  Calls to bitcoind return, with an error at the latest
\* when they time out.  Of peers, users and blocks nothing is assumed: Dial and
\* SendEnds may never come.
Fairness ==
  /\ \A d \in Proc : WF_vars(Main(d))
  /\ \A k \in Cli : WF_vars(Serve(k))

Spec == Init /\ [][Next]_vars /\ Fairness

------------------------------------------------------------------------------
(* Properties.                                                              *)

\* A client that has found a daemon ends, with its answer or cut off by the end of
\* the daemon, unless its command hangs for ever on a peer: connect on one that keeps
\* silent, a command that sends on one that does not read.  No other command can
\* hang, and none because of another that does.
ClientsEnd ==
  \A k \in Cli :
    pc[k] = "queued" ~>
      (pc[k] \in Ended \/ [](pc[k] = "dialling") \/ [](pc[k] = "sending"))

\* Once shutdown has been called the process ends, even with commands that hang on a
\* peer.
StopEnds == \A d \in Proc : stop[d] ~> proc[d] = "gone"

\* A daemon that serves has the wallet loaded, however many start at once and
\* whichever calls fail.
WalletReady == \A d \in Proc : proc[d] \in Alive => wallet = "loaded"

\* info may mix two tips, but in one direction only: the height it shows is never
\* above the best block it shows, which exists.
InfoOrdered ==
  \A k \in Cli : pc[k] = "answering" /\ best[k] # None =>
    blocks[k] <= best[k] /\ best[k] <= height

\* A socket file that a crash has left behind does not keep a daemon from
\* serving, as long as it is the only one to start.
StartRecovers ==
  \A d \in Proc :
    proc[d] = "unlink" /\ (\A o \in Proc \ {d} : proc[o] \in Dead) ~>
      proc[d] \in Alive \cup {"gone"} \/ \E o \in Proc \ {d} : proc[o] \notin Dead

\* README.md: "The daemon listens on `/tmp/ln-gossip-sim.sock` for CLI commands".
\* A daemon that serves, and is alone, is found at the path.
SoleDaemonReachable ==
  \A d \in Proc :
    proc[d] = "serving" /\ (\A o \in Proc \ {d} : proc[o] \in Dead) => path = d
==============================================================================
