--------------------------- MODULE ControlProofs ----------------------------
(***************************************************************************)
(* Proofs about Control, for any number of daemons, clients and blocks:    *)
(* no daemon serves without its wallet, and what info shows is ordered.    *)
(***************************************************************************)
EXTENDS Control, TLAPS

------------------------------------------------------------------------------
(* The wallet.                                                              *)

Place == {"off", "load", "create", "unlink", "bind", "serving", "leaving", "draining",
          "failed", "gone"}

\* Past BitcoindClient::new the wallet is loaded, and nothing ever unloads it.
WalletInv ==
  /\ proc \in [Proc -> Place]
  /\ \A d \in Proc : proc[d] \in {"unlink", "bind"} \cup Alive => wallet = "loaded"

\* The steps of BitcoindClient::new keep the wallet's invariant: whoever goes on
\* from there leaves a loaded wallet.
LEMMA WalletStart ==
  ASSUME WalletInv, NEW d \in Proc, Start(d) \/ LoadWallet(d) \/ CreateWallet(d)
  PROVE  WalletInv'
<1> USE DEF WalletInv, Place, Alive, Go
<1>1. CASE Start(d)
  BY <1>1 DEF Start
<1>2. CASE LoadWallet(d)
  BY <1>2 DEF LoadWallet
<1>3. CASE CreateWallet(d)
  BY <1>3 DEF CreateWallet
<1> QED
  BY <1>1, <1>2, <1>3

\* The steps of main after it keep it, because they do not touch the wallet.
LEMMA WalletMain ==
  ASSUME WalletInv, NEW d \in Proc,
         \/ Unlink(d) \/ Bind(d) \/ CtrlC(d) \/ StopSeen(d) \/ RemoveSocket(d) \/ Exit(d)
         \/ Crash(d)
  PROVE  WalletInv'
<1> USE DEF WalletInv, Place, Alive, Go
<1>1. CASE Unlink(d) \/ Bind(d)
  BY <1>1 DEF Unlink, Bind
<1>2. CASE CtrlC(d) \/ StopSeen(d) \/ RemoveSocket(d)
  BY <1>2 DEF CtrlC, StopSeen, RemoveSocket
<1>3. CASE Exit(d) \/ Crash(d)
  BY <1>3 DEF Exit, Crash
<1> QED
  BY <1>1, <1>2, <1>3

\* Nor do the clients, the tasks that serve them, and new blocks.
LEMMA WalletOthers ==
  ASSUME WalletInv,
         \/ \E k \in Cli : CliConnects(k) \/ Serve(k) \/ Dial(k) \/ SendEnds(k)
         \/ Block
         \/ UNCHANGED vars
  PROVE  WalletInv'
<1>1. UNCHANGED <<proc, wallet>>
  BY DEF CliConnects, Serve, Accept, Quick, Begin, Mined, Ask, WriteAnswer, Dial, SendEnds,
         Block, vars, cliVars
<1> QED
  BY <1>1 DEF WalletInv

\* A daemon that serves has its wallet loaded, however many daemons start at once
\* and whichever calls of BitcoindClient::new fail.
THEOREM WalletLoaded == Spec => []WalletReady
<1>1. Init => WalletInv
  BY DEF Init, WalletInv, Place, Alive
<1>2. WalletInv /\ [Next]_vars => WalletInv'
  BY WalletStart, WalletMain, WalletOthers DEF Next, Main
<1>3. WalletInv => WalletReady
  BY DEF WalletInv, WalletReady
<1> QED
  BY <1>1, <1>2, <1>3, PTL DEF Spec

------------------------------------------------------------------------------
(* What info shows.                                                         *)

\* What command k has read: a height, then a best block no lower than it, which is
\* known only while the command is past its second call.
InfoOf(k) ==
  /\ blocks[k] \in Nat /\ blocks[k] <= height
  /\ \/ best[k] = None
     \/ /\ best[k] \in Nat /\ blocks[k] <= best[k] /\ best[k] <= height
        /\ pc[k] \in {"ask_balance", "answering"}

InfoInv ==
  /\ height \in Nat
  /\ pc \in [Cli -> {"idle", "queued"} \cup Handled \cup Ended] /\ server \in [Cli -> Proc \cup {None}]
  /\ blocks \in [Cli -> Nat] /\ best \in [Cli -> Nat \cup {None}]
  /\ path \in Proc \cup {None}
  /\ \A k \in Cli : InfoOf(k)

\* The three calls of cmd_info: the count comes first, and the best block that is
\* asked for after it is no lower.
LEMMA InfoAsk ==
  ASSUME InfoInv, NEW k \in Cli, Ask(k)
  PROVE  InfoInv'
<1> USE NoneAssumption DEF InfoInv, InfoOf, Step, Handled, Calling, Asking, Ended
<1>1. CASE Step(k, "ask_count", "ask_best")
           /\ blocks' \in {[blocks EXCEPT ![k] = v] : v \in {height, 0}} /\ UNCHANGED best
  BY <1>1 DEF Ask
<1>2. CASE Step(k, "ask_best", "ask_balance")
           /\ best' \in {[best EXCEPT ![k] = v] : v \in {height, None}} /\ UNCHANGED blocks
  BY <1>2 DEF Ask
<1>3. CASE Step(k, "ask_balance", "answering") /\ UNCHANGED <<blocks, best>>
  BY <1>3 DEF Ask
<1> QED
  BY <1>1, <1>2, <1>3 DEF Ask

\* The other steps of a client and its command leave what was read alone, or
\* forget it.
LEMMA InfoClient ==
  ASSUME InfoInv, NEW k \in Cli,
         \/ CliConnects(k) \/ Accept(k) \/ Quick(k) \/ Begin(k) \/ Mined(k) \/ WriteAnswer(k)
         \/ Dial(k) \/ SendEnds(k)
  PROVE  InfoInv'
<1> USE NoneAssumption DEF InfoInv, InfoOf, Step, Handled, Calling, Asking, Ended
<1>1. CASE CliConnects(k)
  BY <1>1 DEF CliConnects, Listening
<1>2. CASE Accept(k)
  BY <1>2 DEF Accept
<1>3. CASE Quick(k)
  BY <1>3 DEF Quick
<1>4. CASE Begin(k)
  BY <1>4 DEF Begin
<1>5. CASE WriteAnswer(k)
  BY <1>5 DEF WriteAnswer
<1>6. CASE Dial(k) \/ SendEnds(k)
  BY <1>6 DEF Dial, SendEnds
<1>7. CASE Mined(k)
  BY <1>7 DEF Mined
<1> QED
  BY <1>1, <1>2, <1>3, <1>4, <1>5, <1>6, <1>7

\* A process that ends forgets what its commands had read; its other steps do not
\* touch it.
LEMMA InfoMain ==
  ASSUME InfoInv, NEW d \in Proc, Start(d) \/ Main(d) \/ CtrlC(d) \/ Crash(d)
  PROVE  InfoInv'
<1> USE NoneAssumption DEF InfoInv, InfoOf, Handled, Calling, Asking, Ended
<1>1. CASE Exit(d) \/ Crash(d)
  <2>1. Cut(d) /\ UNCHANGED <<height, path>>
    BY <1>1 DEF Exit, Crash
  <2> QED
    BY <2>1 DEF Cut
<1>2. CASE \/ Start(d) \/ LoadWallet(d) \/ CreateWallet(d) \/ Unlink(d) \/ Bind(d) \/ CtrlC(d)
           \/ StopSeen(d) \/ RemoveSocket(d)
  <2>1. UNCHANGED <<height, cliVars>> /\ path' \in {path, None, d}
    BY <1>2 DEF Start, LoadWallet, CreateWallet, Unlink, Bind, CtrlC, StopSeen, RemoveSocket
  <2> QED
    BY <2>1 DEF cliVars
<1> QED
  BY <1>1, <1>2 DEF Main

\* The height and the best block that info shows are in order, however many blocks
\* are found between its calls and whichever of them fail.
THEOREM InfoInOrder == Spec => []InfoOrdered
<1>1. Init => InfoInv
  BY NoneAssumption DEF Init, InfoInv, InfoOf, Handled, Calling, Asking, Ended
<1>2. InfoInv /\ [Next]_vars => InfoInv'
  <2> SUFFICES ASSUME InfoInv, [Next]_vars PROVE InfoInv'
    OBVIOUS
  <2>1. CASE \E d \in Proc : Start(d) \/ Main(d) \/ CtrlC(d) \/ Crash(d)
    BY <2>1, InfoMain
  <2>2. CASE \E k \in Cli : CliConnects(k) \/ Serve(k) \/ Dial(k) \/ SendEnds(k)
    BY <2>2, InfoAsk, InfoClient DEF Serve
  <2>3. CASE Block
    BY <2>3, NoneAssumption DEF Block, cliVars, InfoInv, InfoOf
  <2>4. CASE UNCHANGED vars
    BY <2>4 DEF vars, cliVars, InfoInv, InfoOf
  <2> QED
    BY <2>1, <2>2, <2>3, <2>4 DEF Next
<1>3. InfoInv => InfoOrdered
  BY NoneAssumption DEF InfoInv, InfoOf, InfoOrdered
<1> QED
  BY <1>1, <1>2, <1>3, PTL DEF Spec
==============================================================================
