------------------------------- MODULE Gossip --------------------------------
(***************************************************************************)
(* The gossip commands of bin/simd.rs and the bitcoind client they fund    *)
(* their channels with (bitcoind.rs).                                      *)
(*                                                                         *)
(* Commands of several clients run at once, each in a blocking thread of   *)
(* its own, against one bitcoind that others may be using too.  Between    *)
(* any two RPCs of a command the chain may grow, and any RPC may fail, or  *)
(* take effect and lose its reply.  A send may fail as well; Daemon and    *)
(* PeerConn say when.                                                      *)
(*                                                                         *)
(* A key pair is a number, ordered as the compressed public keys are.  A   *)
(* 2-of-2 address is the pair of its keys in the order of its descriptor.  *)
(* A block is a sequence of transactions, the coinbase first, and a        *)
(* transaction is the sequence of the addresses its outputs pay.           *)
(***************************************************************************)
EXTENDS Integers, Sequences, FiniteSets, SequencesExt

CONSTANTS
  Client,         \* connections to the Unix socket
  Peer,           \* connected peers
  NodeA, NodeB,   \* the keys of SEED and SEED_2
  FundingBlocks,  \* blocks mined for an announcement (6)
  BlockLimit, TxLimit, OutLimit,  \* the fields of an scid: 2^24, 2^24, 2^16
  MineArgs,       \* what users give to `mine`
  MaxBlocks,      \* bound: blocks that one command mines
  Typed,          \* scids users type that they have not been shown
  Foreign,        \* an address of somebody else
  None,
  MaxCommands,    \* bound: commands issued
  MaxExternal     \* bound: blocks and payments of other users of bitcoind

ASSUME KeyAssumption == NodeA \in Nat /\ NodeB \in Nat /\ NodeA # NodeB
ASSUME ScidAssumption ==
  /\ BlockLimit \in Nat \ {0} /\ TxLimit \in Nat \ {0} /\ OutLimit \in Nat \ {0}
  /\ Typed \subseteq Nat \X Nat \X Nat
ASSUME CommandAssumption ==
  /\ IsFiniteSet(Client)
  /\ MaxBlocks \in Nat /\ FundingBlocks \in 1..MaxBlocks /\ MineArgs \subseteq 0..MaxBlocks
  /\ MaxCommands \in Nat /\ MaxExternal \in Nat

\* The chain stays within the 24 bits that an scid has for a height.
ASSUME HeightAssumption == MaxCommands * MaxBlocks + MaxExternal < BlockLimit

VARIABLES
  chain,     \* bitcoind: its blocks; chain[h] has height h
  mempool,   \* bitcoind: transactions waiting for a block
  imported,  \* bitcoind's wallet: an address imported when the chain had `height`
  keys,      \* key pairs drawn so far
  cmd,       \* cmd[k]: client k's command and what it has found out
  received,  \* received[p]: messages sent to p, oldest first
  printed,   \* scids in the answers of the announcing commands
  issued,    \* commands issued
  external   \* uses of bitcoind by others

vars == <<chain, mempool, imported, keys, cmd, received, printed, issued, external>>

------------------------------------------------------------------------------
(* Short channel ids.                                                       *)

scid(block, tx, out) == (block * TxLimit + tx) * OutLimit + out

\* "block x tx x output"
scid_str(x) ==
  <<x \div (TxLimit * OutLimit), (x \div OutLimit) % TxLimit, x % OutLimit>>

\* Fault: the fields are not checked against their widths.
parse_scid_unchecked(s) == scid(s[1], s[2], s[3])

\* None when a field does not fit its width.
parse_scid(s) ==
  IF s[1] < BlockLimit /\ s[2] < TxLimit /\ s[3] < OutLimit
    THEN scid(s[1], s[2], s[3]) ELSE None

------------------------------------------------------------------------------
(* Keys and messages.                                                       *)

\* FundingKeys: "sorted lexicographically per BOLT #3".
sorted_keys(x, y) ==
  IF x < y THEN [address |-> <<x, y>>, sk1 |-> x, sk2 |-> y]
           ELSE [address |-> <<y, x>>, sk1 |-> y, sk2 |-> x]

lesser(x, y) == IF x < y THEN x ELSE y
greater(x, y) == IF x < y THEN y ELSE x

\* The four signatures cover everything that follows them.
ChannelAnnouncement_new_signed(id, sk1, sk2, bsk1, bsk2) ==
  [type |-> "channel_announcement", short_channel_id |-> id,
   node_id_1 |-> sk1, node_id_2 |-> sk2, bitcoin_key_1 |-> bsk1, bitcoin_key_2 |-> bsk2,
   signed_by |-> <<sk1, sk2, bsk1, bsk2>>]

\* channel_flags = 0: the update of node_id_1.  `typed` is history: the scid as the
\* user wrote it.
ChannelUpdate_new_signed(id, sk, typed) ==
  [type |-> "channel_update", short_channel_id |-> id, direction |-> 0, signed_by |-> sk,
   typed |-> typed]

NodeAnnouncement_default_signed(sk) ==
  [type |-> "node_announcement", node_id |-> sk, signed_by |-> sk]

------------------------------------------------------------------------------
Idle == [pc |-> "idle", kind |-> None, peer |-> None, blocks |-> 0, funding |-> None,
         first_block |-> 0, scid |-> None]

Init ==
  /\ chain = <<>> /\ mempool = <<>> /\ imported = {} /\ keys = 0
  /\ cmd = [k \in Client |-> Idle]
  /\ received = [p \in Peer |-> <<>>]
  /\ printed = {} /\ issued = 0 /\ external = 0

bitcoind == <<chain, mempool, imported, keys>>

\* The command returns an error, or an answer that says no scid.
Answer(k) == cmd' = [cmd EXCEPT ![k] = Idle]

------------------------------------------------------------------------------
(* mine, sendchannelannouncement and sendchannelannouncement2               *)

Issue(k) == cmd[k].pc = "idle" /\ issued < MaxCommands /\ issued' = issued + 1

Mine(k, n) ==
  /\ Issue(k)
  /\ cmd' = [cmd EXCEPT ![k] = [Idle EXCEPT !.pc = "address", !.kind = "mine",
                                             !.blocks = n]]
  /\ UNCHANGED <<bitcoind, received, printed, external>>

\* Fault: one block too few.
AnnounceUnconfirmed(k, p, kind) ==
  /\ Issue(k)
  /\ cmd' = [cmd EXCEPT ![k] = [Idle EXCEPT !.pc = "address", !.kind = kind, !.peer = p,
                                             !.blocks = FundingBlocks - 1]]
  /\ UNCHANGED <<bitcoind, received, printed, external>>

\* The peer has been looked up.
Announce(k, p, kind) ==
  /\ Issue(k)
  /\ cmd' = [cmd EXCEPT ![k] = [Idle EXCEPT !.pc = "address", !.kind = kind, !.peer = p,
                                             !.blocks = FundingBlocks]]
  /\ UNCHANGED <<bitcoind, received, printed, external>>

\* Two random keys, three RPCs; the last of them imports the descriptor.
new_funding_address(k) ==
  /\ cmd[k].pc = "address"
  /\ keys' = keys + 2
  /\ \E funding \in {sorted_keys(keys + 1, keys + 2), sorted_keys(keys + 2, keys + 1)} :
       /\ imported' = imported \cup {[address |-> funding.address, height |-> Len(chain)]}
       /\ cmd' = [cmd EXCEPT ![k] = [@ EXCEPT !.pc = "generate", !.funding = funding]]
  /\ UNCHANGED <<chain, mempool, received, printed, issued, external>>

\* The descriptor is imported, but the reply is lost.
import_reply_lost(k) ==
  /\ cmd[k].pc = "address"
  /\ keys' = keys + 2
  /\ imported' = imported \cup {[address |-> sorted_keys(keys + 1, keys + 2).address,
                                 height  |-> Len(chain)]}
  /\ Answer(k)
  /\ UNCHANGED <<chain, mempool, received, printed, issued, external>>

\* n blocks to an address; the first one takes the mempool.
generate_to_address(n, address) ==
  /\ chain' = chain \o [i \in 1..n |->
                          <<(<<address>>)>> \o (IF i = 1 THEN mempool ELSE <<>>)]
  /\ mempool' = IF n = 0 THEN mempool ELSE <<>>

\* Fault: off by one.
generate_off_by_one(k) ==
  /\ cmd[k].pc = "generate"
  /\ generate_to_address(cmd[k].blocks, cmd[k].funding.address)
  /\ cmd' = [cmd EXCEPT ![k] = IF @.blocks = 0 THEN Idle
               ELSE [@ EXCEPT !.pc = "locate", !.first_block = Len(chain)]]
  /\ UNCHANGED <<imported, keys, received, printed, issued, external>>

\* The reply lists the new blocks.  With none of them r.0[0] panics, and the
\* command answers "Task failed".
generate(k) ==
  /\ cmd[k].pc = "generate"
  /\ generate_to_address(cmd[k].blocks, cmd[k].funding.address)
  /\ cmd' = [cmd EXCEPT ![k] = IF @.blocks = 0 THEN Idle
               ELSE [@ EXCEPT !.pc = "locate", !.first_block = Len(chain) + 1]]
  /\ UNCHANGED <<imported, keys, received, printed, issued, external>>

\* Mined, but the reply is lost: "Funding failed".
generate_reply_lost(k) ==
  /\ cmd[k].pc = "generate"
  /\ generate_to_address(cmd[k].blocks, cmd[k].funding.address)
  /\ Answer(k)
  /\ UNCHANGED <<imported, keys, received, printed, issued, external>>

\* The first transaction of the block with an output to the address, and its
\* first such output, counted from zero.
Pays(tx, address) == \E i \in 1..Len(tx) : tx[i] = address
funding_output(block, address) ==
  LET ti == SelectInSeq(block, LAMBDA tx : Pays(tx, address))
  IN  [tx |-> ti - 1, out |-> SelectInSeq(block[ti], LAMBDA a : a = address) - 1]

\* Fault: the scid is taken from the tip of the chain.
located_at_tip(k) ==
  LET o == funding_output(chain[cmd[k].first_block], cmd[k].funding.address)
  IN  scid(Len(chain) - cmd[k].blocks + 1, o.tx, o.out)

\* Height of the first mined block, and place of the funding output in it.
located(k) ==
  LET o == funding_output(chain[cmd[k].first_block], cmd[k].funding.address)
  IN  scid(cmd[k].first_block, o.tx, o.out)

\* getblock and getrawtransaction; mine ends here with "Mined".
locate(k) ==
  /\ cmd[k].pc = "locate"
  /\ cmd' = [cmd EXCEPT ![k] = IF @.kind = "mine" THEN Idle
               ELSE [@ EXCEPT !.pc = "send", !.scid = located(k)]]
  /\ UNCHANGED <<bitcoind, received, printed, issued, external>>

\* An RPC fails before it has taken effect.
rpc_fails(k) ==
  /\ cmd[k].pc \in {"address", "generate", "locate"}
  /\ Answer(k)
  /\ UNCHANGED <<bitcoind, received, printed, issued, external>>

\* Announcement 1 names our node on both sides, announcement 2 two nodes in order.
announcement(c) ==
  IF c.kind = "announcement"
    THEN ChannelAnnouncement_new_signed(c.scid, NodeA, NodeA, c.funding.sk1, c.funding.sk2)
    ELSE ChannelAnnouncement_new_signed(c.scid, lesser(NodeA, NodeB),
                                        greater(NodeA, NodeB),
                                        c.funding.sk1, c.funding.sk2)

Deliver(p, m) == received' = [received EXCEPT ![p] = Append(@, m)]

send_announcement(k) ==
  LET c == cmd[k]
  IN  /\ c.pc = "send"
      /\ Deliver(c.peer, announcement(c))
      /\ printed' = printed \cup {[kind |-> c.kind, str |-> scid_str(c.scid)]}
      /\ Answer(k)
      /\ UNCHANGED <<bitcoind, issued, external>>

\* "Send failed": the channel is funded and announced to nobody.
send_fails(k) ==
  /\ cmd[k].pc = "send"
  /\ Answer(k)
  /\ UNCHANGED <<bitcoind, received, printed, issued, external>>

------------------------------------------------------------------------------
(* sendchannelupdate and sendnodeannouncement: they call no RPC.  When they *)
(* are refused or cannot send they change nothing.                          *)

\* Fault: the update is signed with the daemon's own key.
update_key_own == NodeA

\* Both commands speak for node_id_1 of announcement 2.
update_key == lesser(NodeA, NodeB)
announced_key == lesser(NodeA, NodeB)

send_channel_update(k, p, s) ==
  /\ Issue(k)
  /\ parse_scid(s) # None
  /\ Deliver(p, ChannelUpdate_new_signed(parse_scid(s), update_key, s))
  /\ UNCHANGED <<bitcoind, cmd, printed, external>>

send_node_announcement(k, p) ==
  /\ Issue(k)
  /\ Deliver(p, NodeAnnouncement_default_signed(announced_key))
  /\ UNCHANGED <<bitcoind, cmd, printed, external>>

------------------------------------------------------------------------------
(* Other users of the same bitcoind (external).                             *)

OtherBlock ==
  /\ external < MaxExternal /\ external' = external + 1
  /\ generate_to_address(1, Foreign)
  /\ UNCHANGED <<imported, keys, cmd, received, printed, issued>>

\* Somebody pays an address that the daemon has printed, next to one of his own.
OtherPayment ==
  /\ external < MaxExternal /\ external' = external + 1
  /\ \E i \in imported : mempool' = Append(mempool, <<Foreign, i.address>>)
  /\ UNCHANGED <<chain, imported, keys, cmd, received, printed, issued>>

------------------------------------------------------------------------------
Shown == {x.str : x \in printed}

Progress(k) ==
  \/ new_funding_address(k) \/ import_reply_lost(k)
  \/ generate(k) \/ generate_reply_lost(k) \/ locate(k)
  \/ rpc_fails(k) \/ send_announcement(k) \/ send_fails(k)

Next ==
  \/ \E k \in Client :
       \/ \E n \in MineArgs : Mine(k, n)
       \/ \E p \in Peer : \/ Announce(k, p, "announcement")
                          \/ Announce(k, p, "announcement2")
                          \/ \E s \in Shown \cup Typed : send_channel_update(k, p, s)
                          \/ send_node_announcement(k, p)
       \/ Progress(k)
  \/ OtherBlock
  \/ OtherPayment

Spec == Init /\ [][Next]_vars

------------------------------------------------------------------------------
(* Properties.                                                              *)

\* The messages sent so far, each with the peer and the place it has there.
Place == UNION {{p} \X (1..Len(received[p])) : p \in Peer}
At(x) == received[x[1]][x[2]]
Sent(type) == {x \in Place : At(x).type = type}

\* Every variable has its type; a command past its first RPCs has an address that
\* the wallet knows, and every scid that was printed can be parsed.
TypeOK ==
  /\ \A h \in 1..Len(chain) : Len(chain[h]) >= 1
  /\ keys \in 0..(2 * MaxCommands) /\ issued \in 0..MaxCommands
  /\ \A k \in Client :
       /\ cmd[k].pc \in {"idle", "address", "generate", "locate", "send"}
       /\ cmd[k].pc \in {"generate", "locate", "send"} =>
            \E i \in imported : i.address = cmd[k].funding.address
       /\ cmd[k].pc = "locate" => cmd[k].first_block \in 1..Len(chain)
  /\ \A x \in printed : parse_scid(x.str) \in Nat

\* Whatever other commands and other users of bitcoind mine meanwhile, the scid of
\* every announcement names an output on the chain that pays the 2-of-2 of exactly
\* the two bitcoin keys in it, in their order.
AnnouncementFunded ==
  \A x \in Sent("channel_announcement") :
    LET m == At(x)
        s == scid_str(m.short_channel_id)
    IN  /\ s[1] \in 1..Len(chain)
        /\ s[2] < Len(chain[s[1]]) /\ s[3] < Len(chain[s[1]][s[2] + 1])
        /\ chain[s[1]][s[2] + 1][s[3] + 1] = <<m.bitcoin_key_1, m.bitcoin_key_2>>
        /\ m.bitcoin_key_1 < m.bitcoin_key_2

\* "Mine 6 blocks": an announced channel has six confirmations when the peer hears
\* of it, and no two announcements name the same channel.
AnnouncementConfirmed ==
  \A x \in Sent("channel_announcement") :
    /\ Len(chain) - scid_str(At(x).short_channel_id)[1] + 1 >= FundingBlocks
    /\ \A y \in Sent("channel_announcement") :
         At(x).short_channel_id = At(y).short_channel_id => x = y

\* An update is for the channel the user typed: the scid that was printed for an
\* announcement comes back as the same number, and nothing else aliases it.
UpdateNamesChannel ==
  \A x \in Sent("channel_update") : scid_str(At(x).short_channel_id) = At(x).typed

\* An update of a channel announced with two node ids is signed by the one its
\* direction bit stands for; a node_announcement that follows such a channel
\* announcement to the same peer is for a node the peer has heard of.
GossipFollows ==
  \A a \in Sent("channel_announcement") : At(a).node_id_1 # At(a).node_id_2 =>
    /\ \A u \in Sent("channel_update") :
         At(u).short_channel_id = At(a).short_channel_id =>
           At(u).signed_by = At(a).node_id_1
    /\ \A n \in Sent("node_announcement") :
         n[1] = a[1] /\ n[2] > a[2] =>
           At(n).node_id \in {At(a).node_id_1, At(a).node_id_2}

\* README.md, cli.rs: an update is "for an announced channel (scid as printed by
\* send-channel-announcement)": it is signed by that channel's node.
UpdateVerifies ==
  \A u \in Sent("channel_update"), a \in Sent("channel_announcement") :
    At(u).short_channel_id = At(a).short_channel_id =>
      At(u).signed_by = At(a).node_id_1
==============================================================================
