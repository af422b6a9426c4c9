---------------------------- MODULE GossipProofs -----------------------------
(***************************************************************************)
(* Proofs about Gossip: the scid of every channel_announcement names an    *)
(* output that pays its two bitcoin keys, deep enough in the chain and     *)
(* announced once; an update is for the channel that was typed, and the    *)
(* gossip about a channel fits its announcement.  For any number of        *)
(* clients, peers, commands and other users of bitcoind, any keys and any  *)
(* field widths of an scid.                                                *)
(*                                                                         *)
(* The argument: generatetoaddress pays the coinbase of every block it     *)
(* mines to the funding address, so the first output that pays it in the   *)
(* first of these blocks is output 0 of transaction 0, whatever else the   *)
(* block has taken from the mempool; and the chain only grows, so a        *)
(* command keeps that block for itself.                                    *)
(***************************************************************************)
EXTENDS Gossip, FiniteSetTheorems, TLAPS

------------------------------------------------------------------------------
(* The inductive invariant.                                                 *)

Address == (Nat \X Nat) \cup {Foreign}
Transaction == Seq(Address)
Block == Seq(Transaction)
Funding == [address : Nat \X Nat, sk1 : Nat, sk2 : Nat]

Kind == {"mine", "announcement", "announcement2"}
CommandRecord ==
  [pc : {"idle", "address", "generate", "locate", "send"}, kind : Kind \cup {None},
   peer : Peer \cup {None}, blocks : Nat, funding : Funding \cup {None},
   first_block : Nat, scid : Nat \cup {None}]

MessageRecord ==
  [type : {"channel_announcement"}, short_channel_id : Nat, node_id_1 : Nat,
   node_id_2 : Nat, bitcoin_key_1 : Nat, bitcoin_key_2 : Nat,
   signed_by : Nat \X Nat \X Nat \X Nat]
  \cup [type : {"channel_update"}, short_channel_id : Nat, direction : {0},
        signed_by : Nat, typed : Nat \X Nat \X Nat]
  \cup [type : {"node_announcement"}, node_id : Nat, signed_by : Nat]

ChainShape ==
  /\ chain \in Seq(Block) /\ mempool \in Seq(Transaction)
  /\ imported \subseteq [address : Nat \X Nat, height : Nat]
  /\ keys \in Nat

CommandShape ==
  /\ cmd \in [Client -> CommandRecord]
  /\ received \in [Peer -> Seq(MessageRecord)]
  /\ issued \in 0..MaxCommands /\ external \in 0..MaxExternal

\* Every block has a coinbase.
CoinbaseInv == \A h \in 1..Len(chain) : Len(chain[h]) >= 1

\* Block b is the first of n that were mined to the address.
Mined(b, address, n) ==
  /\ b \in Nat /\ b >= 1 /\ b <= Len(chain) /\ b + n <= Len(chain) + 1
  /\ chain[b][1] = <<address>>

\* The wallet knows the address of the sorted keys.
Owned(f) ==
  /\ f \in Funding /\ f.address = <<f.sk1, f.sk2>> /\ f.sk1 < f.sk2
  /\ \E i \in imported : i.address = f.address

\* What a command has found out.
Known(c) ==
  /\ c.pc # "idle" => /\ c.kind \in Kind /\ c.blocks \in 0..MaxBlocks
                      /\ c.kind # "mine" => c.peer \in Peer /\ c.blocks = FundingBlocks
  /\ c.pc \in {"generate", "locate", "send"} => Owned(c.funding)
  /\ c.pc \in {"locate", "send"} => Mined(c.first_block, c.funding.address, c.blocks)
  /\ c.pc = "send" => c.kind # "mine" /\ c.scid = scid(c.first_block, 0, 0)

CommandInv == \A k \in Client : Known(cmd[k])

\* A message that has been sent.
Announced(m) ==
  m.type = "channel_announcement" =>
    /\ \E b \in Nat : /\ m.short_channel_id = scid(b, 0, 0)
                      /\ Mined(b, <<m.bitcoin_key_1, m.bitcoin_key_2>>, FundingBlocks)
    /\ m.bitcoin_key_1 < m.bitcoin_key_2
    /\ m.node_id_1 # m.node_id_2 => m.node_id_1 = lesser(NodeA, NodeB)

Followed(m) ==
  /\ m.type = "channel_update" =>
       m.signed_by = lesser(NodeA, NodeB) /\ scid_str(m.short_channel_id) = m.typed
  /\ m.type = "node_announcement" => m.node_id = lesser(NodeA, NodeB)

MessageInv ==
  \A p \in Peer : \A n \in 1..Len(received[p]) :
    Announced(received[p][n]) /\ Followed(received[p][n])

\* A block belongs to one command, then to one announcement.
Holds(c) == c.pc \in {"locate", "send"}
Claims(p, n, b) ==
  /\ received[p][n].type = "channel_announcement"
  /\ received[p][n].short_channel_id = scid(b, 0, 0)

ClaimInv ==
  /\ \A k, l \in Client :
       Holds(cmd[k]) /\ Holds(cmd[l]) /\ cmd[k].first_block = cmd[l].first_block => k = l
  /\ \A k \in Client, p \in Peer : \A n \in 1..Len(received[p]) :
       Holds(cmd[k]) => ~Claims(p, n, cmd[k].first_block)
  /\ \A p, q \in Peer, b \in Nat : \A n \in 1..Len(received[p]), m \in 1..Len(received[q]) :
       Claims(p, n, b) /\ Claims(q, m, b) => p = q /\ n = m

PrintedInv == \A x \in printed : \E b \in 1..Len(chain) : x.str = <<b, 0, 0>>

\* Commands that have not drawn their keys, or not mined, yet.
Undrawn == {k \in Client : cmd[k].pc = "address"}
Unmined == {k \in Client : cmd[k].pc \in {"address", "generate"}}

CountInv ==
  /\ keys + 2 * Cardinality(Undrawn) <= 2 * issued
  /\ Len(chain) + MaxBlocks * Cardinality(Unmined) <= MaxBlocks * issued + external

\* Everything but the counts.
Rest ==
  /\ ChainShape /\ CommandShape /\ CoinbaseInv
  /\ CommandInv /\ MessageInv /\ ClaimInv /\ PrintedInv

Inv == Rest /\ CountInv
------------------------------------------------------------------------------
(* Short channel ids.                                                       *)

\* Quotient and remainder are unique.
LEMMA DivMod ==
  ASSUME NEW q \in Nat, NEW d \in Nat \ {0}, NEW r \in 0..(d - 1)
  PROVE  (q * d + r) \div d = q /\ (q * d + r) % d = r
  OBVIOUS

\* An scid whose fields fit is taken apart into the same fields.
LEMMA ScidRoundTrip ==
  ASSUME NEW b \in Nat, NEW tx \in 0..(TxLimit - 1), NEW out \in 0..(OutLimit - 1)
  PROVE  scid(b, tx, out) \in Nat /\ scid_str(scid(b, tx, out)) = <<b, tx, out>>
  <1> DEFINE x == scid(b, tx, out)
  <1>1. TxLimit \in Nat \ {0} /\ OutLimit \in Nat \ {0}
    BY ScidAssumption
  <1>2. b * TxLimit + tx \in Nat /\ x = (b * TxLimit + tx) * OutLimit + out
    BY <1>1 DEF scid
  <1>3. x \div OutLimit = b * TxLimit + tx /\ x % OutLimit = out
    <2> DEFINE q == b * TxLimit + tx
    <2> HIDE DEF q
    <2>1. (q * OutLimit + out) \div OutLimit = q /\ (q * OutLimit + out) % OutLimit = out
      BY <1>1, <1>2, DivMod DEF q
    <2>2. QED
      BY <1>2, <2>1 DEF q
  <1>4. (b * TxLimit + tx) % TxLimit = tx
    BY <1>1, DivMod
  <1>5. x \div (TxLimit * OutLimit) = b
    <2> DEFINE d == TxLimit * OutLimit
               r == tx * OutLimit + out
    <2>1. d \in Nat \ {0} /\ r \in 0..(d - 1) /\ x = b * d + r
      BY <1>1, <1>2
    <2> HIDE DEF d, r, x
    <2>2. x \div d = b
      BY <2>1, DivMod
    <2>3. QED
      BY <2>2 DEF d
  <1>6. x \in Nat
    BY <1>1, <1>2
  <1> HIDE DEF x
  <1>7. scid_str(x) = <<b, tx, out>>
    BY <1>3, <1>4, <1>5 DEF scid_str
  <1>8. QED
    BY <1>6, <1>7 DEF x

\* Distinct blocks have distinct scids.
LEMMA ScidOfBlock ==
  ASSUME NEW b \in Nat
  PROVE  /\ scid(b, 0, 0) \in Nat /\ scid_str(scid(b, 0, 0)) = <<b, 0, 0>>
         /\ \A c \in Nat : scid(b, 0, 0) = scid(c, 0, 0) => b = c
  <1>1. \A c \in Nat : scid(c, 0, 0) \in Nat /\ scid_str(scid(c, 0, 0)) = <<c, 0, 0>>
    <2>1. 0 \in 0..(TxLimit - 1) /\ 0 \in 0..(OutLimit - 1)
      BY ScidAssumption
    <2>2. QED
      BY <2>1, ScidRoundTrip
  <1>2. ASSUME NEW c \in Nat, scid(b, 0, 0) = scid(c, 0, 0)
        PROVE  b = c
    <2>1. <<b, 0, 0>> = <<c, 0, 0>>
      BY <1>1, <1>2
    <2>2. QED
      BY <2>1
  <1>3. QED
    BY <1>1, <1>2

\* What parse_scid accepts is the scid that the user wrote.
LEMMA ParsedScid ==
  ASSUME NEW s \in Nat \X Nat \X Nat, parse_scid(s) # None
  PROVE  parse_scid(s) \in Nat /\ scid_str(parse_scid(s)) = s
  <1>1. s = <<s[1], s[2], s[3]>> /\ s[1] \in Nat /\ s[2] \in Nat /\ s[3] \in Nat
    OBVIOUS
  <1>2. s[2] < TxLimit /\ s[3] < OutLimit /\ parse_scid(s) = scid(s[1], s[2], s[3])
    BY DEF parse_scid
  <1>3. s[2] \in 0..(TxLimit - 1) /\ s[3] \in 0..(OutLimit - 1)
    BY <1>1, <1>2, ScidAssumption
  <1>4. scid(s[1], s[2], s[3]) \in Nat
        /\ scid_str(scid(s[1], s[2], s[3])) = <<s[1], s[2], s[3]>>
    BY <1>1, <1>3, ScidRoundTrip
  <1>5. QED
    BY <1>1, <1>2, <1>4

------------------------------------------------------------------------------
(* The chain.                                                               *)

\* The least element of a set that has 1 and nothing below it.
LEMMA MinIsOne ==
  ASSUME NEW S \in SUBSET (Nat \ {0}), 1 \in S
  PROVE  Min(S) = 1
  <1>1. \A x \in S : 1 <= x
    OBVIOUS
  <1>2. \A x \in S : (\A y \in S : x <= y) => x = 1
    <2>1. ASSUME NEW x \in S, \A y \in S : x <= y
          PROVE  x = 1
      <3>1. x <= 1 /\ 1 <= x /\ x \in Nat
        BY <1>1, <2>1
      <3>2. QED
        BY <3>1
    <2>2. QED
      BY <2>1
  <1>3. QED
    BY <1>1, <1>2 DEF Min

\* In a block whose coinbase pays the address and nothing else, the funding output is
\* the first output of the coinbase.
LEMMA CoinbaseFunds ==
  ASSUME NEW block, NEW address, Len(block) \in Nat, Len(block) >= 1,
         block[1] = <<address>>
  PROVE  funding_output(block, address) = [tx |-> 0, out |-> 0]
  <1> DEFINE I == {i \in 1..Len(block) : Pays(block[i], address)}
             O == {i \in 1..Len(block[1]) : block[1][i] = address}
             ti == SelectInSeq(block, LAMBDA tx : Pays(tx, address))
             oi == SelectInSeq(block[1], LAMBDA a : a = address)
  <1>1. Len(block[1]) = 1 /\ block[1][1] = address
    OBVIOUS
  <1>2. I \in SUBSET (Nat \ {0}) /\ 1 \in I /\ I # {}
    BY <1>1 DEF Pays
  <1>3. O \in SUBSET (Nat \ {0}) /\ 1 \in O /\ O # {}
    BY <1>1
  <1>4. ti = 1
    <2>1. ti = Min(I)
      BY <1>2 DEF SelectInSeq
    <2> HIDE DEF I, ti
    <2>2. QED
      BY <1>2, <2>1, MinIsOne
  <1>5. oi = 1
    <2>1. oi = Min(O)
      BY <1>3 DEF SelectInSeq
    <2> HIDE DEF O, oi
    <2>2. QED
      BY <1>3, <2>1, MinIsOne
  <1>6. funding_output(block, address) =
          [tx |-> ti - 1, out |-> SelectInSeq(block[ti], LAMBDA a : a = address) - 1]
    BY Zenon DEF funding_output
  <1>7. SelectInSeq(block[ti], LAMBDA a : a = address) = oi
    BY <1>4, Zenon
  <1> HIDE DEF ti, oi
  <1>8. QED
    BY <1>4, <1>5, <1>6, <1>7

\* What concatenation returns.
LEMMA Concatenated ==
  ASSUME NEW S, NEW s \in Seq(S), NEW u \in Seq(S)
  PROVE  /\ (s \o u) \in Seq(S) /\ Len(s \o u) = Len(s) + Len(u) /\ Len(s) \in Nat
         /\ \A h \in 1..Len(s) : (s \o u)[h] = s[h]
         /\ \A h \in (Len(s) + 1)..(Len(s) + Len(u)) : (s \o u)[h] = u[h - Len(s)]
  OBVIOUS

\* A step that leaves the blocks, and the addresses of the wallet, where they are.
Grows ==
  /\ Len(chain) <= Len(chain')
  /\ \A h \in 1..Len(chain) : chain'[h] = chain[h]
  /\ imported \subseteq imported'

\* generatetoaddress appends n blocks, each with a coinbase to the address.
LEMMA Generated ==
  ASSUME ChainShape, CoinbaseInv, NEW n \in Nat, NEW address \in Address,
         generate_to_address(n, address), imported' = imported, keys' = keys
  PROVE  /\ ChainShape' /\ CoinbaseInv' /\ Grows
         /\ Len(chain') = Len(chain) + n
         /\ \A h \in (Len(chain) + 1)..Len(chain') : chain'[h][1] = <<address>>
  <1> DEFINE rest(i) == IF i = 1 THEN mempool ELSE <<>>
             block(i) == <<(<<address>>)>> \o rest(i)
             mined == [i \in 1..n |-> block(i)]
  <1>1. chain \in Seq(Block) /\ mempool \in Seq(Transaction)
        /\ imported \subseteq [address : Nat \X Nat, height : Nat] /\ keys \in Nat
    BY DEF ChainShape
  <1>2. chain' = chain \o mined /\ mempool' = IF n = 0 THEN mempool ELSE <<>>
    BY DEF generate_to_address
  <1>3. <<address>> \in Transaction
    BY DEF Transaction
  <1>4. ASSUME NEW i \in 1..n
        PROVE  block(i) \in Block /\ Len(block(i)) >= 1 /\ block(i)[1] = <<address>>
    <2> DEFINE coinbase == <<address>>
    <2> HIDE DEF coinbase
    <2>1. rest(i) \in Seq(Transaction) /\ coinbase \in Transaction
      BY <1>1, <1>3 DEF coinbase
    <2> HIDE DEF rest
    <2>2. <<coinbase>> \in Seq(Transaction) /\ Len(<<coinbase>>) = 1 /\ <<coinbase>>[1] = coinbase
      BY <2>1
    <2>3. (<<coinbase>> \o rest(i)) \in Seq(Transaction)
          /\ Len(<<coinbase>> \o rest(i)) = 1 + Len(rest(i)) /\ Len(rest(i)) \in Nat
          /\ (<<coinbase>> \o rest(i))[1] = coinbase
      BY <2>1, <2>2
    <2>4. QED
      BY <2>3 DEF coinbase, Block
  <1> HIDE DEF block
  <1>5. mined \in Seq(Block) /\ Len(mined) = n /\ \A i \in 1..n : mined[i] = block(i)
    <2>1. mined \in [1..n -> Block] /\ \A i \in 1..n : mined[i] = block(i)
      BY <1>4
    <2> HIDE DEF mined
    <2>2. QED
      BY <2>1
  <1> HIDE DEF mined
  <1>6. /\ chain' \in Seq(Block) /\ Len(chain') = Len(chain) + n /\ Len(chain) \in Nat
        /\ \A h \in 1..Len(chain) : chain'[h] = chain[h]
        /\ \A h \in (Len(chain) + 1)..Len(chain') : chain'[h] = mined[h - Len(chain)]
    BY <1>1, <1>2, <1>5, Concatenated
  <1>7. ChainShape'
    BY <1>1, <1>2, <1>6 DEF ChainShape
  <1>8. ASSUME NEW h \in (Len(chain) + 1)..Len(chain')
        PROVE  Len(chain'[h]) >= 1 /\ chain'[h][1] = <<address>>
    <2>1. h - Len(chain) \in 1..n
      BY <1>6
    <2>2. chain'[h] = block(h - Len(chain))
      BY <1>5, <1>6, <2>1
    <2>3. QED
      BY <1>4, <2>1, <2>2
  <1>9. CoinbaseInv'
    <2>1. ASSUME NEW h \in 1..Len(chain')
          PROVE  Len(chain'[h]) >= 1
      <3>1. CASE h <= Len(chain)
        BY <1>6, <3>1 DEF CoinbaseInv
      <3>2. CASE h > Len(chain)
        BY <1>6, <1>8, <3>2
      <3>3. QED
        BY <1>6, <3>1, <3>2
    <2>2. QED
      BY <2>1 DEF CoinbaseInv
  <1>10. Grows
    BY <1>6 DEF Grows
  <1>11. QED
    BY <1>6, <1>7, <1>8, <1>9, <1>10
------------------------------------------------------------------------------
(* What a command records.                                                  *)

\* The updates of a command's record.
Begun(kind, p, n) ==
  [Idle EXCEPT !.pc = "address", !.kind = kind, !.peer = p, !.blocks = n]
BegunMine(n) == [Idle EXCEPT !.pc = "address", !.kind = "mine", !.blocks = n]
Drawn(c, f) == [c EXCEPT !.pc = "generate", !.funding = f]
Placed(c, b) == [c EXCEPT !.pc = "locate", !.first_block = b]
Found(c, x) == [c EXCEPT !.pc = "send", !.scid = x]

\* A command's record, written out.
Record(pc, kind, p, n, f, b, x) ==
  [pc |-> pc, kind |-> kind, peer |-> p, blocks |-> n, funding |-> f, first_block |-> b,
   scid |-> x]

\* What each update leaves.
LEMMA RecordUpdates ==
  ASSUME NEW pc, NEW kind, NEW p, NEW n, NEW f, NEW b, NEW x, NEW c,
         c = Record(pc, kind, p, n, f, b, x)
  PROVE  /\ \A g : Drawn(c, g) = Record("generate", kind, p, n, g, b, x)
         /\ \A a : Placed(c, a) = Record("locate", kind, p, n, f, a, x)
         /\ \A y : Found(c, y) = Record("send", kind, p, n, f, b, y)
  <1>1. ASSUME NEW g PROVE Drawn(c, g) = Record("generate", kind, p, n, g, b, x)
    <2> DEFINE c1 == [c EXCEPT !.pc = "generate"]
               c2 == [c1 EXCEPT !.funding = g]
    <2>1. c1 = Record("generate", kind, p, n, f, b, x)
      BY DEF Record
    <2> HIDE DEF c1
    <2>2. c2 = Record("generate", kind, p, n, g, b, x)
      BY <2>1 DEF Record
    <2>3. QED
      BY <2>2, Zenon DEF Drawn, c1, c2
  <1>2. ASSUME NEW a PROVE Placed(c, a) = Record("locate", kind, p, n, f, a, x)
    <2> DEFINE c1 == [c EXCEPT !.pc = "locate"]
               c2 == [c1 EXCEPT !.first_block = a]
    <2>1. c1 = Record("locate", kind, p, n, f, b, x)
      BY DEF Record
    <2> HIDE DEF c1
    <2>2. c2 = Record("locate", kind, p, n, f, a, x)
      BY <2>1 DEF Record
    <2>3. QED
      BY <2>2, Zenon DEF Placed, c1, c2
  <1>3. ASSUME NEW y PROVE Found(c, y) = Record("send", kind, p, n, f, b, y)
    <2> DEFINE c1 == [c EXCEPT !.pc = "send"]
               c2 == [c1 EXCEPT !.scid = y]
    <2>1. c1 = Record("send", kind, p, n, f, b, x)
      BY DEF Record
    <2> HIDE DEF c1
    <2>2. c2 = Record("send", kind, p, n, f, b, y)
      BY <2>1 DEF Record
    <2>3. QED
      BY <2>2, Zenon DEF Found, c1, c2
  <1>4. QED
    BY <1>1, <1>2, <1>3

\* A command that begins.
LEMMA RecordBegins ==
  ASSUME NEW kind, NEW p, NEW n
  PROVE  /\ Begun(kind, p, n) = Record("address", kind, p, n, None, 0, None)
         /\ BegunMine(n) = Record("address", "mine", None, n, None, 0, None)
  <1> DEFINE c0 == Idle
             c1 == [c0 EXCEPT !.pc = "address"]
             c2 == [c1 EXCEPT !.kind = kind]
             c3 == [c2 EXCEPT !.peer = p]
             c4 == [c3 EXCEPT !.blocks = n]
             d2 == [c1 EXCEPT !.kind = "mine"]
             d3 == [d2 EXCEPT !.blocks = n]
  <1>1. c0 = Record("idle", None, None, 0, None, 0, None)
    BY DEF Idle, Record
  <1> HIDE DEF c0
  <1>2. c1 = Record("address", None, None, 0, None, 0, None)
    BY <1>1 DEF Record
  <1> HIDE DEF c1
  <1>3. c2 = Record("address", kind, None, 0, None, 0, None)
        /\ d2 = Record("address", "mine", None, 0, None, 0, None)
    BY <1>2 DEF Record
  <1> HIDE DEF c2, d2
  <1>4. c3 = Record("address", kind, p, 0, None, 0, None)
        /\ d3 = Record("address", "mine", None, n, None, 0, None)
    BY <1>3 DEF Record
  <1> HIDE DEF c3
  <1>5. c4 = Record("address", kind, p, n, None, 0, None)
    BY <1>4 DEF Record
  <1>6. Begun(kind, p, n) = c4
    BY Zenon DEF Begun, c0, c1, c2, c3, c4
  <1>7. BegunMine(n) = d3
    BY Zenon DEF BegunMine, c0, c1, d2, d3
  <1>8. QED
    BY <1>4, <1>5, <1>6, <1>7

\* A record of a command is its fields.
LEMMA RecordFields ==
  /\ \A c \in CommandRecord :
       /\ c = Record(c.pc, c.kind, c.peer, c.blocks, c.funding, c.first_block, c.scid)
       /\ c.blocks \in Nat /\ c.first_block \in Nat
       /\ c.kind \in Kind \cup {None} /\ c.peer \in Peer \cup {None}
       /\ c.funding \in Funding \cup {None} /\ c.scid \in Nat \cup {None}
  /\ \A pc, kind, p, n, f, b, x :
       /\ Record(pc, kind, p, n, f, b, x).pc = pc
       /\ Record(pc, kind, p, n, f, b, x).kind = kind
       /\ Record(pc, kind, p, n, f, b, x).peer = p
       /\ Record(pc, kind, p, n, f, b, x).blocks = n
       /\ Record(pc, kind, p, n, f, b, x).funding = f
       /\ Record(pc, kind, p, n, f, b, x).first_block = b
       /\ Record(pc, kind, p, n, f, b, x).scid = x
  /\ \A pc \in {"idle", "address", "generate", "locate", "send"}, kind \in Kind \cup {None},
        p \in Peer \cup {None}, n \in Nat, f \in Funding \cup {None}, b \in Nat,
        x \in Nat \cup {None} :
       Record(pc, kind, p, n, f, b, x) \in CommandRecord
  BY DEF CommandRecord, Record

\* A client without a command.
LEMMA IdleKnown ==
  Idle \in CommandRecord /\ Idle.pc = "idle" /\ Known(Idle) /\ ~Holds(Idle)
  BY DEF CommandRecord, Idle, Known, Holds

------------------------------------------------------------------------------
(* What a step leaves of the rest.                                          *)

\* What is on the chain stays there.
LEMMA Stays ==
  ASSUME ChainShape, ChainShape', Grows
  PROVE  /\ \A b, a : \A n \in Nat : Mined(b, a, n) => Mined(b, a, n)'
         /\ \A f : Owned(f) => Owned(f)'
         /\ \A c \in CommandRecord : Known(c) => Known(c)'
         /\ \A m : Announced(m) => Announced(m)'
  <1>1. Len(chain) \in Nat /\ Len(chain') \in Nat /\ Len(chain) <= Len(chain')
    BY DEF ChainShape, Grows
  <1>2. ASSUME NEW b, NEW a, NEW n \in Nat, Mined(b, a, n)
        PROVE  Mined(b, a, n)'
    <2>1. b \in 1..Len(chain) /\ b + n <= Len(chain) + 1 /\ chain[b][1] = <<a>>
      BY <1>1, <1>2 DEF Mined
    <2>2. chain'[b] = chain[b]
      BY <2>1 DEF Grows
    <2>3. b \in Nat /\ b >= 1 /\ b <= Len(chain') /\ b + n <= Len(chain') + 1
      BY <1>1, <2>1
    <2>4. QED
      BY <2>1, <2>2, <2>3 DEF Mined
  <1>3. ASSUME NEW f, Owned(f)
        PROVE  Owned(f)'
    BY <1>3 DEF Owned, Grows
  <1>4. ASSUME NEW c \in CommandRecord, Known(c)
        PROVE  Known(c)'
    <2>1. c.blocks \in Nat
      BY RecordFields
    <2>2. QED
      BY <1>2, <1>3, <1>4, <2>1 DEF Known
  <1>5. ASSUME NEW m, Announced(m)
        PROVE  Announced(m)'
    <2>1. FundingBlocks \in Nat
      BY CommandAssumption
    <2>2. QED
      BY <1>2, <1>5, <2>1 DEF Announced
  <1>6. QED
    BY <1>2, <1>3, <1>4, <1>5

\* The other clients' records.
LEMMA CommandUpdate ==
  ASSUME CommandShape, NEW k \in Client, NEW c, cmd' = [cmd EXCEPT ![k] = c]
  PROVE  cmd'[k] = c /\ \A l \in Client : l # k => cmd'[l] = cmd[l]
  BY DEF CommandShape

\* A step of a command that sends nothing and keeps the block that the command holds,
\* or takes the next one.
LEMMA CommandStep ==
  ASSUME Rest, ChainShape', CoinbaseInv', Grows,
         NEW k \in Client, NEW c \in CommandRecord, cmd' = [cmd EXCEPT ![k] = c], Known(c)',
         Holds(c) => \/ Holds(cmd[k]) /\ c.first_block = cmd[k].first_block
                     \/ c.first_block = Len(chain) + 1,
         received' = received, printed' = printed, issued' \in 0..MaxCommands,
         external' = external
  PROVE  Rest'
  <1>1. cmd'[k] = c /\ \A l \in Client : l # k => cmd'[l] = cmd[l]
    BY CommandUpdate DEF Rest
  <1>2. CommandShape'
    BY DEF Rest, CommandShape
  <1>3. ChainShape /\ Len(chain) \in Nat /\ Len(chain') \in Nat /\ Len(chain) <= Len(chain')
    BY DEF Rest, ChainShape, Grows
  <1>4. CommandInv'
    <2>1. ASSUME NEW l \in Client, l # k
          PROVE  Known(cmd[l])'
      <3>1. cmd[l] \in CommandRecord /\ Known(cmd[l]) /\ cmd'[l] = cmd[l]
        BY <1>1, <2>1 DEF Rest, CommandShape, CommandInv
      <3>2. \A e \in CommandRecord : Known(e) => Known(e)'
        BY <1>3, Stays
      <3>3. PICK e \in CommandRecord : e = cmd[l]
        BY <3>1
      <3>4. Known(e)'
        BY <3>1, <3>2, <3>3
      <3>5. cmd'[l] = e
        BY <3>1, <3>3
      <3>6. QED
        BY <3>4, <3>5
    <2>2. Known(cmd[k])'
      BY <1>1
    <2>3. QED
      BY <2>1, <2>2 DEF CommandInv
  <1>5. MessageInv'
    <2>1. \A m : Announced(m) => Announced(m)'
      BY <1>3, Stays
    <2>2. ASSUME NEW p \in Peer, NEW n \in 1..Len(received[p])
          PROVE  Announced(received[p][n])' /\ Followed(received[p][n])
      <3>1. Announced(received[p][n]) /\ Followed(received[p][n])
        BY <2>2 DEF Rest, MessageInv
      <3>2. PICK m : m = received[p][n]
        OBVIOUS
      <3>3. Announced(m)'
        BY <2>1, <3>1, <3>2
      <3>4. received'[p][n] = m
        BY <3>2
      <3>5. QED
        BY <3>1, <3>3, <3>4
    <2>3. QED
      BY <2>2 DEF MessageInv
  <1>6. ClaimInv'
    <2>1. \A p \in Peer, b \in Nat : \A n \in 1..Len(received[p]) :
            Claims(p, n, b) => b <= Len(chain)
      <3>1. ASSUME NEW p \in Peer, NEW b \in Nat, NEW n \in 1..Len(received[p]),
                   Claims(p, n, b)
            PROVE  b <= Len(chain)
        <4>1. PICK a \in Nat : received[p][n].short_channel_id = scid(a, 0, 0)
                               /\ a <= Len(chain)
          BY <3>1 DEF Rest, MessageInv, Announced, Mined, Claims
        <4>2. a = b
          BY <3>1, <4>1, ScidOfBlock DEF Claims
        <4>3. QED
          BY <4>1, <4>2
      <3>2. QED
        BY <3>1
    <2>2. \A l \in Client : Holds(cmd[l]) => cmd[l].first_block \in 1..Len(chain)
      BY <1>3 DEF Rest, CommandInv, Known, Holds, Mined
    <2>3. ASSUME NEW l \in Client, l # k, Holds(cmd[l]), Holds(c),
                 cmd[l].first_block = c.first_block
          PROVE  FALSE
      <3>1. CASE Holds(cmd[k]) /\ c.first_block = cmd[k].first_block
        BY <2>3, <3>1 DEF Rest, ClaimInv
      <3>2. CASE c.first_block = Len(chain) + 1
        BY <1>3, <2>2, <2>3, <3>2
      <3>3. QED
        BY <2>3, <3>1, <3>2
    <2>4. ASSUME NEW p \in Peer, NEW n \in 1..Len(received[p]), Holds(c)
          PROVE  ~Claims(p, n, c.first_block)
      <3>1. c.first_block \in Nat
        BY RecordFields
      <3>2. CASE Holds(cmd[k]) /\ c.first_block = cmd[k].first_block
        BY <3>2 DEF Rest, ClaimInv
      <3>3. CASE c.first_block = Len(chain) + 1
        BY <1>3, <2>1, <3>1, <3>3
      <3>4. QED
        BY <2>4, <3>2, <3>3
    <2>5. \A p, n, b : Claims(p, n, b)' <=> Claims(p, n, b)
      BY DEF Claims
    <2>6. \A x, y \in Client :
            Holds(cmd'[x]) /\ Holds(cmd'[y]) /\ cmd'[x].first_block = cmd'[y].first_block
              => x = y
      <3>1. SUFFICES ASSUME NEW x \in Client, NEW y \in Client, Holds(cmd'[x]), Holds(cmd'[y]),
                            cmd'[x].first_block = cmd'[y].first_block, x # y
                     PROVE  FALSE
        OBVIOUS
      <3>2. CASE x = k
        BY <1>1, <2>3, <3>1, <3>2
      <3>3. CASE y = k
        BY <1>1, <2>3, <3>1, <3>3
      <3>4. CASE x # k /\ y # k
        BY <1>1, <3>1, <3>4 DEF Rest, ClaimInv
      <3>5. QED
        BY <3>2, <3>3, <3>4
    <2>7. \A x \in Client, p \in Peer : \A n \in 1..Len(received[p]) :
            Holds(cmd'[x]) => ~Claims(p, n, cmd'[x].first_block)
      BY <1>1, <2>4 DEF Rest, ClaimInv
    <2>8. \A p, q \in Peer, b \in Nat :
            \A n \in 1..Len(received[p]), m \in 1..Len(received[q]) :
              Claims(p, n, b) /\ Claims(q, m, b) => p = q /\ n = m
      BY DEF Rest, ClaimInv
    <2>9. QED
      BY <2>5, <2>6, <2>7, <2>8 DEF ClaimInv, Holds
  <1>7. PrintedInv'
    <2>1. 1..Len(chain) \subseteq 1..Len(chain')
      BY <1>3
    <2>2. QED
      BY <2>1 DEF Rest, PrintedInv
  <1>8. QED
    BY <1>2, <1>4, <1>5, <1>6, <1>7 DEF Rest
\* What Deliver does with a message.
LEMMA Delivered ==
  ASSUME CommandShape, NEW p \in Peer, NEW m \in MessageRecord, Deliver(p, m)
  PROVE  /\ received' \in [Peer -> Seq(MessageRecord)]
         /\ Len(received[p]) \in Nat /\ Len(received'[p]) = Len(received[p]) + 1
         /\ received'[p][Len(received[p]) + 1] = m
         /\ \A n \in 1..Len(received[p]) : received'[p][n] = received[p][n]
         /\ \A q \in Peer : q # p => received'[q] = received[q]
  <1>1. received \in [Peer -> Seq(MessageRecord)]
    BY DEF CommandShape
  <1> DEFINE s == received[p]
             u == Append(s, m)
  <1>2. s \in Seq(MessageRecord)
    BY <1>1
  <1>3. received' = [received EXCEPT ![p] = u]
    BY DEF Deliver
  <1> HIDE DEF s, u
  <1>4. /\ u \in Seq(MessageRecord) /\ Len(s) \in Nat /\ Len(u) = Len(s) + 1
        /\ u[Len(s) + 1] = m /\ \A n \in 1..Len(s) : u[n] = s[n]
    BY <1>2 DEF u
  <1>5. received'[p] = u /\ received' \in [Peer -> Seq(MessageRecord)]
        /\ \A q \in Peer : q # p => received'[q] = received[q]
    BY <1>1, <1>3, <1>4
  <1>6. QED
    BY <1>4, <1>5 DEF s

\* A step that sends one message.  An announcement is for the block that the command
\* holds, and the command ends.
LEMMA DeliverStep ==
  ASSUME Rest, UNCHANGED bitcoind, NEW k \in Client,
         NEW p \in Peer, NEW m \in MessageRecord, Deliver(p, m), Announced(m), Followed(m),
         \/ m.type # "channel_announcement" /\ cmd' = cmd
         \/ /\ cmd' = [cmd EXCEPT ![k] = Idle] /\ Holds(cmd[k])
            /\ m.short_channel_id = scid(cmd[k].first_block, 0, 0),
         PrintedInv', issued' \in 0..MaxCommands, external' = external
  PROVE  Rest'
  <1>1. /\ received' \in [Peer -> Seq(MessageRecord)]
        /\ Len(received[p]) \in Nat /\ Len(received'[p]) = Len(received[p]) + 1
        /\ received'[p][Len(received[p]) + 1] = m
        /\ \A n \in 1..Len(received[p]) : received'[p][n] = received[p][n]
        /\ \A q \in Peer : q # p => received'[q] = received[q]
    BY Delivered DEF Rest
  <1>2. /\ chain' = chain /\ mempool' = mempool /\ imported' = imported /\ keys' = keys
    BY DEF bitcoind
  <1>3. ChainShape' /\ CoinbaseInv'
    BY <1>2 DEF Rest, ChainShape, CoinbaseInv
  <1>4. /\ cmd' \in [Client -> CommandRecord]
        /\ \A l \in Client : cmd'[l] = cmd[l] \/ cmd'[l] = Idle
    BY IdleKnown DEF Rest, CommandShape
  <1>5. CommandShape'
    BY <1>1, <1>4 DEF Rest, CommandShape
  <1>6. CommandInv'
    <2>1. ASSUME NEW l \in Client PROVE Known(cmd'[l])
      BY <1>4, IdleKnown DEF Rest, CommandInv
    <2>2. QED
      BY <1>2, <2>1 DEF CommandInv, Known, Owned, Mined
  <1>7. \A q \in Peer : \A n \in 1..Len(received'[q]) :
          \/ n \in 1..Len(received[q]) /\ received'[q][n] = received[q][n]
          \/ q = p /\ n = Len(received[p]) + 1 /\ received'[q][n] = m
    <2>1. ASSUME NEW q \in Peer, NEW n \in 1..Len(received'[q])
          PROVE  \/ n \in 1..Len(received[q]) /\ received'[q][n] = received[q][n]
                 \/ q = p /\ n = Len(received[p]) + 1 /\ received'[q][n] = m
      <3>1. CASE q # p
        BY <1>1, <2>1, <3>1
      <3>2. CASE q = p
        <4>1. n \in 1..Len(received[p]) \/ n = Len(received[p]) + 1
          BY <1>1, <2>1, <3>2
        <4>2. QED
          BY <1>1, <3>2, <4>1
      <3>3. QED
        BY <3>1, <3>2
    <2>2. QED
      BY <2>1
  <1>8. MessageInv'
    <2>1. ASSUME NEW q \in Peer, NEW n \in 1..Len(received'[q])
          PROVE  Announced(received'[q][n]) /\ Followed(received'[q][n])
      <3>1. CASE n \in 1..Len(received[q]) /\ received'[q][n] = received[q][n]
        BY <3>1 DEF Rest, MessageInv
      <3>2. CASE q = p /\ n = Len(received[p]) + 1 /\ received'[q][n] = m
        BY <3>2
      <3>3. QED
        BY <1>7, <2>1, <3>1, <3>2
    <2>2. QED
      BY <1>2, <2>1 DEF MessageInv, Announced, Mined, Followed
  <1>9. ClaimInv'
    <2> DEFINE last == Len(received[p]) + 1
    <2>1. \A q \in Peer, b \in Nat : \A n \in 1..Len(received'[q]) :
            Claims(q, n, b)' =>
              \/ n \in 1..Len(received[q]) /\ Claims(q, n, b)
              \/ /\ q = p /\ n = last /\ Holds(cmd[k]) /\ cmd' = [cmd EXCEPT ![k] = Idle]
                 /\ b = cmd[k].first_block
      <3>1. ASSUME NEW q \in Peer, NEW b \in Nat, NEW n \in 1..Len(received'[q]),
                   Claims(q, n, b)'
            PROVE  \/ n \in 1..Len(received[q]) /\ Claims(q, n, b)
                   \/ /\ q = p /\ n = last /\ Holds(cmd[k]) /\ cmd' = [cmd EXCEPT ![k] = Idle]
                      /\ b = cmd[k].first_block
        <4>1. CASE n \in 1..Len(received[q]) /\ received'[q][n] = received[q][n]
          BY <3>1, <4>1 DEF Claims
        <4>2. CASE q = p /\ n = last /\ received'[q][n] = m
          <5>1. m.type = "channel_announcement" /\ m.short_channel_id = scid(b, 0, 0)
            BY <3>1, <4>2 DEF Claims
          <5>2. /\ cmd' = [cmd EXCEPT ![k] = Idle] /\ Holds(cmd[k])
                /\ m.short_channel_id = scid(cmd[k].first_block, 0, 0)
            BY <5>1
          <5>3. cmd[k].first_block \in Nat
            BY RecordFields DEF Rest, CommandShape
          <5>4. b = cmd[k].first_block
            BY <5>1, <5>2, <5>3, ScidOfBlock
          <5>5. QED
            BY <4>2, <5>2, <5>4
        <4>3. QED
          BY <1>7, <3>1, <4>1, <4>2
      <3>2. QED
        BY <3>1
    <2>2. \A l \in Client : Holds(cmd'[l]) => cmd'[l] = cmd[l] /\ Holds(cmd[l])
      BY <1>4, IdleKnown
    <2>3. \A x, y \in Client :
            Holds(cmd'[x]) /\ Holds(cmd'[y]) /\ cmd'[x].first_block = cmd'[y].first_block
              => x = y
      BY <2>2 DEF Rest, ClaimInv
    <2>4. ASSUME NEW x \in Client, NEW q \in Peer, NEW n \in 1..Len(received'[q]),
                 NEW b \in Nat, Holds(cmd'[x]), cmd'[x].first_block = b, Claims(q, n, b)'
          PROVE  FALSE
      <3>1. cmd'[x] = cmd[x] /\ Holds(cmd[x]) /\ cmd[x].first_block = b
        BY <2>2, <2>4
      <3>2. CASE n \in 1..Len(received[q]) /\ Claims(q, n, b)
        BY <3>1, <3>2 DEF Rest, ClaimInv
      <3>3. CASE /\ Holds(cmd[k]) /\ cmd' = [cmd EXCEPT ![k] = Idle]
                 /\ b = cmd[k].first_block
        <4>1. x = k
          BY <3>1, <3>3 DEF Rest, ClaimInv
        <4>2. cmd'[k] = Idle
          BY <3>3 DEF Rest, CommandShape
        <4>3. QED
          BY <2>4, <4>1, <4>2, IdleKnown
      <3>4. QED
        BY <2>1, <2>4, <3>2, <3>3
    <2>5. ASSUME NEW q \in Peer, NEW w \in Peer, NEW b \in Nat,
                 NEW n \in 1..Len(received'[q]), NEW o \in 1..Len(received'[w]),
                 Claims(q, n, b)', Claims(w, o, b)'
          PROVE  q = w /\ n = o
      <3>1. CASE n \in 1..Len(received[q]) /\ Claims(q, n, b)
        <4>1. CASE o \in 1..Len(received[w]) /\ Claims(w, o, b)
          BY <3>1, <4>1 DEF Rest, ClaimInv
        <4>2. CASE Holds(cmd[k]) /\ b = cmd[k].first_block
          BY <3>1, <4>2 DEF Rest, ClaimInv
        <4>3. QED
          BY <2>1, <2>5, <4>1, <4>2
      <3>2. CASE q = p /\ n = last /\ Holds(cmd[k]) /\ b = cmd[k].first_block
        <4>1. CASE o \in 1..Len(received[w]) /\ Claims(w, o, b)
          BY <3>2, <4>1 DEF Rest, ClaimInv
        <4>2. CASE w = p /\ o = last
          BY <3>2, <4>2
        <4>3. QED
          BY <2>1, <2>5, <4>1, <4>2
      <3>3. QED
        BY <2>1, <2>5, <3>1, <3>2
    <2>6. \A x \in Client : cmd'[x].first_block \in Nat
      BY <1>4, RecordFields
    <2>7. \A x \in Client, q \in Peer : \A n \in 1..Len(received'[q]) :
            Holds(cmd'[x]) => ~(/\ received'[q][n].type = "channel_announcement"
                                /\ received'[q][n].short_channel_id
                                     = scid(cmd'[x].first_block, 0, 0))
      BY <2>4, <2>6 DEF Claims
    <2>8. QED
      BY <2>3, <2>5, <2>7 DEF ClaimInv, Holds, Claims
  <1>10. QED
    BY <1>3, <1>5, <1>6, <1>8, <1>9 DEF Rest

------------------------------------------------------------------------------
(* Counting commands.                                                       *)

\* How the numbers of commands that have not drawn keys, or not mined, change with
\* the record of one command.
LEMMA Counted ==
  ASSUME CommandShape, NEW k \in Client, NEW c, cmd' = [cmd EXCEPT ![k] = c]
  PROVE  /\ Cardinality(Undrawn) \in Nat /\ Cardinality(Unmined) \in Nat
         /\ Cardinality(Undrawn') \in Nat /\ Cardinality(Unmined') \in Nat
         /\ (cmd[k].pc = "address") = (c.pc = "address") =>
              Cardinality(Undrawn') = Cardinality(Undrawn)
         /\ cmd[k].pc = "address" /\ c.pc # "address" =>
              Cardinality(Undrawn') = Cardinality(Undrawn) - 1
         /\ cmd[k].pc # "address" /\ c.pc = "address" =>
              Cardinality(Undrawn') = Cardinality(Undrawn) + 1
         /\ (cmd[k].pc \in {"address", "generate"}) = (c.pc \in {"address", "generate"}) =>
              Cardinality(Unmined') = Cardinality(Unmined)
         /\ cmd[k].pc \in {"address", "generate"} /\ c.pc \notin {"address", "generate"} =>
              Cardinality(Unmined') = Cardinality(Unmined) - 1
         /\ cmd[k].pc \notin {"address", "generate"} /\ c.pc \in {"address", "generate"} =>
              Cardinality(Unmined') = Cardinality(Unmined) + 1
  <1>1. cmd'[k] = c /\ \A l \in Client : l # k => cmd'[l] = cmd[l]
    BY CommandUpdate
  <1>2. IsFiniteSet(Client)
    BY CommandAssumption
  <1>3. ASSUME NEW S \in SUBSET Client
        PROVE  /\ Cardinality(S) \in Nat
               /\ k \in S => Cardinality(S \ {k}) = Cardinality(S) - 1
               /\ k \notin S => Cardinality(S \cup {k}) = Cardinality(S) + 1
    <2>1. IsFiniteSet(S)
      BY <1>2, FS_Subset
    <2>2. QED
      BY <2>1, FS_CardinalityType, FS_AddElement, FS_RemoveElement
  <1>4. Undrawn \in SUBSET Client /\ Unmined \in SUBSET Client
        /\ Undrawn' \in SUBSET Client /\ Unmined' \in SUBSET Client
    BY DEF Undrawn, Unmined
  <1>5. Undrawn' = IF c.pc = "address" THEN Undrawn \cup {k} ELSE Undrawn \ {k}
    BY <1>1 DEF Undrawn
  <1>6. Unmined' = IF c.pc \in {"address", "generate"} THEN Unmined \cup {k}
                                                        ELSE Unmined \ {k}
    BY <1>1 DEF Unmined
  <1>7. (k \in Undrawn) = (cmd[k].pc = "address")
        /\ (k \in Unmined) = (cmd[k].pc \in {"address", "generate"})
    BY DEF Undrawn, Unmined
  <1>8. \A S : (k \in S => S \cup {k} = S) /\ (k \notin S => S \ {k} = S)
    OBVIOUS
  <1>9. QED
    BY <1>3, <1>4, <1>5, <1>6, <1>7, <1>8

\* Keys are drawn once for a command, and its blocks are mined once.
LEMMA CountStep ==
  ASSUME CommandShape, CountInv, NEW k \in Client, NEW c, cmd' = [cmd EXCEPT ![k] = c],
         keys \in Nat, keys' \in Nat, Len(chain) \in Nat, Len(chain') \in Nat,
         external' = external,
         \/ /\ cmd[k].pc = "idle" /\ c.pc = "address" /\ issued' = issued + 1
            /\ keys' = keys /\ Len(chain') = Len(chain)
         \/ /\ cmd[k].pc = "address" /\ c.pc \in {"idle", "generate"} /\ issued' = issued
            /\ keys' <= keys + 2 /\ Len(chain') = Len(chain)
         \/ /\ cmd[k].pc = "generate" /\ c.pc \in {"idle", "locate"} /\ issued' = issued
            /\ keys' = keys /\ Len(chain') <= Len(chain) + MaxBlocks
         \/ /\ cmd[k].pc \in {"locate", "send"} /\ c.pc \in {"idle", "send"}
            /\ issued' = issued /\ keys' = keys /\ Len(chain') = Len(chain)
  PROVE  CountInv'
  <1> DEFINE u == Cardinality(Undrawn)
             v == Cardinality(Undrawn')
             w == Cardinality(Unmined)
             x == Cardinality(Unmined')
  <1>1. u \in Nat /\ v \in Nat /\ w \in Nat /\ x \in Nat
    BY Counted
  <1>2. /\ keys + 2 * u <= 2 * issued
        /\ Len(chain) + MaxBlocks * w <= MaxBlocks * issued + external
    BY DEF CountInv
  <1>3. MaxBlocks \in Nat /\ issued \in Nat /\ external \in Nat
    BY CommandAssumption DEF CommandShape
  <1>4. MaxBlocks * (w - 1) = MaxBlocks * w - MaxBlocks
        /\ MaxBlocks * (w + 1) = MaxBlocks * w + MaxBlocks
        /\ MaxBlocks * (issued + 1) = MaxBlocks * issued + MaxBlocks
        /\ MaxBlocks * w \in Nat /\ MaxBlocks * issued \in Nat
    BY <1>1, <1>3, SMTT(30)
  <1>5. CASE /\ cmd[k].pc = "idle" /\ c.pc = "address" /\ issued' = issued + 1
             /\ keys' = keys /\ Len(chain') = Len(chain)
    <2>1. v = u + 1 /\ x = w + 1
      BY <1>5, Counted
    <2> HIDE DEF u, v, w, x
    <2>2. /\ keys' + 2 * v <= 2 * issued'
          /\ Len(chain') + MaxBlocks * x <= MaxBlocks * issued' + external'
      BY <1>1, <1>2, <1>3, <1>4, <1>5, <2>1
    <2>3. QED
      BY <2>2 DEF CountInv, v, x
  <1>6. CASE /\ cmd[k].pc = "address" /\ c.pc \in {"idle", "generate"} /\ issued' = issued
             /\ keys' <= keys + 2 /\ Len(chain') = Len(chain)
    <2>1. v = u - 1
      BY <1>6, Counted
    <2>2. x = w \/ x = w - 1
      <3>1. CASE c.pc = "idle"
        BY <1>6, <3>1, Counted
      <3>2. CASE c.pc = "generate"
        <4>1. (cmd[k].pc \in {"address", "generate"}) = (c.pc \in {"address", "generate"})
          BY <1>6, <3>2
        <4>2. QED
          BY <4>1, Counted
      <3>3. QED
        BY <1>6, <3>1, <3>2
    <2> HIDE DEF u, v, w, x
    <2>3. MaxBlocks * x <= MaxBlocks * w /\ MaxBlocks * x \in Nat
      <3>1. CASE x = w
        BY <1>1, <1>3, <3>1
      <3>2. CASE x = w - 1
        BY <1>1, <1>3, <1>4, <3>2
      <3>3. QED
        BY <2>2, <3>1, <3>2
    <2>4. keys' + 2 * v <= 2 * issued'
      <3>1. keys' <= keys + 2 /\ keys + 2 * u <= 2 * issued /\ v = u - 1
        BY <1>2, <1>6, <2>1
      <3>2. keys' + 2 * v <= 2 * issued
        <4>1. \A a, b, i, j, y \in Nat :
                a <= b + 2 /\ b + 2 * i <= 2 * j /\ y = i - 1 => a + 2 * y <= 2 * j
          OBVIOUS
        <4>2. QED
          BY <1>1, <1>3, <3>1, <4>1
      <3>3. QED
        BY <1>6, <3>2
    <2>5. Len(chain') + MaxBlocks * x <= MaxBlocks * issued' + external'
      <3> DEFINE mx == MaxBlocks * x
                 mw == MaxBlocks * w
                 mi == MaxBlocks * issued
      <3>1. mx <= mw /\ mx \in Nat /\ mw \in Nat /\ mi \in Nat
            /\ Len(chain) + mw <= mi + external
        BY <1>2, <1>4, <2>3
      <3> HIDE DEF mx, mw, mi
      <3>2. Len(chain) + mx <= mi + external
        BY <1>3, <3>1
      <3>3. QED
        BY <1>6, <3>2 DEF mx, mi
    <2>6. QED
      BY <2>4, <2>5 DEF CountInv, v, x
  <1>7. CASE /\ cmd[k].pc = "generate" /\ c.pc \in {"idle", "locate"} /\ issued' = issued
             /\ keys' = keys /\ Len(chain') <= Len(chain) + MaxBlocks
    <2>1. v = u /\ x = w - 1
      BY <1>7, Counted
    <2> HIDE DEF u, v, w, x
    <2>2. /\ keys' + 2 * v <= 2 * issued'
          /\ Len(chain') + MaxBlocks * x <= MaxBlocks * issued' + external'
      BY <1>1, <1>2, <1>3, <1>4, <1>7, <2>1
    <2>3. QED
      BY <2>2 DEF CountInv, v, x
  <1>8. CASE /\ cmd[k].pc \in {"locate", "send"} /\ c.pc \in {"idle", "send"}
             /\ issued' = issued /\ keys' = keys /\ Len(chain') = Len(chain)
    <2>1. /\ (cmd[k].pc = "address") = (c.pc = "address")
          /\ (cmd[k].pc \in {"address", "generate"}) = (c.pc \in {"address", "generate"})
      BY <1>8
    <2>2. v = u /\ x = w
      BY <2>1, Counted
    <2> HIDE DEF u, v, w, x
    <2>3. /\ keys' + 2 * v <= 2 * issued'
          /\ Len(chain') + MaxBlocks * x <= MaxBlocks * issued' + external'
      BY <1>2, <1>8, <2>2
    <2>4. QED
      BY <2>3 DEF CountInv, v, x
  <1>9. QED
    BY <1>5, <1>6, <1>7, <1>8

------------------------------------------------------------------------------
(* One lemma for each step.                                                 *)

\* The shapes of the invariant, taken apart.
LEMMA Shapes ==
  ASSUME Inv
  PROVE  /\ Rest /\ CountInv /\ ChainShape /\ CommandShape /\ CoinbaseInv
         /\ Len(chain) \in Nat /\ keys \in Nat /\ cmd \in [Client -> CommandRecord]
         /\ \A k \in Client : Known(cmd[k]) /\ cmd[k] \in CommandRecord
  BY DEF Inv, Rest, ChainShape, CommandShape, CommandInv

\* A step that leaves bitcoind alone.
LEMMA SameChain ==
  ASSUME ChainShape, CoinbaseInv, UNCHANGED bitcoind
  PROVE  /\ ChainShape' /\ CoinbaseInv' /\ Grows
         /\ chain' = chain /\ keys' = keys
  <1>1. chain' = chain /\ mempool' = mempool /\ imported' = imported /\ keys' = keys
    BY DEF bitcoind
  <1>2. Len(chain) \in Nat
    BY DEF ChainShape
  <1>3. QED
    BY <1>1, <1>2 DEF ChainShape, CoinbaseInv, Grows

\* mine and the announcing commands begin alike.
LEMMA BeginStep ==
  ASSUME Inv, NEW k \in Client, NEW c, Issue(k), cmd' = [cmd EXCEPT ![k] = c],
         \/ \E n \in MineArgs : c = BegunMine(n)
         \/ \E p \in Peer, kind \in {"announcement", "announcement2"} :
              c = Begun(kind, p, FundingBlocks),
         UNCHANGED <<bitcoind, received, printed, external>>
  PROVE  Inv'
  <1>1. /\ Rest /\ CountInv /\ ChainShape /\ CommandShape /\ CoinbaseInv
        /\ Len(chain) \in Nat /\ keys \in Nat
    BY Shapes
  <1>2. /\ ChainShape' /\ CoinbaseInv' /\ Grows /\ chain' = chain /\ keys' = keys
    BY <1>1, SameChain
  <1>3. cmd[k].pc = "idle" /\ issued' = issued + 1 /\ issued' \in 0..MaxCommands
    BY <1>1, CommandAssumption DEF Issue, CommandShape
  <1>4. PICK kind \in Kind, p \in Peer \cup {None}, n \in 0..MaxBlocks :
          /\ c = Record("address", kind, p, n, None, 0, None)
          /\ kind # "mine" => p \in Peer /\ n = FundingBlocks
    <2>1. CASE \E n \in MineArgs : c = BegunMine(n)
      <3>1. PICK n \in MineArgs : c = BegunMine(n)
        BY <2>1
      <3>2. c = Record("address", "mine", None, n, None, 0, None)
        BY <3>1, RecordBegins
      <3>3. QED
        BY <3>2, CommandAssumption DEF Kind
    <2>2. CASE \E p \in Peer, kind \in {"announcement", "announcement2"} :
                 c = Begun(kind, p, FundingBlocks)
      <3>1. PICK p \in Peer, kind \in {"announcement", "announcement2"} :
              c = Begun(kind, p, FundingBlocks)
        BY <2>2
      <3>2. c = Record("address", kind, p, FundingBlocks, None, 0, None)
        BY <3>1, RecordBegins
      <3>3. FundingBlocks \in 0..MaxBlocks
        BY CommandAssumption
      <3>4. QED
        BY <3>2, <3>3 DEF Kind
    <2>3. QED
      BY <2>1, <2>2
  <1>5. n \in Nat
    BY <1>4, CommandAssumption
  <1>6. /\ c \in CommandRecord /\ c.pc = "address" /\ c.kind = kind /\ c.peer = p
        /\ c.blocks = n
    <2>1. /\ kind \in Kind \cup {None} /\ p \in Peer \cup {None}
          /\ None \in Funding \cup {None} /\ None \in Nat \cup {None} /\ 0 \in Nat
          /\ "address" \in {"idle", "address", "generate", "locate", "send"}
      OBVIOUS
    <2>2. Record("address", kind, p, n, None, 0, None) \in CommandRecord
      BY ONLY <1>5, <2>1, RecordFields
    <2>3. LET r == Record("address", kind, p, n, None, 0, None)
          IN  r.pc = "address" /\ r.kind = kind /\ r.peer = p /\ r.blocks = n
      BY ONLY RecordFields
    <2>4. QED
      BY <1>4, <2>2, <2>3
  <1>7. Known(c)' /\ ~Holds(c)
    BY <1>4, <1>6 DEF Known, Holds
  <1>8. Rest'
    BY <1>1, <1>2, <1>3, <1>6, <1>7, CommandStep
  <1>9. CountInv'
    BY <1>1, <1>2, <1>3, <1>6, CountStep
  <1>10. QED
    BY <1>8, <1>9 DEF Inv

\* mine begins.
LEMMA MineStep ==
  ASSUME Inv, NEW k \in Client, NEW n \in MineArgs, Mine(k, n)
  PROVE  Inv'
  <1>1. cmd' = [cmd EXCEPT ![k] = BegunMine(n)]
    BY DEF Mine, BegunMine
  <1>2. QED
    BY <1>1, BeginStep DEF Mine

\* An announcing command begins.
LEMMA AnnounceStep ==
  ASSUME Inv, NEW k \in Client, NEW p \in Peer, NEW kind \in {"announcement", "announcement2"},
         Announce(k, p, kind)
  PROVE  Inv'
  <1>1. cmd' = [cmd EXCEPT ![k] = Begun(kind, p, FundingBlocks)]
    BY DEF Announce, Begun
  <1>2. QED
    BY <1>1, BeginStep DEF Announce

\* A command ends: with an error, or with an answer that says no scid.
LEMMA EndStep ==
  ASSUME Inv, ChainShape', CoinbaseInv', Grows, NEW k \in Client, Answer(k),
         received' = received, printed' = printed, issued' = issued, external' = external,
         \/ cmd[k].pc = "address" /\ keys' <= keys + 2 /\ Len(chain') = Len(chain)
         \/ cmd[k].pc = "generate" /\ keys' = keys /\ Len(chain') <= Len(chain) + MaxBlocks
         \/ cmd[k].pc \in {"locate", "send"} /\ keys' = keys /\ Len(chain') = Len(chain)
  PROVE  Inv'
  <1>1. /\ Rest /\ CountInv /\ ChainShape /\ CommandShape /\ CoinbaseInv
        /\ Len(chain) \in Nat /\ keys \in Nat
    BY Shapes
  <1>2. cmd' = [cmd EXCEPT ![k] = Idle]
    BY DEF Answer
  <1>3. Idle \in CommandRecord /\ Idle.pc = "idle" /\ ~Holds(Idle) /\ Known(Idle)'
    BY IdleKnown DEF Known
  <1>4. issued' \in 0..MaxCommands /\ keys' \in Nat /\ Len(chain') \in Nat
    BY <1>1 DEF CommandShape, ChainShape
  <1> DEFINE c == Idle
  <1>5. c \in CommandRecord /\ c.pc = "idle" /\ ~Holds(c) /\ Known(c)'
        /\ cmd' = [cmd EXCEPT ![k] = c]
    BY <1>2, <1>3
  <1> HIDE DEF c
  <1>6. Rest'
    BY <1>1, <1>4, <1>5, CommandStep
  <1>7. CountInv'
    BY <1>1, <1>4, <1>5, CountStep
  <1>8. QED
    BY <1>6, <1>7 DEF Inv

\* Keys in order, and the address of the pair.
LEMMA SortedKeys ==
  ASSUME NEW x \in Nat, NEW y \in Nat, x # y
  PROVE  LET f == sorted_keys(x, y)
         IN  f \in Funding /\ f.address = <<f.sk1, f.sk2>> /\ f.sk1 < f.sk2
  BY DEF sorted_keys, Funding

\* The wallet imports an address.
LEMMA Imported ==
  ASSUME ChainShape, CoinbaseInv, NEW a \in Nat \X Nat,
         imported' = imported \cup {[address |-> a, height |-> Len(chain)]},
         keys' = keys + 2, chain' = chain, mempool' = mempool
  PROVE  ChainShape' /\ CoinbaseInv' /\ Grows /\ \E i \in imported' : i.address = a
  <1>1. Len(chain) \in Nat
    BY DEF ChainShape
  <1>2. [address |-> a, height |-> Len(chain)] \in [address : Nat \X Nat, height : Nat]
    BY <1>1
  <1> DEFINE x == [address |-> a, height |-> Len(chain)]
  <1>3. x.address = a /\ x \in imported' /\ imported' = imported \cup {x}
    OBVIOUS
  <1> HIDE DEF x
  <1>4. \E i \in imported' : i.address = a
    BY <1>3
  <1>5. ChainShape'
    BY <1>2, <1>3 DEF ChainShape, x
  <1>6. CoinbaseInv' /\ Grows
    BY <1>1, <1>3 DEF CoinbaseInv, Grows
  <1>7. QED
    BY <1>4, <1>5, <1>6

\* new_funding_address
LEMMA DrawStep ==
  ASSUME Inv, NEW k \in Client, new_funding_address(k)
  PROVE  Inv'
  <1>1. /\ Rest /\ CountInv /\ ChainShape /\ CommandShape /\ CoinbaseInv
        /\ Len(chain) \in Nat /\ keys \in Nat
        /\ Known(cmd[k]) /\ cmd[k] \in CommandRecord
    BY Shapes
  <1>2. /\ cmd[k].pc = "address" /\ keys' = keys + 2
        /\ chain' = chain /\ mempool' = mempool /\ received' = received /\ printed' = printed
        /\ issued' = issued /\ external' = external
    BY DEF new_funding_address
  <1>3. PICK f \in {sorted_keys(keys + 1, keys + 2), sorted_keys(keys + 2, keys + 1)} :
          /\ imported' = imported \cup {[address |-> f.address, height |-> Len(chain)]}
          /\ cmd' = [cmd EXCEPT ![k] = Drawn(cmd[k], f)]
    BY Zenon DEF new_funding_address, Drawn
  <1>4. f \in Funding /\ f.address = <<f.sk1, f.sk2>> /\ f.sk1 < f.sk2
    <2>1. keys + 1 \in Nat /\ keys + 2 \in Nat /\ keys + 1 # keys + 2
      BY <1>1
    <2>2. CASE f = sorted_keys(keys + 1, keys + 2)
      BY <2>1, <2>2, SortedKeys
    <2>3. CASE f = sorted_keys(keys + 2, keys + 1)
      BY <2>1, <2>3, SortedKeys
    <2>4. QED
      BY <2>2, <2>3
  <1>5. f.address \in Nat \X Nat
    BY <1>4 DEF Funding
  <1>6. ChainShape' /\ CoinbaseInv' /\ Grows /\ \E i \in imported' : i.address = f.address
    BY <1>1, <1>2, <1>3, <1>5, Imported
  <1>7. PICK c : c = Drawn(cmd[k], f)
    OBVIOUS
  <1>8. PICK e \in CommandRecord : e = cmd[k]
    BY <1>1
  <1>9. e = Record(e.pc, e.kind, e.peer, e.blocks, e.funding, e.first_block, e.scid)
    BY RecordFields
  <1>10. c = Record("generate", e.kind, e.peer, e.blocks, f, e.first_block, e.scid)
    BY <1>7, <1>8, <1>9, RecordUpdates
  <1>11. /\ e.kind \in Kind \cup {None} /\ e.peer \in Peer \cup {None} /\ e.blocks \in Nat
         /\ e.first_block \in Nat /\ e.scid \in Nat \cup {None} /\ f \in Funding \cup {None}
    BY <1>4, RecordFields
  <1>12. /\ c.pc = "generate" /\ c.kind = e.kind /\ c.peer = e.peer /\ c.blocks = e.blocks
         /\ c.funding = f
    <2>1. LET r == Record("generate", e.kind, e.peer, e.blocks, f, e.first_block, e.scid)
          IN  r.pc = "generate" /\ r.kind = e.kind /\ r.peer = e.peer /\ r.blocks = e.blocks
              /\ r.funding = f
      BY ONLY RecordFields
    <2>2. QED
      BY <1>10, <2>1
  <1>13. c \in CommandRecord
    <2>1. "generate" \in {"idle", "address", "generate", "locate", "send"}
      OBVIOUS
    <2>2. Record("generate", e.kind, e.peer, e.blocks, f, e.first_block, e.scid)
            \in CommandRecord
      BY ONLY <1>11, <2>1, RecordFields
    <2>3. QED
      BY <1>10, <2>2
  <1>14. Known(c)'
    <2>1. Owned(f)'
      BY <1>4, <1>6 DEF Owned
    <2>2. e.pc = "address" /\ Known(e)
      BY <1>1, <1>2, <1>8
    <2>3. /\ c.kind \in Kind /\ c.blocks \in 0..MaxBlocks
          /\ c.kind # "mine" => c.peer \in Peer /\ c.blocks = FundingBlocks
      BY <1>12, <2>2 DEF Known
    <2>4. QED
      BY <1>12, <2>1, <2>3 DEF Known
  <1>15. ~Holds(c) /\ cmd' = [cmd EXCEPT ![k] = c]
    BY <1>3, <1>7, <1>12 DEF Holds
  <1>16. issued' \in 0..MaxCommands /\ keys' \in Nat
    BY <1>1, <1>2 DEF CommandShape
  <1>17. Rest'
    BY <1>1, <1>2, <1>6, <1>13, <1>14, <1>15, <1>16, CommandStep
  <1>18. CountInv'
    <2>1. keys' <= keys + 2
      BY <1>2, <1>16
    <2>2. QED
      BY <1>1, <1>2, <1>12, <1>15, <1>16, <2>1, CountStep
  <1>19. QED
    BY <1>17, <1>18 DEF Inv

\* import_reply_lost
LEMMA ImportLostStep ==
  ASSUME Inv, NEW k \in Client, import_reply_lost(k)
  PROVE  Inv'
  <1>1. /\ ChainShape /\ CoinbaseInv /\ keys \in Nat /\ Len(chain) \in Nat
    BY Shapes
  <1>2. /\ cmd[k].pc = "address" /\ keys' = keys + 2 /\ Answer(k)
        /\ chain' = chain /\ mempool' = mempool /\ received' = received /\ printed' = printed
        /\ issued' = issued /\ external' = external
        /\ imported' = imported \cup {[address |-> sorted_keys(keys + 1, keys + 2).address,
                                       height  |-> Len(chain)]}
    BY DEF import_reply_lost
  <1>3. sorted_keys(keys + 1, keys + 2).address \in Nat \X Nat
    <2>1. keys + 1 \in Nat /\ keys + 2 \in Nat /\ keys + 1 # keys + 2
      BY <1>1
    <2>2. QED
      BY <2>1, SortedKeys DEF Funding
  <1>4. ChainShape' /\ CoinbaseInv' /\ Grows
    <2> DEFINE a == sorted_keys(keys + 1, keys + 2).address
    <2>1. a \in Nat \X Nat
          /\ imported' = imported \cup {[address |-> a, height |-> Len(chain)]}
      BY <1>2, <1>3
    <2> HIDE DEF a
    <2>2. QED
      BY <1>1, <1>2, <2>1, Imported
  <1>5. keys' <= keys + 2 /\ Len(chain') = Len(chain)
    BY <1>1, <1>2
  <1>6. QED
    BY <1>2, <1>4, <1>5, EndStep

\* rpc_fails and send_fails
LEMMA FailStep ==
  ASSUME Inv, NEW k \in Client, rpc_fails(k) \/ send_fails(k)
  PROVE  Inv'
  <1>1. /\ ChainShape /\ CoinbaseInv /\ keys \in Nat /\ Len(chain) \in Nat
    BY Shapes
  <1>2. /\ cmd[k].pc \in {"address", "generate", "locate", "send"} /\ Answer(k)
        /\ UNCHANGED <<bitcoind, received, printed, issued, external>>
    BY DEF rpc_fails, send_fails
  <1>3. ChainShape' /\ CoinbaseInv' /\ Grows /\ chain' = chain /\ keys' = keys
    BY <1>1, <1>2, SameChain
  <1>4. keys' <= keys + 2 /\ Len(chain') = Len(chain) /\ Len(chain') <= Len(chain) + MaxBlocks
    BY <1>1, <1>3, CommandAssumption
  <1>5. QED
    BY <1>2, <1>3, <1>4, EndStep

\* What generatetoaddress does for the command of client k.
LEMMA MinedFor ==
  ASSUME Inv, NEW k \in Client, cmd[k].pc = "generate",
         generate_to_address(cmd[k].blocks, cmd[k].funding.address),
         imported' = imported, keys' = keys
  PROVE  /\ ChainShape' /\ CoinbaseInv' /\ Grows
         /\ cmd[k].blocks \in 0..MaxBlocks
         /\ Len(chain') = Len(chain) + cmd[k].blocks
         /\ Len(chain') \in Nat /\ Len(chain') <= Len(chain) + MaxBlocks
         /\ \A b, a, n :
              /\ b = Len(chain) + 1 /\ a = cmd[k].funding.address /\ n = cmd[k].blocks
              /\ n # 0
              => Mined(b, a, n)'
  <1>1. /\ ChainShape /\ CoinbaseInv /\ Len(chain) \in Nat /\ Known(cmd[k])
    BY Shapes
  <1>2. PICK n, a : n = cmd[k].blocks /\ a = cmd[k].funding.address
    OBVIOUS
  <1>3. n \in 0..MaxBlocks /\ n \in Nat
    BY <1>1, <1>2, CommandAssumption DEF Known
  <1>4. a \in Address
    BY <1>1, <1>2 DEF Known, Owned, Funding, Address
  <1>5. /\ ChainShape' /\ CoinbaseInv' /\ Grows
        /\ Len(chain') = Len(chain) + n
        /\ \A h \in (Len(chain) + 1)..Len(chain') : chain'[h][1] = <<a>>
    BY <1>1, <1>2, <1>3, <1>4, Generated
  <1>6. Len(chain') \in Nat /\ Len(chain') <= Len(chain) + MaxBlocks
    BY <1>1, <1>3, <1>5, CommandAssumption
  <1>7. ASSUME n # 0
        PROVE  /\ Len(chain) + 1 \in Nat /\ Len(chain) + 1 >= 1
               /\ Len(chain) + 1 <= Len(chain') /\ Len(chain) + 1 + n <= Len(chain') + 1
               /\ chain'[Len(chain) + 1][1] = <<a>>
    BY <1>1, <1>3, <1>5, <1>7
  <1>8. QED
    BY <1>2, <1>3, <1>5, <1>6, <1>7 DEF Mined

\* generate_reply_lost
LEMMA GenerateLostStep ==
  ASSUME Inv, NEW k \in Client, generate_reply_lost(k)
  PROVE  Inv'
  <1>1. /\ cmd[k].pc = "generate" /\ Answer(k) /\ imported' = imported /\ keys' = keys
        /\ generate_to_address(cmd[k].blocks, cmd[k].funding.address)
        /\ received' = received /\ printed' = printed
        /\ issued' = issued /\ external' = external
    BY DEF generate_reply_lost
  <1>2. ChainShape' /\ CoinbaseInv' /\ Grows /\ Len(chain') <= Len(chain) + MaxBlocks
    BY <1>1, MinedFor
  <1>3. QED
    BY <1>1, <1>2, EndStep

\* generate
LEMMA GenerateStep ==
  ASSUME Inv, NEW k \in Client, generate(k)
  PROVE  Inv'
  <1>1. /\ Rest /\ CountInv /\ ChainShape /\ CommandShape /\ CoinbaseInv
        /\ Len(chain) \in Nat /\ keys \in Nat
        /\ Known(cmd[k]) /\ cmd[k] \in CommandRecord
    BY Shapes
  <1>2. /\ cmd[k].pc = "generate" /\ imported' = imported /\ keys' = keys
        /\ generate_to_address(cmd[k].blocks, cmd[k].funding.address)
        /\ received' = received /\ printed' = printed
        /\ issued' = issued /\ external' = external
    BY DEF generate
  <1>3. /\ ChainShape' /\ CoinbaseInv' /\ Grows
        /\ Len(chain') \in Nat /\ Len(chain') <= Len(chain) + MaxBlocks
    BY <1>2, MinedFor
  <1>4. CASE cmd[k].blocks = 0
    <2>1. Answer(k)
      BY <1>4 DEF generate, Answer
    <2>2. QED
      BY <1>2, <1>3, <2>1, EndStep
  <1>5. CASE cmd[k].blocks # 0
    <2>1. cmd' = [cmd EXCEPT ![k] = Placed(cmd[k], Len(chain) + 1)]
      BY <1>5, Zenon DEF generate, Placed
    <2>2. PICK c : c = Placed(cmd[k], Len(chain) + 1)
      OBVIOUS
    <2>3. PICK e \in CommandRecord : e = cmd[k]
      BY <1>1
    <2>4. PICK b : b = Len(chain) + 1
      OBVIOUS
    <2>5. c = Record("locate", e.kind, e.peer, e.blocks, e.funding, b, e.scid)
      <3>1. e = Record(e.pc, e.kind, e.peer, e.blocks, e.funding, e.first_block, e.scid)
        BY RecordFields
      <3>2. c = Placed(e, b)
        BY <2>2, <2>3, <2>4
      <3>3. QED
        BY <3>1, <3>2, RecordUpdates
    <2>6. /\ c.pc = "locate" /\ c.kind = e.kind /\ c.peer = e.peer /\ c.blocks = e.blocks
          /\ c.funding = e.funding /\ c.first_block = b
      <3>1. LET r == Record("locate", e.kind, e.peer, e.blocks, e.funding, b, e.scid)
            IN  r.pc = "locate" /\ r.kind = e.kind /\ r.peer = e.peer
                /\ r.blocks = e.blocks /\ r.funding = e.funding /\ r.first_block = b
        BY ONLY RecordFields
      <3>2. QED
        BY <2>5, <3>1
    <2>7. c \in CommandRecord
      <3>1. /\ e.kind \in Kind \cup {None} /\ e.peer \in Peer \cup {None}
            /\ e.blocks \in Nat /\ e.funding \in Funding \cup {None}
            /\ e.scid \in Nat \cup {None}
        BY RecordFields
      <3>2. b \in Nat /\ "locate" \in {"idle", "address", "generate", "locate", "send"}
        BY <1>1, <2>4
      <3>3. Record("locate", e.kind, e.peer, e.blocks, e.funding, b, e.scid)
              \in CommandRecord
        BY ONLY <3>1, <3>2, RecordFields
      <3>4. QED
        BY <2>5, <3>3
    <2>8. Known(c)'
      <3>1. e.pc = "generate" /\ Known(e)
        BY <1>1, <1>2, <2>3
      <3>2. /\ c.kind \in Kind /\ c.blocks \in 0..MaxBlocks
            /\ c.kind # "mine" => c.peer \in Peer /\ c.blocks = FundingBlocks
        BY <2>6, <3>1 DEF Known
      <3>3. PICK f : f = c.funding
        OBVIOUS
      <3>4. Owned(f)'
        <4>1. Owned(f)
          BY <2>6, <3>1, <3>3 DEF Known
        <4>2. QED
          BY <1>1, <1>3, <4>1, Stays
      <3>5. PICK a, n : a = c.funding.address /\ n = c.blocks
        OBVIOUS
      <3>6. Mined(b, a, n)'
        <4>1. a = cmd[k].funding.address /\ n = cmd[k].blocks /\ n # 0
          BY <1>5, <2>3, <2>6, <3>5
        <4>2. QED
          BY <1>2, <2>4, <4>1, MinedFor
      <3>7. QED
        BY <2>6, <3>2, <3>3, <3>4, <3>5, <3>6 DEF Known
    <2>9. cmd' = [cmd EXCEPT ![k] = c] /\ c.first_block = Len(chain) + 1
      BY <2>1, <2>2, <2>4, <2>6
    <2>10. issued' \in 0..MaxCommands /\ keys' \in Nat
      BY <1>1, <1>2 DEF CommandShape
    <2>11. Rest'
      BY <1>1, <1>2, <1>3, <2>7, <2>8, <2>9, <2>10, CommandStep
    <2>12. CountInv'
      BY <1>1, <1>2, <1>3, <2>6, <2>9, <2>10, CountStep
    <2>13. QED
      BY <2>11, <2>12 DEF Inv
  <1>6. QED
    BY <1>4, <1>5

\* The funding output is output 0 of the coinbase of the first mined block.
LEMMA Located ==
  ASSUME Inv, NEW k \in Client, cmd[k].pc = "locate"
  PROVE  located(k) = scid(cmd[k].first_block, 0, 0)
  <1>1. PICK b, a : b = cmd[k].first_block /\ a = cmd[k].funding.address
    OBVIOUS
  <1>2. b \in 1..Len(chain) /\ chain[b][1] = <<a>>
    <2>1. Mined(b, a, cmd[k].blocks) /\ Len(chain) \in Nat
      BY <1>1, Shapes DEF Known
    <2>2. QED
      BY <2>1 DEF Mined
  <1>3. Len(chain[b]) \in Nat /\ Len(chain[b]) >= 1
    <2>1. chain[b] \in Block /\ Len(chain[b]) >= 1
      BY <1>2, Shapes DEF ChainShape, CoinbaseInv
    <2>2. QED
      BY <2>1 DEF Block
  <1>4. PICK block : block = chain[b]
    OBVIOUS
  <1>5. funding_output(block, a) = [tx |-> 0, out |-> 0]
    BY <1>2, <1>3, <1>4, CoinbaseFunds
  <1>6. located(k) = scid(b, funding_output(block, a).tx, funding_output(block, a).out)
    BY <1>1, <1>4 DEF located
  <1> HIDE DEF funding_output
  <1>7. funding_output(block, a).tx = 0 /\ funding_output(block, a).out = 0
    BY <1>5
  <1>8. QED
    BY <1>1, <1>6, <1>7

\* locate
LEMMA LocateStep ==
  ASSUME Inv, NEW k \in Client, locate(k)
  PROVE  Inv'
  <1>1. /\ Rest /\ CountInv /\ ChainShape /\ CommandShape /\ CoinbaseInv
        /\ Len(chain) \in Nat /\ keys \in Nat
        /\ Known(cmd[k]) /\ cmd[k] \in CommandRecord
    BY Shapes
  <1>2. /\ cmd[k].pc = "locate" /\ UNCHANGED bitcoind
        /\ received' = received /\ printed' = printed
        /\ issued' = issued /\ external' = external
    BY DEF locate
  <1>3. ChainShape' /\ CoinbaseInv' /\ Grows /\ chain' = chain /\ keys' = keys
    BY <1>1, <1>2, SameChain
  <1>4. CASE cmd[k].kind = "mine"
    <2>1. Answer(k)
      BY <1>4 DEF locate, Answer
    <2>2. Len(chain') = Len(chain)
      BY <1>3
    <2>3. QED
      BY <1>2, <1>3, <2>1, <2>2, EndStep
  <1>5. CASE cmd[k].kind # "mine"
    <2>1. cmd' = [cmd EXCEPT ![k] = Found(cmd[k], located(k))]
      BY <1>5, Zenon DEF locate, Found
    <2>2. PICK c : c = Found(cmd[k], located(k))
      OBVIOUS
    <2>3. PICK e \in CommandRecord : e = cmd[k]
      BY <1>1
    <2>4. PICK x : x = scid(e.first_block, 0, 0)
      OBVIOUS
    <2>5. x \in Nat /\ x = located(k)
      BY <1>2, <2>3, <2>4, RecordFields, ScidOfBlock, Located
    <2>6. c = Record("send", e.kind, e.peer, e.blocks, e.funding, e.first_block, x)
      <3>1. e = Record(e.pc, e.kind, e.peer, e.blocks, e.funding, e.first_block, e.scid)
        BY RecordFields
      <3>2. c = Found(e, x)
        BY <2>2, <2>3, <2>5
      <3>3. QED
        BY <3>1, <3>2, RecordUpdates
    <2>7. /\ c.pc = "send" /\ c.kind = e.kind /\ c.peer = e.peer /\ c.blocks = e.blocks
          /\ c.funding = e.funding /\ c.first_block = e.first_block /\ c.scid = x
      <3>1. LET r == Record("send", e.kind, e.peer, e.blocks, e.funding, e.first_block, x)
            IN  r.pc = "send" /\ r.kind = e.kind /\ r.peer = e.peer
                /\ r.blocks = e.blocks /\ r.funding = e.funding
                /\ r.first_block = e.first_block /\ r.scid = x
        BY ONLY RecordFields
      <3>2. QED
        BY <2>6, <3>1
    <2>8. c \in CommandRecord
      <3>1. /\ e.kind \in Kind \cup {None} /\ e.peer \in Peer \cup {None}
            /\ e.blocks \in Nat /\ e.funding \in Funding \cup {None}
            /\ e.first_block \in Nat
        BY RecordFields
      <3>2. x \in Nat \cup {None}
            /\ "send" \in {"idle", "address", "generate", "locate", "send"}
        BY <2>5
      <3>3. Record("send", e.kind, e.peer, e.blocks, e.funding, e.first_block, x)
              \in CommandRecord
        BY ONLY <3>1, <3>2, RecordFields
      <3>4. QED
        BY <2>6, <3>3
    <2>9. Known(c)'
      <3>1. e.pc = "locate" /\ Known(e)
        BY <1>1, <1>2, <2>3
      <3>2. Known(c)
        BY <1>5, <2>3, <2>4, <2>7, <3>1 DEF Known
      <3>3. QED
        BY <1>1, <1>3, <2>8, <3>2, Stays
    <2>10. /\ cmd' = [cmd EXCEPT ![k] = c]
           /\ Holds(cmd[k]) /\ c.first_block = cmd[k].first_block
      BY <1>2, <2>1, <2>2, <2>3, <2>7 DEF Holds
    <2>11. /\ issued' \in 0..MaxCommands /\ keys' \in Nat /\ Len(chain') \in Nat
           /\ Len(chain') = Len(chain)
      BY <1>1, <1>2, <1>3 DEF CommandShape
    <2>12. Rest'
      BY <1>1, <1>2, <1>3, <2>8, <2>9, <2>10, <2>11, CommandStep
    <2>13. CountInv'
      BY <1>1, <1>2, <1>3, <2>7, <2>10, <2>11, CountStep
    <2>14. QED
      BY <2>12, <2>13 DEF Inv
  <1>6. QED
    BY <1>4, <1>5

\* The keys of the two nodes.
LEMMA NodeKeys ==
  /\ NodeA \in Nat /\ lesser(NodeA, NodeB) \in Nat /\ greater(NodeA, NodeB) \in Nat
  BY KeyAssumption DEF lesser, greater

\* An announcement, made of the funding keys and the scid.
LEMMA AnnouncementMade ==
  ASSUME NEW c, c.scid \in Nat, c.funding \in Funding
  PROVE  LET m == announcement(c)
         IN  /\ m \in MessageRecord /\ m.type = "channel_announcement"
             /\ m.short_channel_id = c.scid
             /\ m.bitcoin_key_1 = c.funding.sk1 /\ m.bitcoin_key_2 = c.funding.sk2
             /\ m.node_id_1 # m.node_id_2 => m.node_id_1 = lesser(NodeA, NodeB)
  <1>1. c.funding.sk1 \in Nat /\ c.funding.sk2 \in Nat
    BY DEF Funding
  <1>2. PICK s \in Nat, t \in Nat, x \in Nat :
          s = c.funding.sk1 /\ t = c.funding.sk2 /\ x = c.scid
    BY <1>1
  <1>3. PICK a \in Nat, b \in Nat :
          /\ announcement(c) = ChannelAnnouncement_new_signed(x, a, b, s, t)
          /\ a # b => a = lesser(NodeA, NodeB)
    BY <1>2, NodeKeys DEF announcement
  <1>4. PICK m : m = ChannelAnnouncement_new_signed(x, a, b, s, t)
    OBVIOUS
  <1>5. /\ m \in MessageRecord /\ m.type = "channel_announcement"
        /\ m.short_channel_id = x /\ m.bitcoin_key_1 = s /\ m.bitcoin_key_2 = t
        /\ m.node_id_1 = a /\ m.node_id_2 = b
    <2>1. <<a, b, s, t>> \in Nat \X Nat \X Nat \X Nat
      OBVIOUS
    <2>2. QED
      BY <1>4, <2>1 DEF ChannelAnnouncement_new_signed, MessageRecord
  <1>6. announcement(c) = m
    BY <1>3, <1>4
  <1>7. QED
    BY <1>2, <1>3, <1>5, <1>6

\* An update, and a node_announcement.
LEMMA FollowersMade ==
  /\ \A x \in Nat, s \in Nat \X Nat \X Nat :
       LET m == ChannelUpdate_new_signed(x, update_key, s)
       IN  /\ m \in MessageRecord /\ m.type = "channel_update" /\ m.short_channel_id = x
           /\ m.signed_by = lesser(NodeA, NodeB) /\ m.typed = s
  /\ LET m == NodeAnnouncement_default_signed(announced_key)
     IN  /\ m \in MessageRecord /\ m.type = "node_announcement"
         /\ m.node_id = lesser(NodeA, NodeB)
  BY NodeKeys DEF ChannelUpdate_new_signed, NodeAnnouncement_default_signed, update_key,
                  announced_key, MessageRecord

\* send_announcement
LEMMA SendAnnouncementStep ==
  ASSUME Inv, NEW k \in Client, send_announcement(k)
  PROVE  Inv'
  <1>1. /\ Rest /\ CountInv /\ ChainShape /\ CommandShape /\ CoinbaseInv
        /\ Len(chain) \in Nat /\ keys \in Nat
        /\ Known(cmd[k]) /\ cmd[k] \in CommandRecord
    BY Shapes
  <1>2. PICK c \in CommandRecord : c = cmd[k]
    BY <1>1
  <1>3. /\ c.pc = "send" /\ Deliver(c.peer, announcement(c))
        /\ printed' = printed \cup {[kind |-> c.kind, str |-> scid_str(c.scid)]}
        /\ cmd' = [cmd EXCEPT ![k] = Idle]
        /\ UNCHANGED bitcoind /\ issued' = issued /\ external' = external
    BY <1>2 DEF send_announcement, Answer
  <1>4. PICK b \in Nat : b = c.first_block
    BY RecordFields
  <1>5. /\ c.peer \in Peer /\ c.blocks = FundingBlocks /\ Owned(c.funding)
        /\ Mined(b, c.funding.address, c.blocks) /\ c.scid = scid(b, 0, 0)
    BY <1>1, <1>2, <1>3, <1>4 DEF Known
  <1>6. PICK m : m = announcement(c)
    OBVIOUS
  <1>7. /\ c.funding \in Funding /\ c.funding.address = <<c.funding.sk1, c.funding.sk2>>
        /\ c.funding.sk1 < c.funding.sk2
    BY <1>5 DEF Owned
  <1>8. scid(b, 0, 0) \in Nat /\ scid_str(scid(b, 0, 0)) = <<b, 0, 0>>
    BY ScidOfBlock
  <1>9. /\ m \in MessageRecord /\ m.type = "channel_announcement"
        /\ m.short_channel_id = c.scid
        /\ m.bitcoin_key_1 = c.funding.sk1 /\ m.bitcoin_key_2 = c.funding.sk2
        /\ m.node_id_1 # m.node_id_2 => m.node_id_1 = lesser(NodeA, NodeB)
    <2>1. c.scid \in Nat
      BY <1>5, <1>8
    <2>2. QED
      BY <1>6, <1>7, <2>1, AnnouncementMade
  <1>10. Announced(m) /\ Followed(m)
    <2>1. Mined(b, <<m.bitcoin_key_1, m.bitcoin_key_2>>, FundingBlocks)
      BY <1>5, <1>7, <1>9
    <2>2. QED
      BY <1>5, <1>7, <1>9, <2>1 DEF Announced, Followed
  <1>11. PrintedInv'
    <2>1. chain' = chain /\ PrintedInv
      BY <1>1, <1>3 DEF bitcoind, Rest
    <2>2. b \in 1..Len(chain)
      BY <1>1, <1>5 DEF Mined
    <2>3. scid_str(c.scid) = <<b, 0, 0>>
      BY <1>5, <1>8
    <2>4. ASSUME NEW x \in printed'
          PROVE  \E h \in 1..Len(chain') : x.str = <<h, 0, 0>>
      <3>1. CASE x \in printed
        BY <2>1, <3>1 DEF PrintedInv
      <3>2. CASE x = [kind |-> c.kind, str |-> scid_str(c.scid)]
        <4>1. x.str = <<b, 0, 0>>
          BY <2>3, <3>2
        <4>2. QED
          BY <2>1, <2>2, <4>1
      <3>3. QED
        BY <1>3, <2>4, <3>1, <3>2
    <2>5. QED
      BY <2>4 DEF PrintedInv
  <1>12. /\ Deliver(c.peer, m) /\ Holds(cmd[k])
         /\ m.short_channel_id = scid(cmd[k].first_block, 0, 0)
         /\ issued' \in 0..MaxCommands
    BY <1>1, <1>2, <1>3, <1>4, <1>5, <1>6, <1>9 DEF Holds, CommandShape
  <1>13. Rest'
    <2>1. PICK p \in Peer : p = c.peer
      BY <1>5
    <2>2. QED
      BY <1>1, <1>3, <1>9, <1>10, <1>11, <1>12, <2>1, DeliverStep
  <1>14. CountInv'
    <2>1. chain' = chain /\ keys' = keys
      BY <1>3 DEF bitcoind
    <2>2. cmd[k].pc = "send" /\ Idle.pc = "idle"
      BY <1>2, <1>3, IdleKnown
    <2> DEFINE i == Idle
    <2>3. i.pc = "idle" /\ cmd' = [cmd EXCEPT ![k] = i]
      BY <1>3, <2>2
    <2> HIDE DEF i
    <2>4. keys' \in Nat /\ Len(chain') \in Nat /\ Len(chain') = Len(chain)
      BY <1>1, <2>1
    <2>5. QED
      BY <1>1, <1>3, <2>1, <2>2, <2>3, <2>4, CountStep
  <1>15. QED
    BY <1>13, <1>14 DEF Inv

\* A step of no command leaves the counts, but for a block of somebody else.
LEMMA CountFrame ==
  ASSUME CommandShape, CountInv, cmd' = cmd, keys' = keys, keys \in Nat,
         Len(chain) \in Nat, Len(chain') \in Nat,
         \/ issued' = issued + 1 /\ external' = external /\ Len(chain') = Len(chain)
         \/ issued' = issued /\ external' = external + 1 /\ Len(chain') <= Len(chain) + 1
  PROVE  CountInv'
  <1>1. Undrawn' = Undrawn /\ Unmined' = Unmined
    BY DEF Undrawn, Unmined
  <1> DEFINE u == Cardinality(Undrawn)
             w == Cardinality(Unmined)
             mw == MaxBlocks * w
             mi == MaxBlocks * issued
             mj == MaxBlocks * (issued + 1)
  <1>2. u \in Nat /\ w \in Nat
    <2>1. IsFiniteSet(Client) /\ Undrawn \subseteq Client /\ Unmined \subseteq Client
      BY CommandAssumption DEF Undrawn, Unmined
    <2>2. QED
      BY <2>1, FS_Subset, FS_CardinalityType
  <1>3. MaxBlocks \in Nat /\ issued \in Nat /\ external \in Nat
    BY CommandAssumption DEF CommandShape
  <1> HIDE DEF u, w
  <1>4. mw \in Nat /\ mi \in Nat /\ mj \in Nat /\ mi <= mj
    BY <1>2, <1>3
  <1>5. keys + 2 * u <= 2 * issued /\ Len(chain) + mw <= mi + external
    BY DEF CountInv, u, w
  <1> HIDE DEF mw, mi, mj
  <1>6. CASE issued' = issued + 1 /\ external' = external /\ Len(chain') = Len(chain)
    <2>1. keys + 2 * u <= 2 * (issued + 1) /\ Len(chain) + mw <= mj + external
      BY <1>2, <1>3, <1>4, <1>5
    <2>2. QED
      BY <1>1, <1>6, <2>1 DEF CountInv, u, w, mw, mj
  <1>7. CASE issued' = issued /\ external' = external + 1 /\ Len(chain') <= Len(chain) + 1
    <2>1. Len(chain') + mw <= mi + (external + 1)
      <3>1. \A a, b, c, i, j \in Nat : a <= b + 1 /\ b + c <= i + j => a + c <= i + (j + 1)
        OBVIOUS
      <3>2. QED
        BY <1>3, <1>4, <1>5, <1>7, <3>1
    <2>2. QED
      BY <1>1, <1>5, <1>7, <2>1 DEF CountInv, u, w, mw, mi
  <1>8. QED
    BY <1>6, <1>7

\* A step that issues a command which sends a message at once.
LEMMA FollowStep ==
  ASSUME Inv, NEW k \in Client, NEW p \in Peer, NEW m \in MessageRecord, Issue(k),
         Deliver(p, m), Announced(m), Followed(m), m.type # "channel_announcement",
         UNCHANGED <<bitcoind, cmd, printed, external>>
  PROVE  Inv'
  <1>1. /\ Rest /\ CountInv /\ CommandShape /\ Len(chain) \in Nat /\ keys \in Nat
    BY Shapes
  <1>2. chain' = chain /\ keys' = keys /\ cmd' = cmd /\ printed' = printed
        /\ external' = external
    BY DEF bitcoind
  <1>3. issued' = issued + 1 /\ issued' \in 0..MaxCommands
    BY <1>1, CommandAssumption DEF Issue, CommandShape
  <1>4. PrintedInv'
    BY <1>1, <1>2 DEF Rest, PrintedInv
  <1>5. Rest'
    BY <1>1, <1>2, <1>3, <1>4, DeliverStep
  <1>6. CountInv'
    <2>1. Len(chain') \in Nat /\ Len(chain') = Len(chain)
      BY <1>1, <1>2
    <2>2. QED
      BY <1>1, <1>2, <1>3, <2>1, CountFrame
  <1>7. QED
    BY <1>5, <1>6 DEF Inv

\* send_channel_update
LEMMA UpdateStep ==
  ASSUME Inv, NEW k \in Client, NEW p \in Peer, NEW s \in Shown \cup Typed,
         send_channel_update(k, p, s)
  PROVE  Inv'
  <1>1. s \in Nat \X Nat \X Nat
    <2>1. CASE s \in Typed
      BY <2>1, ScidAssumption
    <2>2. CASE s \in Shown
      <3>1. PICK x \in printed : s = x.str
        BY <2>2 DEF Shown
      <3>2. PICK b \in 1..Len(chain) : s = <<b, 0, 0>>
        BY <3>1, Shapes DEF Rest, PrintedInv
      <3>3. b \in Nat
        BY Shapes
      <3>4. QED
        BY <3>2, <3>3
    <2>3. QED
      BY <2>1, <2>2
  <1>2. PICK x : x = parse_scid(s)
    OBVIOUS
  <1>3. x \in Nat /\ scid_str(x) = s
    BY <1>1, <1>2, ParsedScid DEF send_channel_update
  <1>4. PICK m : m = ChannelUpdate_new_signed(x, update_key, s)
    OBVIOUS
  <1>5. /\ m \in MessageRecord /\ m.type = "channel_update" /\ m.short_channel_id = x
        /\ m.signed_by = lesser(NodeA, NodeB) /\ m.typed = s
    BY <1>1, <1>3, <1>4, FollowersMade
  <1>6. Announced(m) /\ Followed(m)
    BY <1>3, <1>5 DEF Announced, Followed
  <1>7. /\ Issue(k) /\ Deliver(p, m) /\ UNCHANGED <<bitcoind, cmd, printed, external>>
    BY <1>2, <1>4 DEF send_channel_update
  <1>8. QED
    BY <1>5, <1>6, <1>7, FollowStep

\* send_node_announcement
LEMMA NodeAnnouncementStep ==
  ASSUME Inv, NEW k \in Client, NEW p \in Peer, send_node_announcement(k, p)
  PROVE  Inv'
  <1>1. PICK m : m = NodeAnnouncement_default_signed(announced_key)
    OBVIOUS
  <1>2. /\ m \in MessageRecord /\ m.type = "node_announcement"
        /\ m.node_id = lesser(NodeA, NodeB)
    BY <1>1, FollowersMade
  <1>3. Announced(m) /\ Followed(m)
    BY <1>2 DEF Announced, Followed
  <1>4. /\ Issue(k) /\ Deliver(p, m) /\ UNCHANGED <<bitcoind, cmd, printed, external>>
    BY <1>1 DEF send_node_announcement
  <1>5. QED
    BY <1>2, <1>3, <1>4, FollowStep

\* Other users of bitcoind leave the commands and the messages.
LEMMA OtherStep ==
  ASSUME Inv, ChainShape', CoinbaseInv', Grows, external < MaxExternal,
         external' = external + 1, keys' = keys, Len(chain') <= Len(chain) + 1,
         cmd' = cmd, received' = received, printed' = printed, issued' = issued
  PROVE  Inv'
  <1>1. /\ Rest /\ CountInv /\ ChainShape /\ CommandShape /\ Len(chain) \in Nat
        /\ keys \in Nat
    BY Shapes
  <1>2. Len(chain') \in Nat /\ Len(chain) <= Len(chain')
    BY DEF ChainShape, Grows
  <1>3. CommandShape'
    BY <1>1, CommandAssumption DEF CommandShape
  <1>4. CommandInv'
    <2>1. ASSUME NEW l \in Client
          PROVE  Known(cmd[l])'
      <3>1. PICK e \in CommandRecord : e = cmd[l] /\ Known(e)
        BY Shapes
      <3>2. Known(e)'
        BY <1>1, <3>1, Stays
      <3>3. cmd'[l] = e
        BY <3>1
      <3>4. QED
        BY <3>2, <3>3
    <2>2. QED
      BY <2>1 DEF CommandInv
  <1>5. MessageInv'
    <2>1. \A m : Announced(m) => Announced(m)'
      BY <1>1, Stays
    <2>2. ASSUME NEW p \in Peer, NEW n \in 1..Len(received[p])
          PROVE  Announced(received[p][n])' /\ Followed(received[p][n])
      <3>1. Announced(received[p][n]) /\ Followed(received[p][n])
        BY <1>1, <2>2 DEF Rest, MessageInv
      <3>2. PICK m : m = received[p][n]
        OBVIOUS
      <3>3. Announced(m)'
        BY <2>1, <3>1, <3>2
      <3>4. received'[p][n] = m
        BY <3>2
      <3>5. QED
        BY <3>1, <3>3, <3>4
    <2>3. QED
      BY <2>2 DEF MessageInv
  <1>6. ClaimInv'
    BY <1>1 DEF Rest, ClaimInv, Claims, Holds
  <1>7. PrintedInv'
    <2>1. 1..Len(chain) \subseteq 1..Len(chain')
      BY <1>1, <1>2
    <2>2. QED
      BY <1>1, <2>1 DEF Rest, PrintedInv
  <1>8. CountInv'
    BY <1>1, <1>2, CountFrame
  <1>9. QED
    BY <1>3, <1>4, <1>5, <1>6, <1>7, <1>8 DEF Inv, Rest

\* OtherBlock
LEMMA OtherBlockStep ==
  ASSUME Inv, OtherBlock
  PROVE  Inv'
  <1>1. /\ external < MaxExternal /\ external' = external + 1
        /\ generate_to_address(1, Foreign) /\ imported' = imported /\ keys' = keys
        /\ cmd' = cmd /\ received' = received /\ printed' = printed /\ issued' = issued
    BY DEF OtherBlock
  <1>2. Foreign \in Address
    BY DEF Address
  <1>3. ChainShape' /\ CoinbaseInv' /\ Grows /\ Len(chain') = Len(chain) + 1
    BY <1>1, <1>2, Generated, Shapes
  <1>4. Len(chain') <= Len(chain) + 1
    BY <1>3, Shapes
  <1>5. QED
    BY <1>1, <1>3, <1>4, OtherStep

\* OtherPayment
LEMMA OtherPaymentStep ==
  ASSUME Inv, OtherPayment
  PROVE  Inv'
  <1>1. /\ external < MaxExternal /\ external' = external + 1
        /\ chain' = chain /\ imported' = imported /\ keys' = keys
        /\ cmd' = cmd /\ received' = received /\ printed' = printed /\ issued' = issued
    BY DEF OtherPayment
  <1>2. ChainShape /\ CoinbaseInv /\ Len(chain) \in Nat
    BY Shapes
  <1>3. mempool' \in Seq(Transaction)
    <2>1. PICK i \in imported : mempool' = Append(mempool, <<Foreign, i.address>>)
      BY DEF OtherPayment
    <2>2. PICK t : t = <<Foreign, i.address>>
      OBVIOUS
    <2>3. t \in Transaction
      <3>1. Foreign \in Address /\ i.address \in Address
        BY <1>2 DEF ChainShape, Address
      <3>2. QED
        BY <2>2, <3>1 DEF Transaction
    <2>4. mempool \in Seq(Transaction) /\ mempool' = Append(mempool, t)
      BY <1>2, <2>1, <2>2 DEF ChainShape
    <2>5. QED
      BY <2>3, <2>4
  <1>4. ChainShape' /\ CoinbaseInv' /\ Grows
    BY <1>1, <1>2, <1>3 DEF ChainShape, CoinbaseInv, Grows
  <1>5. Len(chain') <= Len(chain) + 1
    BY <1>1, <1>2
  <1>6. QED
    BY <1>1, <1>4, <1>5, OtherStep

\* The first state.
LEMMA InitInv ==
  ASSUME Init
  PROVE  Inv
  <1>1. /\ chain = <<>> /\ mempool = <<>> /\ imported = {} /\ keys = 0
        /\ cmd = [k \in Client |-> Idle]
        /\ received = [p \in Peer |-> <<>>]
        /\ printed = {} /\ issued = 0 /\ external = 0
    BY DEF Init
  <1>2. \A k \in Client : cmd[k] = Idle
    BY <1>1
  <1>3. \A p \in Peer : received[p] = <<>> /\ Len(received[p]) = 0
    BY <1>1
  <1>4. ChainShape /\ CoinbaseInv /\ PrintedInv
    BY <1>1 DEF ChainShape, CoinbaseInv, PrintedInv
  <1>5. CommandShape
    BY <1>1, IdleKnown, CommandAssumption DEF CommandShape
  <1>6. CommandInv /\ MessageInv
    BY <1>2, <1>3, IdleKnown DEF CommandInv, MessageInv
  <1>7. ClaimInv
    <2>1. \A k \in Client : ~Holds(cmd[k])
      BY <1>2, IdleKnown
    <2>2. QED
      BY <1>3, <2>1 DEF ClaimInv
  <1>8. CountInv
    <2>1. Undrawn = {} /\ Unmined = {}
      BY <1>2, IdleKnown DEF Undrawn, Unmined
    <2>2. Cardinality(Undrawn) = 0 /\ Cardinality(Unmined) = 0 /\ Len(chain) = 0
      BY <1>1, <2>1, FS_EmptySet
    <2>3. QED
      BY <1>1, <2>2, CommandAssumption DEF CountInv
  <1>9. QED
    BY <1>4, <1>5, <1>6, <1>7, <1>8 DEF Inv, Rest

\* Every step.
LEMMA NextStep ==
  ASSUME Inv, [Next]_vars
  PROVE  Inv'
  <1>1. CASE UNCHANGED vars
    <2>1. /\ chain' = chain /\ mempool' = mempool /\ imported' = imported /\ keys' = keys
          /\ cmd' = cmd /\ received' = received /\ printed' = printed
          /\ issued' = issued /\ external' = external
      BY <1>1 DEF vars
    <2>2. ChainShape' /\ CommandShape' /\ CoinbaseInv' /\ PrintedInv'
      BY <2>1 DEF Inv, Rest, ChainShape, CommandShape, CoinbaseInv, PrintedInv
    <2>3. CommandInv'
      BY <2>1 DEF Inv, Rest, CommandInv, Known, Owned, Mined
    <2>4. MessageInv'
      BY <2>1 DEF Inv, Rest, MessageInv, Announced, Mined, Followed
    <2>5. ClaimInv'
      BY <2>1 DEF Inv, Rest, ClaimInv, Claims, Holds
    <2>6. CountInv'
      BY <2>1 DEF Inv, CountInv, Undrawn, Unmined
    <2>7. QED
      BY <2>2, <2>3, <2>4, <2>5, <2>6 DEF Inv, Rest
  <1>2. CASE Next
    <2>1. ASSUME NEW k \in Client, NEW n \in MineArgs, Mine(k, n)
          PROVE  Inv'
      BY <2>1, MineStep
    <2>2. ASSUME NEW k \in Client, NEW p \in Peer,
                 Announce(k, p, "announcement") \/ Announce(k, p, "announcement2")
          PROVE  Inv'
      BY <2>2, AnnounceStep
    <2>3. ASSUME NEW k \in Client, NEW p \in Peer, NEW s \in Shown \cup Typed,
                 send_channel_update(k, p, s)
          PROVE  Inv'
      BY <2>3, UpdateStep
    <2>4. ASSUME NEW k \in Client, NEW p \in Peer, send_node_announcement(k, p)
          PROVE  Inv'
      BY <2>4, NodeAnnouncementStep
    <2>5. ASSUME NEW k \in Client, Progress(k)
          PROVE  Inv'
      BY <2>5, DrawStep, ImportLostStep, GenerateStep, GenerateLostStep, LocateStep, FailStep,
         SendAnnouncementStep DEF Progress
    <2>6. QED
      BY <1>2, <2>1, <2>2, <2>3, <2>4, <2>5, OtherBlockStep, OtherPaymentStep DEF Next
  <1>3. QED
    BY <1>1, <1>2

------------------------------------------------------------------------------
(* The theorems.                                                            *)

\* The inductive invariant holds in every reachable state of the gossip commands.
THEOREM Invariance == Spec => []Inv
  <1>1. Init => Inv
    BY InitInv
  <1>2. Inv /\ [Next]_vars => Inv'
    BY NextStep
  <1>3. QED
    BY <1>1, <1>2, PTL DEF Spec

\* The places of the messages that have been sent.
LEMMA Places ==
  ASSUME CommandShape, NEW x \in Place
  PROVE  /\ x[1] \in Peer /\ x[2] \in 1..Len(received[x[1]]) /\ x = <<x[1], x[2]>>
         /\ At(x) = received[x[1]][x[2]] /\ At(x) \in MessageRecord
  <1>1. PICK p \in Peer : x \in {p} \X (1..Len(received[p]))
    BY DEF Place
  <1>2. x[1] = p /\ x[2] \in 1..Len(received[p]) /\ x = <<x[1], x[2]>>
    BY <1>1
  <1>3. received[p] \in Seq(MessageRecord)
    BY DEF CommandShape
  <1>4. received[p][x[2]] \in MessageRecord
    BY <1>2, <1>3
  <1>5. QED
    BY <1>2, <1>4 DEF At

\* What is known of an announcement that has been sent.
LEMMA SentAnnouncement ==
  ASSUME Inv, NEW x \in Sent("channel_announcement")
  PROVE  \E b \in Nat :
           /\ At(x).short_channel_id = scid(b, 0, 0)
           /\ scid_str(At(x).short_channel_id) = <<b, 0, 0>>
           /\ Claims(x[1], x[2], b)
           /\ Mined(b, <<At(x).bitcoin_key_1, At(x).bitcoin_key_2>>, FundingBlocks)
           /\ At(x).bitcoin_key_1 < At(x).bitcoin_key_2
  <1>1. x \in Place /\ At(x).type = "channel_announcement"
    BY DEF Sent
  <1>2. x[1] \in Peer /\ x[2] \in 1..Len(received[x[1]]) /\ At(x) = received[x[1]][x[2]]
    BY <1>1, Places, Shapes
  <1>3. Announced(At(x))
    BY <1>2 DEF Inv, Rest, MessageInv
  <1>4. PICK b \in Nat :
          /\ At(x).short_channel_id = scid(b, 0, 0)
          /\ Mined(b, <<At(x).bitcoin_key_1, At(x).bitcoin_key_2>>, FundingBlocks)
    BY <1>1, <1>3 DEF Announced
  <1>5. scid_str(At(x).short_channel_id) = <<b, 0, 0>>
    BY <1>4, ScidOfBlock
  <1>6. Claims(x[1], x[2], b)
    BY <1>1, <1>2, <1>4 DEF Claims
  <1>7. At(x).bitcoin_key_1 < At(x).bitcoin_key_2
    BY <1>1, <1>3 DEF Announced
  <1>8. QED
    BY <1>4, <1>5, <1>6, <1>7

\* The chain never gets longer than the heights that an scid can say.
LEMMA HeightsFit ==
  ASSUME Inv
  PROVE  Len(chain) < BlockLimit /\ keys <= 2 * MaxCommands
  <1> DEFINE u == Cardinality(Undrawn)
             w == Cardinality(Unmined)
             mw == MaxBlocks * w
             mi == MaxBlocks * issued
             mm == MaxCommands * MaxBlocks
  <1>1. u \in Nat /\ w \in Nat
    <2>1. IsFiniteSet(Client) /\ Undrawn \subseteq Client /\ Unmined \subseteq Client
      BY CommandAssumption DEF Undrawn, Unmined
    <2>2. QED
      BY <2>1, FS_Subset, FS_CardinalityType
  <1>2. /\ MaxBlocks \in Nat /\ MaxCommands \in Nat /\ MaxExternal \in Nat
        /\ BlockLimit \in Nat /\ Len(chain) \in Nat /\ keys \in Nat
        /\ issued \in 0..MaxCommands /\ external \in 0..MaxExternal
    BY CommandAssumption, ScidAssumption, Shapes DEF CommandShape
  <1> HIDE DEF u, w
  <1>3. mw \in Nat /\ mi \in Nat /\ mm \in Nat
    BY <1>1, <1>2
  <1>4. mi <= mm
    BY <1>2
  <1>5. keys + 2 * u <= 2 * issued /\ Len(chain) + mw <= mi + external
    BY DEF Inv, CountInv, u, w
  <1>6. mm + MaxExternal < BlockLimit
    BY HeightAssumption
  <1> HIDE DEF mw, mi, mm
  <1>7. Len(chain) < BlockLimit
    BY <1>2, <1>3, <1>4, <1>5, <1>6
  <1>8. keys <= 2 * MaxCommands
    BY <1>1, <1>2, <1>5
  <1>9. QED
    BY <1>7, <1>8

\* The type invariant of the gossip commands: a command past its first RPCs has an
\* address that bitcoind's wallet knows, and every scid an answer has shown can be
\* parsed again by send_channel_update.
THEOREM TypeCorrect == Spec => []TypeOK
  <1>1. ASSUME Inv PROVE TypeOK
    <2>1. /\ Rest /\ Len(chain) \in Nat /\ keys \in Nat /\ CommandShape
          /\ \A k \in Client : Known(cmd[k]) /\ cmd[k] \in CommandRecord
      BY <1>1, Shapes
    <2>2. Len(chain) < BlockLimit /\ keys <= 2 * MaxCommands
      BY <1>1, HeightsFit
    <2>3. \A h \in 1..Len(chain) : Len(chain[h]) >= 1
      BY <2>1 DEF Rest, CoinbaseInv
    <2>4. keys \in 0..(2 * MaxCommands) /\ issued \in 0..MaxCommands
      BY <2>1, <2>2, CommandAssumption DEF CommandShape
    <2>5. ASSUME NEW k \in Client
          PROVE  /\ cmd[k].pc \in {"idle", "address", "generate", "locate", "send"}
                 /\ cmd[k].pc \in {"generate", "locate", "send"} =>
                      \E i \in imported : i.address = cmd[k].funding.address
                 /\ cmd[k].pc = "locate" => cmd[k].first_block \in 1..Len(chain)
      <3>1. Known(cmd[k]) /\ cmd[k] \in CommandRecord
        BY <2>1
      <3>2. cmd[k].pc \in {"idle", "address", "generate", "locate", "send"}
        BY <3>1 DEF CommandRecord
      <3>3. cmd[k].pc \in {"generate", "locate", "send"} =>
              \E i \in imported : i.address = cmd[k].funding.address
        BY <3>1 DEF Known, Owned
      <3>4. cmd[k].pc = "locate" => cmd[k].first_block \in 1..Len(chain)
        BY <2>1, <3>1 DEF Known, Mined
      <3>5. QED
        BY <3>2, <3>3, <3>4
    <2>6. ASSUME NEW x \in printed
          PROVE  parse_scid(x.str) \in Nat
      <3>1. PICK b \in 1..Len(chain) : x.str = <<b, 0, 0>>
        BY <2>1 DEF Rest, PrintedInv
      <3>2. b \in Nat /\ b < BlockLimit /\ 0 < TxLimit /\ 0 < OutLimit
        BY <2>1, <2>2, ScidAssumption
      <3>3. parse_scid(<<b, 0, 0>>) = scid(b, 0, 0)
        BY <3>2 DEF parse_scid
      <3>4. QED
        BY <3>1, <3>2, <3>3, ScidOfBlock
    <2>7. QED
      BY <2>3, <2>4, <2>5, <2>6 DEF TypeOK
  <1>2. QED
    BY <1>1, Invariance, PTL

\* The scid of every channel_announcement that was sent names an output on the chain
\* that pays the 2-of-2 of exactly its two bitcoin keys, in their order, whatever
\* other commands and other users of bitcoind have mined meanwhile.
THEOREM Funded == Spec => []AnnouncementFunded
  <1>1. ASSUME Inv PROVE AnnouncementFunded
    <2>1. ASSUME NEW x \in Sent("channel_announcement")
          PROVE  LET m == At(x)
                     s == scid_str(m.short_channel_id)
                 IN  /\ s[1] \in 1..Len(chain)
                     /\ s[2] < Len(chain[s[1]]) /\ s[3] < Len(chain[s[1]][s[2] + 1])
                     /\ chain[s[1]][s[2] + 1][s[3] + 1] = <<m.bitcoin_key_1, m.bitcoin_key_2>>
                     /\ m.bitcoin_key_1 < m.bitcoin_key_2
      <3>1. PICK b \in Nat :
              /\ scid_str(At(x).short_channel_id) = <<b, 0, 0>>
              /\ Mined(b, <<At(x).bitcoin_key_1, At(x).bitcoin_key_2>>, FundingBlocks)
              /\ At(x).bitcoin_key_1 < At(x).bitcoin_key_2
        BY <1>1, <2>1, SentAnnouncement
      <3>2. PICK a : a = <<At(x).bitcoin_key_1, At(x).bitcoin_key_2>>
        OBVIOUS
      <3>3. b \in 1..Len(chain) /\ chain[b][1] = <<a>>
        BY <1>1, <3>1, <3>2, Shapes DEF Mined
      <3>4. Len(chain[b]) \in Nat /\ Len(chain[b]) >= 1
        <4>1. chain[b] \in Block /\ Len(chain[b]) >= 1
          BY <1>1, <3>3, Shapes DEF ChainShape, CoinbaseInv
        <4>2. QED
          BY <4>1 DEF Block
      <3>5. 0 < Len(chain[b]) /\ chain[b][0 + 1] = <<a>>
        BY <3>3, <3>4
      <3>6. 0 < Len(chain[b][0 + 1]) /\ chain[b][0 + 1][0 + 1] = a
        BY <3>5
      <3>7. PICK s : s = scid_str(At(x).short_channel_id)
        OBVIOUS
      <3>8. s[1] = b /\ s[2] = 0 /\ s[3] = 0
        BY <3>1, <3>7
      <3>9. QED
        BY <3>1, <3>2, <3>3, <3>5, <3>6, <3>7, <3>8
    <2>2. QED
      BY <2>1 DEF AnnouncementFunded
  <1>2. QED
    BY <1>1, Invariance, PTL

\* An announced channel has the confirmations that were mined for it, and no two
\* announcements, of any clients to any peers, name the same channel.
THEOREM Confirmed == Spec => []AnnouncementConfirmed
  <1>1. ASSUME Inv PROVE AnnouncementConfirmed
    <2>1. ASSUME NEW x \in Sent("channel_announcement")
          PROVE  Len(chain) - scid_str(At(x).short_channel_id)[1] + 1 >= FundingBlocks
      <3>1. PICK b \in Nat :
              /\ scid_str(At(x).short_channel_id) = <<b, 0, 0>>
              /\ Mined(b, <<At(x).bitcoin_key_1, At(x).bitcoin_key_2>>, FundingBlocks)
        BY <1>1, <2>1, SentAnnouncement
      <3>2. scid_str(At(x).short_channel_id)[1] = b
        BY <3>1
      <3>3. b + FundingBlocks <= Len(chain) + 1 /\ Len(chain) \in Nat /\ FundingBlocks \in Nat
        BY <1>1, <3>1, Shapes, CommandAssumption DEF Mined
      <3>4. QED
        BY <3>2, <3>3
    <2>2. ASSUME NEW x \in Sent("channel_announcement"), NEW y \in Sent("channel_announcement"),
                 At(x).short_channel_id = At(y).short_channel_id
          PROVE  x = y
      <3>1. PICK b \in Nat : At(x).short_channel_id = scid(b, 0, 0) /\ Claims(x[1], x[2], b)
        BY <1>1, <2>2, SentAnnouncement
      <3>2. PICK d \in Nat : At(y).short_channel_id = scid(d, 0, 0) /\ Claims(y[1], y[2], d)
        BY <1>1, <2>2, SentAnnouncement
      <3>3. b = d
        BY <2>2, <3>1, <3>2, ScidOfBlock
      <3>4. x \in Place /\ y \in Place
        BY <2>2 DEF Sent
      <3>5. /\ x[1] \in Peer /\ x[2] \in 1..Len(received[x[1]]) /\ x = <<x[1], x[2]>>
            /\ y[1] \in Peer /\ y[2] \in 1..Len(received[y[1]]) /\ y = <<y[1], y[2]>>
        BY <1>1, <3>4, Places, Shapes
      <3>6. PICK p \in Peer, q \in Peer : p = x[1] /\ q = y[1]
        BY <3>5
      <3>7. PICK n \in 1..Len(received[p]), m \in 1..Len(received[q]) : n = x[2] /\ m = y[2]
        BY <3>5, <3>6
      <3>8. Claims(p, n, b) /\ Claims(q, m, b)
        BY <3>1, <3>2, <3>3, <3>6, <3>7
      <3>9. p = q /\ n = m
        BY <1>1, <3>8 DEF Inv, Rest, ClaimInv
      <3>10. QED
        BY <3>5, <3>6, <3>7, <3>9
    <2>3. QED
      BY <2>1, <2>2 DEF AnnouncementConfirmed
  <1>2. QED
    BY <1>1, Invariance, PTL

\* What is known of the gossip that follows an announcement.
LEMMA SentFollower ==
  ASSUME Inv
  PROVE  /\ \A u \in Sent("channel_update") :
              /\ At(u).signed_by = lesser(NodeA, NodeB)
              /\ scid_str(At(u).short_channel_id) = At(u).typed
         /\ \A n \in Sent("node_announcement") : At(n).node_id = lesser(NodeA, NodeB)
         /\ \A a \in Sent("channel_announcement") :
              At(a).node_id_1 # At(a).node_id_2 => At(a).node_id_1 = lesser(NodeA, NodeB)
  <1>1. ASSUME NEW x \in Place
        PROVE  Announced(At(x)) /\ Followed(At(x))
    <2>1. x[1] \in Peer /\ x[2] \in 1..Len(received[x[1]]) /\ At(x) = received[x[1]][x[2]]
      BY Places, Shapes
    <2>2. QED
      BY <2>1 DEF Inv, Rest, MessageInv
  <1>2. ASSUME NEW type, NEW x \in Sent(type)
        PROVE  x \in Place /\ At(x).type = type
    BY <1>2 DEF Sent
  <1>3. QED
    BY <1>1, <1>2 DEF Announced, Followed

\* A channel_update is for the channel that the user typed: an scid shown in an answer
\* comes back as the same number, and no other input aliases it.
THEOREM UpdateNamed == Spec => []UpdateNamesChannel
  <1>1. ASSUME Inv PROVE UpdateNamesChannel
    BY <1>1, SentFollower DEF UpdateNamesChannel
  <1>2. QED
    BY <1>1, Invariance, PTL

\* An update of a channel with two node ids is signed by the one that its direction
\* stands for, and a node_announcement after it is for one of its nodes.
THEOREM Follows == Spec => []GossipFollows
  <1>1. ASSUME Inv PROVE GossipFollows
    BY <1>1, SentFollower DEF GossipFollows
  <1>2. QED
    BY <1>1, Invariance, PTL
==============================================================================
