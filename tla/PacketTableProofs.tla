------------------------- MODULE PacketTableProofs -------------------------
(***************************************************************************)
(* Proofs about the packet table, for any chains, packets, bounds and faults: *)
(* TypeCorrect, NothingIsMissed, NothingIsInvented, ColumnsAreKept,           *)
(* StatusAgrees and RefinesSyncHeight.                                        *)
(*                                                                          *)
(* None of these properties is inductive: what a commit writes was read from  *)
(* the chain and from the table steps earlier.  The invariant Inv follows an  *)
(* event from its block to its row: it is on one chain, once (ChainsInv);     *)
(* while a job works on its block it is still to be looked up, or has a       *)
(* record in the batch (ReadInv), and the batch has no other records          *)
(* (BatchInv); once the cursor has passed the block its columns are in the    *)
(* row (Passed), and the row has no other columns (RowsInv, BehindCursors).   *)
(* StatusInv adds what the snapshot of a transaction may lag behind.          *)
(***************************************************************************)
EXTENDS PacketTable, InductionLemmas

(* The chains are longer than a batch when they are first read (SyncHeight). *)
LongerThanBatch == FirstHead >= BatchNumber + 1

Kinds == {"send", "ack", "receivedAck"}
Home(kind, p) == IF kind = "ack" THEN Dst[p] ELSE Src[p]

Events == [kind : Kinds, pkt : Packets, code : Nat]
Items == [event : Events, height : Nat]
Recs == [pkt : Packets, cols : {r \in Rows : Found(r)}]

Jobs == [stage : Stages, from : Nat, to : Nat, next : Nat,
         todo : SUBSET Items, batch : Seq(Recs), snapshot : [Packets -> Rows]]

Types ==
  /\ chain \in [Chains -> Seq(Events \cup {Empty})]
  /\ height \in [Chains -> Nat] /\ base \in [Chains -> Nat]
  /\ unread \in [Chains -> SUBSET Nat]
  /\ row \in [Packets -> Rows]
  /\ job \in [Chains -> Jobs]

(* An event is on the chain it belongs to, once, and after those it follows.  *)
ChainsInv ==
  /\ \A c \in Chains, kind \in Kinds, p \in Packets : \A b \in DOMAIN chain[c] :
       IsEvent(chain[c][b], kind, p) => c = Home(kind, p) /\ b = BlockOf(c, kind, p)
  /\ \A p \in Packets :
       /\ AckBlock(p) # 0 => SendBlock(p) # 0 /\ AckCode(p) \in {Success, Fail}
       /\ ReceivedAckBlock(p) # 0 =>
            /\ AckBlock(p) # 0
            /\ SendBlock(p) < ReceivedAckBlock(p)
            /\ chain[Src[p]][ReceivedAckBlock(p)].code = AckCode(p)

-----------------------------------------------------------------------------
(* The invariant *)

(* The block of an event, and the column of a row that takes its height. *)
Block(kind, p) == BlockOf(Home(kind, p), kind, p)
Column(kind, r) ==
  IF kind = "send" THEN r.srcHeight
  ELSE IF kind = "ack" THEN r.destHeight ELSE r.refundHeight

(* The events NothingMissed speaks of; they are due if the client returned them. *)
Owed(kind, p) ==
  \/ kind = "send" /\ p \in Listed
  \/ kind = "ack" /\ p \in Listed /\ Dst[p] \in Teleport
  \/ kind = "receivedAck" /\ ReceivedAckBlock(p) # 0 /\ AckCode(p) = Fail
Due(kind, p) == Owed(kind, p) /\ Block(kind, p) \notin unread[Home(kind, p)]

(* A height column is 0 or the block of its event; only failures are refunded. *)
Fits(r, p) ==
  /\ \A kind \in Kinds : Column(kind, r) \in {0, Block(kind, p)}
  /\ r.refundHeight # 0 => AckCode(p) = Fail

NoEmptyRows(rows) == \A p \in Packets : ~Found(rows[p]) => rows[p] = NoRow

RowsInv == NoEmptyRows(row) /\ \A p \in Packets : Fits(row[p], p)

(* The range a job works on begins at the cursor and ends below the head. *)
CursorInv(c) ==
  /\ Len(chain[c]) >= FirstHead
  /\ base[c] <= height[c]
  /\ base[c] = height[c] \/ height[c] <= Len(chain[c])
  /\ height[c] = 0 => At(c, "down")
  /\ At(c, "down") => job[c] = Down
  /\ At(c, "idle") => job[c] = Idle
  /\ job[c].stage \in {"fetching", "reading", "storing"} =>
       /\ job[c].from = height[c] /\ job[c].from <= job[c].to
       /\ job[c].next = job[c].to + 1
       /\ job[c].to < Len(chain[c])

InRange(c, kind, p) ==
  Home(kind, p) = c /\ Block(kind, p) \in job[c].from .. job[c].to

(* What is still to be looked up is on the chain, in the range. *)
TodoInv(c) ==
  /\ job[c].stage # "reading" => job[c].todo = {}
  /\ \A x \in job[c].todo :
       /\ x.event.kind \in Kinds /\ x.event.pkt \in Packets
       /\ InRange(c, x.event.kind, x.event.pkt)
       /\ x.height = Block(x.event.kind, x.event.pkt)
       /\ x.event.kind = "ack" => x.event.code = AckCode(x.event.pkt)
       /\ x.event.kind = "receivedAck" => AckCode(x.event.pkt) = Fail

(* A record of the batch is that of an event in the range. *)
RecordOf(rec, kind) ==
  /\ Column(kind, rec.cols) = Block(kind, rec.pkt)
  /\ \A other \in Kinds \ {kind} : Column(other, rec.cols) = 0
  /\ rec.cols.status = IF kind = "send" THEN Pending
                       ELSE IF kind = "ack" THEN AckCode(rec.pkt) ELSE Refund
  /\ kind = "receivedAck" => AckCode(rec.pkt) = Fail

BatchInv(c) ==
  \A i \in 1 .. Len(job[c].batch) : \E kind \in Kinds :
    InRange(c, kind, job[c].batch[i].pkt) /\ RecordOf(job[c].batch[i], kind)

(* The batch has a record of the event; a send's brings the amount, if the    *)
(* row has none.                                                             *)
InBatch(c, kind, p) ==
  \E i \in 1 .. Len(job[c].batch) :
    LET rec == job[c].batch[i]
    IN  /\ rec.pkt = p /\ Column(kind, rec.cols) = Block(kind, p)
        /\ kind = "send" => rec.cols.amount \/ row[p].amount

InTodo(c, kind, p) == \E x \in job[c].todo : IsEvent(x.event, kind, p)

(* Whatever is due in the range is still to be looked up or in the batch. *)
ReadInv(c) ==
  job[c].stage \in {"reading", "storing"} =>
    \A kind \in Kinds, p \in Packets :
      InRange(c, kind, p) /\ Due(kind, p) => InTodo(c, kind, p) \/ InBatch(c, kind, p)

JobInv(c) == CursorInv(c) /\ TodoInv(c) /\ BatchInv(c) /\ ReadInv(c)

(* NothingMissed, in the terms of this module. *)
Passed ==
  \A kind \in Kinds, p \in Packets :
    Due(kind, p) /\ Stored(Home(kind, p), Block(kind, p)) =>
      /\ Column(kind, row[p]) = Block(kind, p)
      /\ kind = "send" => row[p].amount

(* No cursor is taken back: the table is behind the cursors. *)
BehindCursors ==
  RevisedHeights = {0} =>
    \A kind \in Kinds, p \in Packets :
      Column(kind, row[p]) # 0 => Block(kind, p) < height[Home(kind, p)]

Inv ==
  /\ Types /\ ChainsInv /\ RowsInv
  /\ \A c \in Chains : JobInv(c)
  /\ Passed /\ BehindCursors

(* The status a row may have next to its heights. *)
StatusFits(r, p) ==
  \/ r.refundHeight # 0 /\ r.status \in {Fail, Refund}
  \/ r.refundHeight = 0 /\ r.destHeight # 0 /\ r.status = AckCode(p)
  \/ r.refundHeight = 0 /\ r.destHeight = 0 /\ r.srcHeight # 0 /\ r.status = Pending

(* A snapshot is an earlier state of the table. *)
Earlier(old, new) ==
  /\ Found(old) => Found(new)
  /\ \A kind \in Kinds : Column(kind, old) # 0 => Column(kind, new) = Column(kind, old)

SnapshotInv(c) ==
  At(c, "storing") =>
    /\ NoEmptyRows(job[c].snapshot)
    /\ \A p \in Packets :
         LET old == job[c].snapshot[p]
         IN  Earlier(old, row[p]) /\ (Found(old) => StatusFits(old, p))

StatusInv ==
  /\ \A p \in Packets : Found(row[p]) => StatusFits(row[p], p)
  /\ \A c \in Chains : SnapshotInv(c)

-----------------------------------------------------------------------------
(* The chains *)

LEMMA Codes == Pending = 1 /\ Success = 2 /\ Fail = 3 /\ Refund = 4
  BY DEF Pending, Success, Fail, Refund

LEMMA BlockOfShape ==
  ASSUME Types, NEW c \in Chains, NEW kind, NEW p
  PROVE  /\ BlockOf(c, kind, p) \in 0 .. Len(chain[c])
         /\ BlockOf(c, kind, p) # 0 => IsEvent(chain[c][BlockOf(c, kind, p)], kind, p)
         /\ BlockOf(c, kind, p) = 0 =>
              \A b \in DOMAIN chain[c] : ~IsEvent(chain[c][b], kind, p)
<1> DEFINE at == {b \in DOMAIN chain[c] : IsEvent(chain[c][b], kind, p)}
<1>1. DOMAIN chain[c] = 1 .. Len(chain[c]) /\ Len(chain[c]) \in Nat
  BY DEF Types
<1>2. CASE at = {}
  BY <1>1, <1>2 DEF BlockOf
<1>3. CASE at # {}
  <2>1. BlockOf(c, kind, p) = CHOOSE b \in at : TRUE
    BY <1>3 DEF BlockOf
  <2>2. BlockOf(c, kind, p) \in at
    BY <1>3, <2>1
  <2> QED BY <1>1, <2>2
<1> QED BY <1>2, <1>3

LEMMA BlockTypes ==
  ASSUME Types, NEW p \in Packets
  PROVE  /\ SendBlock(p) \in 0 .. Len(chain[Src[p]])
         /\ AckBlock(p) \in 0 .. Len(chain[Dst[p]])
         /\ ReceivedAckBlock(p) \in 0 .. Len(chain[Src[p]])
<1>1. Src[p] \in Chains /\ Dst[p] \in Chains
  BY BridgesOK
<1> QED BY <1>1, BlockOfShape DEF SendBlock, AckBlock, ReceivedAckBlock

(* What the growth of a chain does to the blocks of the events.              *)
Grown(old, new, len) == new = old \/ (old = 0 /\ new = len + 1)

BlocksGrow ==
  \A p \in Packets :
    /\ Grown(SendBlock(p), SendBlock(p)', Len(chain[Src[p]]))
    /\ Grown(AckBlock(p), AckBlock(p)', Len(chain[Dst[p]]))
    /\ Grown(ReceivedAckBlock(p), ReceivedAckBlock(p)', Len(chain[Src[p]]))
    /\ AckBlock(p) # 0 => AckCode(p)' = AckCode(p)

LEMMA SameBlocks == UNCHANGED chain => BlocksGrow /\ (ChainsInv => ChainsInv')
<1> SUFFICES ASSUME chain' = chain PROVE BlocksGrow /\ (ChainsInv => ChainsInv')
  OBVIOUS
<1>1. \A c, kind, p : BlockOf(c, kind, p)' = BlockOf(c, kind, p)
  BY DEF BlockOf
<1>2. \A p : /\ SendBlock(p)' = SendBlock(p) /\ AckBlock(p)' = AckBlock(p)
             /\ ReceivedAckBlock(p)' = ReceivedAckBlock(p) /\ AckCode(p)' = AckCode(p)
  BY <1>1 DEF SendBlock, AckBlock, ReceivedAckBlock, AckCode
<1> QED BY <1>1, <1>2, Zenon DEF BlocksGrow, Grown, ChainsInv

(* The block that is appended holds an event of its chain that is not there   *)
(* yet, or none.                                                             *)
NewEvent(c, block) ==
  block # Empty => /\ block \in Events
                   /\ c = Home(block.kind, block.pkt)
                   /\ BlockOf(c, block.kind, block.pkt) = 0

LEMMA Appended ==
  ASSUME Types, ChainsInv, NEW c \in Chains, NEW block, Append1(c, block), NewEvent(c, block)
  PROVE  /\ chain' \in [Chains -> Seq(Events \cup {Empty})]
         /\ \A d \in Chains \ {c} : chain'[d] = chain[d]
         /\ Len(chain'[c]) = Len(chain[c]) + 1
         /\ DOMAIN chain'[c] = 1 .. Len(chain[c]) + 1
         /\ \A b \in 1 .. Len(chain[c]) : chain'[c][b] = chain[c][b]
         /\ chain'[c][Len(chain[c]) + 1] = block
<1>1. block \in Events \cup {Empty}
  BY DEF NewEvent
<1>2. chain' = [chain EXCEPT ![c] = Append(chain[c], block)]
  BY DEF Append1
<1>3. chain[c] \in Seq(Events \cup {Empty})
  BY DEF Types
<1>4. Append(chain[c], block) \in Seq(Events \cup {Empty})
  BY <1>1, <1>3
<1>5. chain'[c] = Append(chain[c], block) /\ \A d \in Chains \ {c} : chain'[d] = chain[d]
  BY <1>2 DEF Types
<1>6. chain' \in [Chains -> Seq(Events \cup {Empty})]
  BY <1>2, <1>4 DEF Types
<1> QED BY <1>1, <1>3, <1>5, <1>6

LEMMA AppendedBlockOf ==
  ASSUME Types, ChainsInv, NEW c \in Chains, NEW block, Append1(c, block), NewEvent(c, block),
         Types', NEW d \in Chains, NEW kind \in Kinds, NEW p \in Packets
  PROVE  BlockOf(d, kind, p)' =
           IF d = c /\ block # Empty /\ block.kind = kind /\ block.pkt = p
           THEN Len(chain[c]) + 1 ELSE BlockOf(d, kind, p)
<1> DEFINE old == BlockOf(d, kind, p)
           new == BlockOf(d, kind, p)'
           len == Len(chain[c])
<1>1. /\ \A e \in Chains \ {c} : chain'[e] = chain[e]
      /\ DOMAIN chain'[c] = 1 .. len + 1
      /\ \A b \in 1 .. len : chain'[c][b] = chain[c][b]
      /\ chain'[c][len + 1] = block
  BY Appended
<1>2. CASE d # c
  <2>1. chain'[d] = chain[d]
    BY <1>1, <1>2
  <2> QED BY <1>2, <2>1 DEF BlockOf
<1>3. CASE d = c
  <2>1. /\ new \in 0 .. len + 1
        /\ new # 0 => IsEvent(chain'[c][new], kind, p)
        /\ new = 0 => \A b \in 1 .. len + 1 : ~IsEvent(chain'[c][b], kind, p)
    <3>1. Len(chain'[c]) = len + 1
      BY Appended
    <3> HIDE DEF len
    <3>2. /\ BlockOf(c, kind, p)' \in 0 .. Len(chain'[c])
          /\ BlockOf(c, kind, p)' # 0 => IsEvent(chain'[c][BlockOf(c, kind, p)'], kind, p)
          /\ BlockOf(c, kind, p)' = 0 =>
               \A b \in DOMAIN chain'[c] : ~IsEvent(chain'[c][b], kind, p)
      <4>1. (/\ BlockOf(c, kind, p) \in 0 .. Len(chain[c])
             /\ BlockOf(c, kind, p) # 0 => IsEvent(chain[c][BlockOf(c, kind, p)], kind, p)
             /\ BlockOf(c, kind, p) = 0 =>
                  \A b \in DOMAIN chain[c] : ~IsEvent(chain[c][b], kind, p))'
        BY BlockOfShape, PTL
      <4> QED BY <4>1 DEF IsEvent
    <3> QED BY <1>1, <1>3, <3>1, <3>2
  <2>2. /\ old \in 0 .. len
        /\ old # 0 => IsEvent(chain[c][old], kind, p)
        /\ old = 0 => \A b \in 1 .. len : ~IsEvent(chain[c][b], kind, p)
    BY <1>3, BlockOfShape DEF Types
  <2>3. \A b \in 1 .. len : IsEvent(chain[c][b], kind, p) => b = old
    BY <1>3 DEF ChainsInv, Types
  <2>4. IsEvent(block, kind, p) <=> block # Empty /\ block.kind = kind /\ block.pkt = p
    BY DEF IsEvent, Empty, Kinds
  <2>5. IsEvent(block, kind, p) => old = 0
    BY <1>3, <2>4 DEF NewEvent
  <2>6. len \in Nat
    BY DEF Types
  <2> HIDE DEF old, new, len
  <2>7. CASE IsEvent(block, kind, p)
    <3>1. \A b \in 1 .. len : ~IsEvent(chain[c][b], kind, p)
      BY <2>2, <2>5, <2>7
    <3>2. new # 0
      BY <1>1, <2>1, <2>6, <2>7
    <3>3. new = len + 1
      BY <1>1, <2>1, <2>6, <3>1, <3>2
    <3> QED BY <1>3, <2>4, <2>7, <3>3 DEF new, len
  <2>8. CASE ~IsEvent(block, kind, p)
    <3>1. new # len + 1
      BY <1>1, <2>1, <2>6, <2>8
    <3>2. new = 0 => old = 0
      BY <1>1, <2>1, <2>2, <2>6
    <3>3. new # 0 => new = old
      BY <1>1, <2>1, <2>3, <2>6, <3>1
    <3>4. new = old
      BY <3>2, <3>3
    <3> QED BY <1>3, <2>4, <2>8, <3>4 DEF new, old
  <2> QED BY <2>7, <2>8
<1> QED BY <1>2, <1>3

(* An event follows those that cause it. *)
Caused(block) ==
  /\ block.kind = "ack" =>
       SendBlock(block.pkt) # 0 /\ block.code \in {Success, Fail}
  /\ block.kind = "receivedAck" =>
       /\ AckBlock(block.pkt) # 0
       /\ block.code = AckCode(block.pkt)

(* What a step of the environment leaves for the other invariants. *)
ChainGrows(c) ==
  /\ Len(chain'[c]) = Len(chain[c]) + 1
  /\ \A b \in 1 .. Len(chain[c]) : chain'[c][b] = chain[c][b]
  /\ Len(chain[c]) < MaxHead

ChainsGrow ==
  /\ Types' /\ ChainsInv' /\ BlocksGrow
  /\ \A c \in Chains : chain'[c] = chain[c] \/ ChainGrows(c)
  /\ UNCHANGED <<height, row, job, base, unread, crashes, failures>>

LEMMA AppendGrows ==
  ASSUME Types, ChainsInv, NEW c \in Chains, NEW block, Append1(c, block),
         NewEvent(c, block), Caused(block), MaxHead \in Int
  PROVE  ChainsGrow
<1> DEFINE len == Len(chain[c])
<1>1. /\ UNCHANGED <<height, row, job, base, unread, crashes, failures>>
      /\ len \in Nat /\ len < MaxHead
  BY DEF Append1, Types
<1>2. /\ chain' \in [Chains -> Seq(Events \cup {Empty})]
      /\ \A d \in Chains \ {c} : chain'[d] = chain[d]
      /\ Len(chain'[c]) = len + 1
      /\ DOMAIN chain'[c] = 1 .. len + 1
      /\ \A b \in 1 .. len : chain'[c][b] = chain[c][b]
      /\ chain'[c][len + 1] = block
  BY Appended
<1>3. Types'
  BY <1>1, <1>2 DEF Types
<1>4. \A d \in Chains, kind \in Kinds, p \in Packets :
        BlockOf(d, kind, p)' =
          IF d = c /\ block # Empty /\ block.kind = kind /\ block.pkt = p
          THEN len + 1 ELSE BlockOf(d, kind, p)
  BY <1>3, AppendedBlockOf
<1>5. \A kind \in Kinds, p \in Packets : Home(kind, p) \in Chains
  BY BridgesOK DEF Home
<1>6. \A p \in Packets :
        /\ SendBlock(p) = BlockOf(Home("send", p), "send", p)
        /\ AckBlock(p) = BlockOf(Home("ack", p), "ack", p)
        /\ ReceivedAckBlock(p) = BlockOf(Home("receivedAck", p), "receivedAck", p)
        /\ SendBlock(p)' = BlockOf(Home("send", p), "send", p)'
        /\ AckBlock(p)' = BlockOf(Home("ack", p), "ack", p)'
        /\ ReceivedAckBlock(p)' = BlockOf(Home("receivedAck", p), "receivedAck", p)'
  BY DEF SendBlock, AckBlock, ReceivedAckBlock, Home
<1>7. \A kind \in Kinds, p \in Packets :
        LET d == Home(kind, p)
        IN  Grown(BlockOf(d, kind, p), BlockOf(d, kind, p)', Len(chain[d]))
  BY <1>4, <1>5 DEF NewEvent, Grown
<1>8. ASSUME NEW p \in Packets, AckBlock(p) # 0
      PROVE  AckBlock(p)' = AckBlock(p) /\ AckCode(p)' = AckCode(p)
  <2>1. AckBlock(p) \in 1 .. Len(chain[Dst[p]])
    BY <1>8, BlockTypes
  <2>2. Dst[p] \in Chains /\ Home("ack", p) = Dst[p]
    BY BridgesOK DEF Home
  <2>3. AckBlock(p)' = AckBlock(p)
    BY <1>4, <1>6, <1>8, <2>2 DEF NewEvent, Kinds
  <2>4. chain'[Dst[p]][AckBlock(p)] = chain[Dst[p]][AckBlock(p)]
    BY <1>2, <2>1, <2>2
  <2> QED BY <2>3, <2>4 DEF AckCode
<1>9. BlocksGrow
  BY <1>6, <1>7, <1>8 DEF BlocksGrow, Kinds, Home
<1>10. ASSUME NEW d \in Chains, NEW kind \in Kinds, NEW p \in Packets,
              NEW b \in DOMAIN chain'[d], IsEvent(chain'[d][b], kind, p)
       PROVE  d = Home(kind, p) /\ b = BlockOf(d, kind, p)'
  <2>1. CASE d = c /\ b = len + 1
    BY <1>2, <1>4, <1>10, <2>1 DEF IsEvent, NewEvent, Empty, Kinds
  <2>2. CASE ~(d = c /\ b = len + 1)
    <3>1. b \in DOMAIN chain[d] /\ chain'[d][b] = chain[d][b]
      <4>1. CASE d # c
        BY <1>2, <4>1
      <4>2. CASE d = c
        <5>1. DOMAIN chain[c] = 1 .. len
          BY DEF Types
        <5> QED BY <1>1, <1>2, <2>2, <4>2, <5>1
      <4> QED BY <4>1, <4>2
    <3>2. d = Home(kind, p) /\ b = BlockOf(d, kind, p)
      BY <1>10, <3>1 DEF ChainsInv
    <3>3. b # 0
      BY <3>1 DEF Types
    <3>4. BlockOf(d, kind, p)' = b
      BY <1>4, <3>2, <3>3 DEF NewEvent
    <3> QED BY <3>2, <3>4
  <2> QED BY <2>1, <2>2
<1>11. ASSUME NEW p \in Packets
       PROVE  /\ AckBlock(p)' # 0 => SendBlock(p)' # 0 /\ AckCode(p)' \in {Success, Fail}
              /\ ReceivedAckBlock(p)' # 0 =>
                   /\ AckBlock(p)' # 0
                   /\ SendBlock(p)' < ReceivedAckBlock(p)'
                   /\ chain'[Src[p]][ReceivedAckBlock(p)'].code = AckCode(p)'
  <2>1. Src[p] \in Chains /\ Dst[p] \in Chains
    BY BridgesOK
  <2>2. /\ SendBlock(p) \in 0 .. Len(chain[Src[p]])
        /\ AckBlock(p) \in 0 .. Len(chain[Dst[p]])
        /\ ReceivedAckBlock(p) \in 0 .. Len(chain[Src[p]])
        /\ Len(chain[Src[p]]) \in Nat
    BY <2>1, BlockTypes, SMTT(60) DEF Types
  <2>3. SendBlock(p) # 0 => SendBlock(p)' = SendBlock(p)
    BY <1>9 DEF BlocksGrow, Grown
  <2>4. AckBlock(p)' # 0 => SendBlock(p)' # 0 /\ AckCode(p)' \in {Success, Fail}
    <3>1. CASE AckBlock(p) # 0
      BY <1>8, <2>3, <3>1 DEF ChainsInv
    <3>2. CASE AckBlock(p) = 0 /\ AckBlock(p)' # 0
      <4>1. /\ c = Dst[p] /\ block # Empty /\ block.kind = "ack" /\ block.pkt = p
            /\ AckBlock(p)' = len + 1
        BY <1>4, <1>6, <2>1, <3>2 DEF Home, Kinds
      <4>2. AckCode(p)' = block.code
        BY <1>2, <4>1 DEF AckCode
      <4> QED BY <2>3, <4>1, <4>2 DEF Caused
    <3> QED BY <3>1, <3>2
  <2>5. ReceivedAckBlock(p)' # 0 =>
          /\ AckBlock(p)' # 0
          /\ SendBlock(p)' < ReceivedAckBlock(p)'
          /\ chain'[Src[p]][ReceivedAckBlock(p)'].code = AckCode(p)'
    <3>1. CASE ReceivedAckBlock(p) # 0
      <4>1. /\ AckBlock(p) # 0 /\ SendBlock(p) < ReceivedAckBlock(p)
            /\ chain[Src[p]][ReceivedAckBlock(p)].code = AckCode(p)
            /\ SendBlock(p) # 0
        BY <3>1 DEF ChainsInv
      <4>2. ReceivedAckBlock(p)' = ReceivedAckBlock(p)
        BY <1>9, <3>1 DEF BlocksGrow, Grown
      <4>3. chain'[Src[p]][ReceivedAckBlock(p)] = chain[Src[p]][ReceivedAckBlock(p)]
        BY <1>2, <2>1, <2>2, <3>1, SMTT(60)
      <4> QED BY <1>8, <2>3, <4>1, <4>2, <4>3
    <3>2. CASE ReceivedAckBlock(p) = 0 /\ ReceivedAckBlock(p)' # 0
      <4>1. /\ c = Src[p] /\ block # Empty /\ block.kind = "receivedAck" /\ block.pkt = p
            /\ ReceivedAckBlock(p)' = len + 1
        BY <1>4, <1>6, <2>1, <3>2 DEF Home, Kinds
      <4>2. AckBlock(p) # 0 /\ block.code = AckCode(p)
        BY <4>1 DEF Caused
      <4>3. SendBlock(p) # 0
        BY <4>2 DEF ChainsInv
      <4>4. SendBlock(p)' = SendBlock(p) /\ SendBlock(p) < len + 1
        BY <2>2, <2>3, <4>1, <4>3
      <4> QED BY <1>2, <1>8, <4>1, <4>2, <4>4
    <3> QED BY <3>1, <3>2
  <2> QED BY <2>4, <2>5
<1>12. ChainsInv'
  BY <1>10, <1>11, Zenon DEF ChainsInv
<1>13. \A d \in Chains : chain'[d] = chain[d] \/ ChainGrows(d)
  BY <1>1, <1>2 DEF ChainGrows
<1> QED BY <1>1, <1>3, <1>9, <1>12, <1>13 DEF ChainsGrow

LEMMA EnvironmentGrows ==
  ASSUME Types, ChainsInv, Environment
  PROVE  ChainsGrow
<1>1. CASE \E c \in Chains : Mine(c)
  <2>1. PICK c \in Chains : Append1(c, Empty)
    BY <1>1 DEF Mine
  <2> QED BY <2>1, AppendGrows, CursorsOK DEF NewEvent, Caused, Empty
<1>2. ASSUME NEW p \in Packets, SendPacket(p) \/ WriteAck(p) \/ AcknowledgePacket(p)
      PROVE  ChainsGrow
  <2>1. CASE SendPacket(p)
    <3> DEFINE block == Event("send", p, Pending)
    <3>1. NewEvent(Src[p], block) /\ Caused(block)
      BY <2>1 DEF SendPacket, NewEvent, Caused, Event, Events, Kinds, Home, SendBlock, Pending
    <3> QED BY <2>1, <3>1, AppendGrows, BridgesOK, CursorsOK DEF SendPacket
  <2>2. CASE WriteAck(p)
    <3>1. PICK code \in {Success, Fail} : Append1(Dst[p], Event("ack", p, code))
      BY <2>2 DEF WriteAck
    <3> DEFINE block == Event("ack", p, code)
    <3>2. NewEvent(Dst[p], block) /\ Caused(block)
      BY <2>2 DEF WriteAck, NewEvent, Caused, Event, Events, Kinds, Home, AckBlock, Success, Fail
    <3> QED BY <3>1, <3>2, AppendGrows, BridgesOK, CursorsOK
  <2>3. CASE AcknowledgePacket(p)
    <3> DEFINE block == Event("receivedAck", p, AckCode(p))
    <3>1. AckBlock(p) # 0 /\ ReceivedAckBlock(p) = 0
      BY <2>3 DEF AcknowledgePacket
    <3>2. AckCode(p) \in Nat
      BY <3>1 DEF ChainsInv, Success, Fail
    <3>3. NewEvent(Src[p], block) /\ Caused(block)
      BY <3>1, <3>2 DEF NewEvent, Caused, Event, Events, Kinds, Home, ReceivedAckBlock
    <3> QED BY <2>3, <3>3, AppendGrows, BridgesOK, CursorsOK DEF AcknowledgePacket
  <2> QED BY <1>2, <2>1, <2>2, <2>3
<1> QED BY <1>1, <1>2 DEF Environment

-----------------------------------------------------------------------------
(* saveToDB's transaction *)

TxStates == [view : [Packets -> Rows], table : [Packets -> Rows], duplicate : BOOLEAN]

Begin(snapshot) == [view |-> snapshot, table |-> row, duplicate |-> FALSE]

(***************************************************************************)
(* A relation between the number of records stored and the transaction that   *)
(* holds at its beginning, and that every record preserves, holds at its end. *)
(***************************************************************************)
LEMMA TransactionInduct ==
  ASSUME NEW snapshot, NEW batch, Len(batch) \in Nat, NEW T,
         <<0, Begin(snapshot)>> \in T,
         \A n \in 0 .. Len(batch) - 1 : \A tx :
           <<n, tx>> \in T => <<n + 1, Store(tx, batch[n + 1])>> \in T
  PROVE  <<Len(batch), Transaction(snapshot, batch)>> \in T
<1> DEFINE N == Len(batch)
           Folds(m, g) ==
             g = [n \in 0 .. m |-> IF n = 0 THEN Begin(snapshot)
                                   ELSE Store(g[n - 1], batch[n])]
           U == {m \in Nat : \E g : Folds(m, g)}
<1>1. 0 \in U
  <2>1. Folds(0, [n \in 0 .. 0 |-> Begin(snapshot)])
    OBVIOUS
  <2> QED BY <2>1
<1>2. ASSUME NEW m \in Nat, m \in U PROVE m + 1 \in U
  <2>1. PICK g : Folds(m, g)
    BY <1>2
  <2> DEFINE h == [n \in 0 .. m + 1 |->
                     IF n = m + 1 THEN Store(g[m], batch[m + 1]) ELSE g[n]]
  <2>2. ASSUME NEW n \in 0 .. m + 1
        PROVE  h[n] = IF n = 0 THEN Begin(snapshot) ELSE Store(h[n - 1], batch[n])
    <3>1. CASE n = m + 1
      BY <3>1
    <3>2. CASE n # m + 1
      <4>1. n \in 0 .. m
        BY <3>2
      <4>2. g[n] = IF n = 0 THEN Begin(snapshot) ELSE Store(g[n - 1], batch[n])
        BY <2>1, <4>1
      <4> QED BY <4>1, <4>2
    <3> QED BY <3>1, <3>2
  <2>3. Folds(m + 1, h)
    BY <2>2
  <2>4. m + 1 \in Nat
    OBVIOUS
  <2> HIDE DEF Folds, h
  <2> QED BY <2>3, <2>4
<1>3. \E g : Folds(N, g)
  <2> HIDE DEF U
  <2>1. Nat \subseteq U
    BY <1>1, <1>2, Induct
  <2> QED BY <2>1 DEF U
<1> DEFINE tx == CHOOSE g : Folds(N, g)
<1>4. tx = [n \in 0 .. N |-> IF n = 0 THEN Begin(snapshot) ELSE Store(tx[n - 1], batch[n])]
  BY <1>3
<1>5. Transaction(snapshot, batch) = tx[N]
  BY DEF Transaction, Begin
<1> DEFINE V == {n \in 0 .. N : <<n, tx[n]>> \in T}
<1> HIDE DEF tx
<1>6. 0 \in V
  BY <1>4
<1>7. ASSUME NEW n \in 0 .. N - 1, n \in V PROVE n + 1 \in V
  BY <1>4, <1>7
<1>8. 0 .. N \subseteq V
  <2> HIDE DEF V
  <2> QED BY <1>6, <1>7, InductTo
<1> QED BY <1>5, <1>8

LEMMA NoRowIsRow == NoRow \in Rows /\ ~Found(NoRow)
  BY Codes DEF NoRow, Rows, Found

(* The columns of a row that has been written over an old one. *)
LEMMA UpdatesRow ==
  ASSUME NEW old \in Rows, NEW cols \in Rows, Found(cols), NEW found \in Rows
  PROVE  LET new == Updates(old, KeepStatus(cols, found))
         IN  /\ new \in Rows /\ Found(new)
             /\ new.token = (old.token \/ cols.token)
             /\ new.amount = (old.amount \/ cols.amount)
             /\ new.status = IF cols.status < found.status THEN found.status ELSE cols.status
             /\ new.srcHeight = IF cols.srcHeight # 0 THEN cols.srcHeight ELSE old.srcHeight
             /\ new.destHeight = IF cols.destHeight # 0 THEN cols.destHeight ELSE old.destHeight
             /\ new.refundHeight =
                  IF cols.refundHeight # 0 THEN cols.refundHeight ELSE old.refundHeight
<1> DEFINE kept == KeepStatus(cols, found)
<1>1. /\ kept \in Rows
      /\ kept.status = IF cols.status < found.status THEN found.status ELSE cols.status
      /\ kept.token = cols.token /\ kept.amount = cols.amount
      /\ kept.srcHeight = cols.srcHeight /\ kept.destHeight = cols.destHeight
      /\ kept.refundHeight = cols.refundHeight
  BY DEF KeepStatus, Rows
<1>2. kept.status # 0
  BY <1>1, Codes DEF Found, Rows
<1> HIDE DEF kept
<1> DEFINE new == Updates(old, kept)
<1>3. /\ new.token = (old.token \/ kept.token)
      /\ new.amount = (old.amount \/ kept.amount)
      /\ new.status = kept.status
      /\ new.srcHeight = IF kept.srcHeight # 0 THEN kept.srcHeight ELSE old.srcHeight
      /\ new.destHeight = IF kept.destHeight # 0 THEN kept.destHeight ELSE old.destHeight
      /\ new.refundHeight =
           IF kept.refundHeight # 0 THEN kept.refundHeight ELSE old.refundHeight
  BY Zenon DEF Updates
<1>4. new \in Rows
  BY <1>1 DEF Updates, Rows
<1>5. Found(new)
  BY <1>2, <1>3 DEF Found
<1> HIDE DEF new
<1>6. /\ new.token = (old.token \/ cols.token)
      /\ new.amount = (old.amount \/ cols.amount)
  BY <1>1, <1>3, Zenon
<1> QED BY <1>1, <1>3, <1>4, <1>5, <1>6, Zenon DEF kept, new

LEMMA StoreStep ==
  ASSUME NEW tx \in TxStates, NEW rec \in Recs,
         \A p \in Packets : ~Found(tx.table[p]) => tx.table[p] = NoRow
  PROVE  LET q == rec.pkt
             new == Updates(tx.table[q], KeepStatus(rec.cols, tx.view[q]))
             next == Store(tx, rec)
         IN  \/ /\ ~Found(tx.view[q]) /\ Found(tx.table[q])
                /\ next = [view |-> tx.view, table |-> tx.table, duplicate |-> TRUE]
             \/ /\ Found(tx.view[q]) \/ ~Found(tx.table[q])
                /\ next = [view |-> [tx.view EXCEPT ![q] = new],
                           table |-> [tx.table EXCEPT ![q] = new],
                           duplicate |-> tx.duplicate]
<1> DEFINE q == rec.pkt
           found == tx.view[q]
           new == Updates(tx.table[q], KeepStatus(rec.cols, tx.view[q]))
<1>0. q \in Packets /\ rec.cols \in Rows /\ Found(rec.cols)
      /\ found \in Rows /\ tx.table[q] \in Rows
  BY DEF Recs, TxStates
<1>1. CASE ~Found(found) /\ Found(tx.table[q])
  BY <1>1 DEF Store, TxStates
<1>2. CASE Found(found)
  BY <1>2 DEF Store, TxStates
<1>3. CASE ~Found(found) /\ ~Found(tx.table[q])
  <2>1. tx.table[q] = NoRow
    BY <1>0, <1>3
  <2>2. ~(rec.cols.status < found.status)
    BY <1>0, <1>3, Codes DEF Found, Rows
  <2>3. KeepStatus(rec.cols, found) = rec.cols
    BY <2>2 DEF KeepStatus
  <2>4. Updates(NoRow, rec.cols) = new
    BY <2>1, <2>3
  <2> QED BY <1>3, <2>4 DEF Store, TxStates
<1> QED BY <1>1, <1>2, <1>3

LEMMA ColumnTypes ==
  ASSUME NEW r \in Rows, NEW kind
  PROVE  Column(kind, r) \in Nat
BY DEF Column, Rows

(***************************************************************************)
(* What the transaction has done to the table after n records: a column is    *)
(* what it was or what a record brings, nothing is wiped, and, unless an      *)
(* INSERT was refused, every record has been applied.                         *)
(***************************************************************************)
Applied(batch, n, table) ==
  /\ NoEmptyRows(table)
  /\ \A p \in Packets :
       /\ Found(row[p]) => Found(table[p])
       /\ row[p].amount => table[p].amount
       /\ \A kind \in Kinds :
            /\ Column(kind, row[p]) # 0 => Column(kind, table[p]) # 0
            /\ \/ Column(kind, table[p]) = Column(kind, row[p])
               \/ \E i \in 1 .. n :
                    /\ batch[i].pkt = p
                    /\ Column(kind, batch[i].cols) # 0
                    /\ Column(kind, table[p]) = Column(kind, batch[i].cols)

Complete(batch, n, table) ==
  \A i \in 1 .. n :
    LET r == table[batch[i].pkt]
    IN  /\ Found(r)
        /\ batch[i].cols.amount => r.amount
        /\ \A kind \in Kinds : Column(kind, batch[i].cols) # 0 => Column(kind, r) # 0

(* One record, written over the row `old`. *)
LEMMA UpdatesColumns ==
  ASSUME NEW old \in Rows, NEW cols \in Rows, Found(cols), NEW found \in Rows
  PROVE  LET new == Updates(old, KeepStatus(cols, found))
         IN  /\ new \in Rows /\ Found(new)
             /\ old.amount => new.amount
             /\ cols.amount => new.amount
             /\ \A kind \in Kinds :
                  Column(kind, new) = IF Column(kind, cols) # 0 THEN Column(kind, cols)
                                      ELSE Column(kind, old)
<1> DEFINE new == Updates(old, KeepStatus(cols, found))
<1>1. /\ new \in Rows /\ Found(new)
      /\ new.amount = (old.amount \/ cols.amount)
      /\ new.srcHeight = IF cols.srcHeight # 0 THEN cols.srcHeight ELSE old.srcHeight
      /\ new.destHeight = IF cols.destHeight # 0 THEN cols.destHeight ELSE old.destHeight
      /\ new.refundHeight = IF cols.refundHeight # 0 THEN cols.refundHeight ELSE old.refundHeight
  BY UpdatesRow, ZenonT(60)
<1> HIDE DEF new
<1>2. \A kind \in Kinds :
        Column(kind, new) = IF Column(kind, cols) # 0 THEN Column(kind, cols)
                            ELSE Column(kind, old)
  BY <1>1 DEF Column
<1>3. (old.amount => new.amount) /\ (cols.amount => new.amount)
  BY <1>1, Zenon
<1> QED BY <1>1, <1>2, <1>3 DEF new

LEMMA StoreApplies ==
  ASSUME Types, NEW batch \in Seq(Recs), NEW n \in 0 .. Len(batch) - 1,
         NEW tx \in TxStates, Applied(batch, n, tx.table),
         tx.duplicate \/ Complete(batch, n, tx.table)
  PROVE  LET next == Store(tx, batch[n + 1])
         IN  /\ next \in TxStates
             /\ Applied(batch, n + 1, next.table)
             /\ next.duplicate \/ Complete(batch, n + 1, next.table)
<1> DEFINE rec == batch[n + 1]
           q == rec.pkt
           new == Updates(tx.table[q], KeepStatus(rec.cols, tx.view[q]))
           next == Store(tx, rec)
<1>1. rec \in Recs
  OBVIOUS
<1>2. q \in Packets /\ rec.cols \in Rows /\ Found(rec.cols)
      /\ tx.view[q] \in Rows /\ tx.table[q] \in Rows
      /\ tx.view \in [Packets -> Rows] /\ tx.table \in [Packets -> Rows]
      /\ tx.duplicate \in BOOLEAN
  BY <1>1 DEF Recs, TxStates
<1>3. \/ next = [view |-> tx.view, table |-> tx.table, duplicate |-> TRUE]
      \/ next = [view |-> [tx.view EXCEPT ![q] = new],
                 table |-> [tx.table EXCEPT ![q] = new],
                 duplicate |-> tx.duplicate]
  BY <1>1, StoreStep, Zenon DEF Applied, NoEmptyRows
<1>4. /\ new \in Rows /\ Found(new)
      /\ tx.table[q].amount => new.amount
      /\ rec.cols.amount => new.amount
      /\ \A kind \in Kinds :
           Column(kind, new) = IF Column(kind, rec.cols) # 0 THEN Column(kind, rec.cols)
                               ELSE Column(kind, tx.table[q])
  BY <1>2, UpdatesColumns, ZenonT(60)
<1> HIDE DEF new, next
<1>5. CASE next = [view |-> tx.view, table |-> tx.table, duplicate |-> TRUE]
  <2>1. next \in TxStates /\ next.table = tx.table /\ next.duplicate
    BY <1>2, <1>5 DEF TxStates
  <2>2. Applied(batch, n + 1, tx.table)
    BY DEF Applied
  <2> QED BY <2>1, <2>2 DEF next
<1>6. CASE next = [view |-> [tx.view EXCEPT ![q] = new],
                   table |-> [tx.table EXCEPT ![q] = new],
                   duplicate |-> tx.duplicate]
  <2>1. next \in TxStates /\ next.duplicate = tx.duplicate
    BY <1>2, <1>4, <1>6 DEF TxStates
  <2>2. next.table[q] = new /\ \A p \in Packets \ {q} : next.table[p] = tx.table[p]
    BY <1>2, <1>6
  <2>3. NoEmptyRows(next.table)
    BY <1>2, <1>4, <2>2 DEF Applied, NoEmptyRows
  <2>4. ASSUME NEW p \in Packets
        PROVE  /\ Found(row[p]) => Found(next.table[p])
               /\ row[p].amount => next.table[p].amount
    BY <1>2, <1>4, <2>2 DEF Applied
  <2>5. ASSUME NEW p \in Packets, NEW kind \in Kinds
        PROVE  /\ Column(kind, row[p]) # 0 => Column(kind, next.table[p]) # 0
               /\ \/ Column(kind, next.table[p]) = Column(kind, row[p])
                  \/ \E i \in 1 .. n + 1 :
                       /\ batch[i].pkt = p
                       /\ Column(kind, batch[i].cols) # 0
                       /\ Column(kind, next.table[p]) = Column(kind, batch[i].cols)
    <3>1. /\ Column(kind, row[p]) # 0 => Column(kind, tx.table[p]) # 0
          /\ \/ Column(kind, tx.table[p]) = Column(kind, row[p])
             \/ \E i \in 1 .. n :
                  /\ batch[i].pkt = p
                  /\ Column(kind, batch[i].cols) # 0
                  /\ Column(kind, tx.table[p]) = Column(kind, batch[i].cols)
      BY DEF Applied
    <3>2. CASE p = q /\ Column(kind, rec.cols) # 0
      BY <1>4, <2>2, <3>2
    <3>3. CASE ~(p = q /\ Column(kind, rec.cols) # 0)
      <4>1. Column(kind, next.table[p]) = Column(kind, tx.table[p])
        BY <1>4, <2>2, <3>3
      <4> QED BY <3>1, <4>1
    <3> QED BY <3>2, <3>3
  <2>6. Applied(batch, n + 1, next.table)
    BY <2>3, <2>4, <2>5, Zenon DEF Applied
  <2>7. ASSUME Complete(batch, n, tx.table) PROVE Complete(batch, n + 1, next.table)
    <3> SUFFICES ASSUME NEW i \in 1 .. n + 1
                 PROVE  /\ Found(next.table[batch[i].pkt])
                        /\ batch[i].cols.amount => next.table[batch[i].pkt].amount
                        /\ \A kind \in Kinds : Column(kind, batch[i].cols) # 0
                             => Column(kind, next.table[batch[i].pkt]) # 0
      BY Zenon DEF Complete
    <3>1. CASE i = n + 1
      BY <1>4, <2>2, <3>1
    <3>2. CASE i # n + 1
      <4>1. /\ Found(tx.table[batch[i].pkt])
            /\ batch[i].cols.amount => tx.table[batch[i].pkt].amount
            /\ \A kind \in Kinds : Column(kind, batch[i].cols) # 0
                             => Column(kind, tx.table[batch[i].pkt]) # 0
        BY <2>7, <3>2 DEF Complete
      <4>2. batch[i].pkt \in Packets
        <5>1. batch[i] \in Recs
          BY <3>2
        <5> QED BY <5>1 DEF Recs
      <4> QED BY <1>4, <2>2, <4>1, <4>2
    <3> QED BY <3>1, <3>2
  <2> QED BY <2>1, <2>6, <2>7 DEF next
<1> QED BY <1>3, <1>5, <1>6

LEMMA TransactionApplies ==
  ASSUME Types, NoEmptyRows(row), NEW snapshot \in [Packets -> Rows],
         NEW batch \in Seq(Recs)
  PROVE  LET tx == Transaction(snapshot, batch)
         IN  /\ tx \in TxStates
             /\ Applied(batch, Len(batch), tx.table)
             /\ tx.duplicate \/ Complete(batch, Len(batch), tx.table)
<1> DEFINE Good(n, tx) == /\ tx \in TxStates
                          /\ Applied(batch, n, tx.table)
                          /\ tx.duplicate \/ Complete(batch, n, tx.table)
           T == {x \in (0 .. Len(batch)) \X TxStates : Good(x[1], x[2])}
<1>1. <<0, Begin(snapshot)>> \in T
  <2>1. /\ Begin(snapshot) \in TxStates
        /\ Begin(snapshot).table = row
    BY DEF Begin, TxStates, Types
  <2>2. Applied(batch, 0, row) /\ Complete(batch, 0, row)
    BY DEF Applied, Complete
  <2> QED BY <2>1, <2>2
<1>2. ASSUME NEW n \in 0 .. Len(batch) - 1, NEW tx, <<n, tx>> \in T
      PROVE  <<n + 1, Store(tx, batch[n + 1])>> \in T
  <2>1. Good(n, tx)
    BY <1>2
  <2>2. Good(n + 1, Store(tx, batch[n + 1]))
    BY <2>1, StoreApplies, Zenon
  <2>3. n + 1 \in 0 .. Len(batch)
    OBVIOUS
  <2> QED BY <2>2, <2>3
<1>3. <<Len(batch), Transaction(snapshot, batch)>> \in T
  <2> HIDE DEF T
  <2> QED BY <1>1, <1>2, TransactionInduct
<1>4. Good(Len(batch), Transaction(snapshot, batch))
  BY <1>3
<1> QED BY <1>4

-----------------------------------------------------------------------------
(* What does not disturb a job *)

LEMMA BlockNames ==
  ASSUME NEW p
  PROVE  /\ Block("send", p) = SendBlock(p)
         /\ Block("ack", p) = AckBlock(p)
         /\ Block("receivedAck", p) = ReceivedAckBlock(p)
         /\ Block("send", p)' = SendBlock(p)'
         /\ Block("ack", p)' = AckBlock(p)'
         /\ Block("receivedAck", p)' = ReceivedAckBlock(p)'
BY DEF Block, Home, SendBlock, AckBlock, ReceivedAckBlock

LEMMA HomeChains == \A kind \in Kinds, p \in Packets : Home(kind, p) \in Chains
BY BridgesOK DEF Home

LEMMA BlockInChain ==
  ASSUME Types, NEW kind \in Kinds, NEW p \in Packets
  PROVE  Block(kind, p) \in 0 .. Len(chain[Home(kind, p)])
BY HomeChains, BlockOfShape DEF Block

LEMMA BlocksStay ==
  ASSUME BlocksGrow, NEW kind \in Kinds, NEW p \in Packets
  PROVE  /\ Grown(Block(kind, p), Block(kind, p)', Len(chain[Home(kind, p)]))
         /\ Block(kind, p) # 0 => Block(kind, p)' = Block(kind, p)
         /\ AckBlock(p) # 0 => AckCode(p)' = AckCode(p)
<1>1. Grown(Block(kind, p), Block(kind, p)', Len(chain[Home(kind, p)]))
  BY BlockNames DEF BlocksGrow, Home, Kinds
<1> QED BY <1>1 DEF BlocksGrow, Grown

LEMMA CauseOfRefund ==
  ASSUME ChainsInv, NEW p \in Packets, ReceivedAckBlock(p) # 0
  PROVE  AckBlock(p) # 0 /\ SendBlock(p) # 0
BY DEF ChainsInv

Working(c) == job[c].stage \in {"fetching", "reading", "storing"}

LEMMA RangeStays ==
  ASSUME Types, BlocksGrow, NEW c \in Chains, CursorInv(c), Working(c), job'[c] = job[c],
         NEW kind \in Kinds, NEW p \in Packets
  PROVE  /\ InRange(c, kind, p)' <=> InRange(c, kind, p)
         /\ InRange(c, kind, p) => Block(kind, p) # 0 /\ Block(kind, p)' = Block(kind, p)
<1>1. /\ job[c].from \in Nat \ {0} /\ job[c].to \in Nat /\ job[c].to < Len(chain[c])
      /\ Len(chain[c]) \in Nat
  BY DEF CursorInv, Working, At, Types, Jobs
<1>2. Block(kind, p) \in 0 .. Len(chain[Home(kind, p)])
  BY BlockInChain
<1>3. Grown(Block(kind, p), Block(kind, p)', Len(chain[Home(kind, p)]))
  BY BlocksStay
<1>4. Home(kind, p)' = Home(kind, p)
  BY DEF Home
<1> QED BY <1>1, <1>2, <1>3, <1>4 DEF InRange, Grown

LEMMA JobStays ==
  ASSUME Types, ChainsInv, Types', BlocksGrow, NEW c \in Chains, JobInv(c),
         chain'[c] = chain[c] \/ ChainGrows(c),
         job'[c] = job[c], height'[c] = height[c], base'[c] = base[c], unread'[c] = unread[c],
         \A p \in Packets : row[p].amount => row'[p].amount
  PROVE  JobInv(c)'
<1>1. CursorInv(c)'
  <2>1. Len(chain'[c]) \in Nat /\ Len(chain[c]) \in Nat /\ Len(chain'[c]) >= Len(chain[c])
    BY DEF Types, ChainGrows
  <2>2. /\ FirstHead \in Nat /\ height[c] \in Nat /\ job[c].to \in Nat
    BY CursorsOK DEF Types, Jobs
  <2>3. At(c, "down")' = At(c, "down") /\ At(c, "idle")' = At(c, "idle")
    BY DEF At
  <2> QED BY <2>1, <2>2, <2>3 DEF JobInv, CursorInv
<1>2. CASE ~Working(c)
  <2>1. job[c] = Down \/ job[c] = Idle
    BY <1>2 DEF JobInv, CursorInv, Working, Types, Jobs, Stages, At
  <2>2. /\ job'[c].stage \notin {"reading", "storing"}
        /\ job'[c].todo = {} /\ Len(job'[c].batch) = 0
    BY <2>1 DEF Down, Idle
  <2>3. 1 .. Len(job'[c].batch) = {}
    BY <2>2
  <2> QED BY <1>1, <2>2, <2>3, Zenon DEF JobInv, TodoInv, BatchInv, ReadInv
<1>3. CASE Working(c)
  <2>1. \A kind \in Kinds, p \in Packets :
          /\ InRange(c, kind, p)' <=> InRange(c, kind, p)
          /\ InRange(c, kind, p) => Block(kind, p) # 0 /\ Block(kind, p)' = Block(kind, p)
    BY <1>3, RangeStays DEF JobInv
  <2>2. \A kind \in Kinds, p \in Packets :
          InRange(c, kind, p) /\ kind # "send" => AckBlock(p) # 0 /\ AckCode(p)' = AckCode(p)
    <3> SUFFICES ASSUME NEW kind \in Kinds, NEW p \in Packets,
                        InRange(c, kind, p), kind # "send"
                 PROVE  AckBlock(p) # 0 /\ AckCode(p)' = AckCode(p)
      OBVIOUS
    <3>1. AckBlock(p) # 0
      BY <2>1, BlockNames, CauseOfRefund DEF Kinds
    <3> QED BY <3>1, BlocksStay
  <2>3. TodoInv(c)'
    <3>1. \A x \in job[c].todo :
            /\ x.event.kind \in Kinds /\ x.event.pkt \in Packets
            /\ InRange(c, x.event.kind, x.event.pkt)'
            /\ x.height = Block(x.event.kind, x.event.pkt)'
            /\ x.event.kind = "ack" => x.event.code = AckCode(x.event.pkt)'
            /\ x.event.kind = "receivedAck" => AckCode(x.event.pkt)' = Fail
      BY <2>1, <2>2 DEF JobInv, TodoInv
    <3> QED BY <3>1, Zenon DEF JobInv, TodoInv
  <2>4. BatchInv(c)'
    <3> SUFFICES ASSUME NEW i \in 1 .. Len(job[c].batch)
                 PROVE  \E kind \in Kinds : InRange(c, kind, job[c].batch[i].pkt)'
                                            /\ RecordOf(job[c].batch[i], kind)'
      BY Zenon DEF BatchInv
    <3> DEFINE rec == job[c].batch[i]
    <3>1. PICK kind \in Kinds : InRange(c, kind, rec.pkt) /\ RecordOf(rec, kind)
      BY DEF JobInv, BatchInv
    <3>2. rec.pkt \in Packets
      <4>1. job[c].batch \in Seq(Recs)
        BY DEF Types, Jobs
      <4>2. rec \in Recs
        BY <4>1
      <4> QED BY <4>2 DEF Recs
    <3>3. RecordOf(rec, kind)'
      BY <2>1, <2>2, <3>1, <3>2 DEF RecordOf, Kinds, Column
    <3> QED BY <2>1, <3>1, <3>2, <3>3
  <2>5. ReadInv(c)'
    <3> SUFFICES ASSUME job[c].stage \in {"reading", "storing"},
                        NEW kind \in Kinds, NEW p \in Packets, InRange(c, kind, p)', Due(kind, p)'
                 PROVE  InTodo(c, kind, p)' \/ InBatch(c, kind, p)'
      BY Zenon DEF ReadInv
    <3>1. InRange(c, kind, p) /\ Block(kind, p) # 0 /\ Block(kind, p)' = Block(kind, p)
      BY <2>1
    <3>2. Due(kind, p)
      <4>1. Home(kind, p) = c /\ Home(kind, p)' = c
        BY <3>1 DEF InRange, Home
      <4> QED BY <2>2, <3>1, <4>1, BlockNames DEF Due, Owed
    <3>3. InTodo(c, kind, p) \/ InBatch(c, kind, p)
      BY <3>1, <3>2 DEF JobInv, ReadInv
    <3>4. InTodo(c, kind, p) => InTodo(c, kind, p)'
      BY DEF InTodo
    <3>5. InBatch(c, kind, p) => InBatch(c, kind, p)'
      BY <3>1 DEF InBatch
    <3> QED BY <3>3, <3>4, <3>5
  <2> QED BY <1>1, <2>3, <2>4, <2>5 DEF JobInv
<1> QED BY <1>2, <1>3

LEMMA OthersStay ==
  ASSUME Types, ChainsInv, Types', \A d \in Chains : JobInv(d), UNCHANGED chain,
         NEW c \in Chains, JobInv(c)',
         \A d \in Chains \ {c} :
           /\ job'[d] = job[d] /\ height'[d] = height[d]
           /\ base'[d] = base[d] /\ unread'[d] = unread[d],
         \A p \in Packets : row[p].amount => row'[p].amount
  PROVE  \A d \in Chains : JobInv(d)'
<1> SUFFICES ASSUME NEW d \in Chains \ {c} PROVE JobInv(d)'
  OBVIOUS
<1>1. chain'[d] = chain[d]
  OBVIOUS
<1> QED BY <1>1, SameBlocks, JobStays

(* A job that is not running owes nothing. *)
LEMMA NoWork ==
  ASSUME NEW c \in Chains, job'[c] = Idle \/ job'[c] = Down
  PROVE  TodoInv(c)' /\ BatchInv(c)' /\ ReadInv(c)'
<1>1. /\ job'[c].stage \notin {"reading", "storing"}
      /\ job'[c].todo = {} /\ Len(job'[c].batch) = 0
  BY DEF Down, Idle
<1>2. 1 .. Len(job'[c].batch) = {}
  BY <1>1
<1> QED BY <1>1, <1>2, Zenon DEF TodoInv, BatchInv, ReadInv

(* What only the chains, the cursors and the table matter to. *)
TableInv == ChainsInv /\ RowsInv /\ Passed /\ BehindCursors

LEMMA SameTable ==
  ASSUME ChainsInv, RowsInv, BehindCursors, UNCHANGED <<chain, height, row>>
  PROVE  ChainsInv' /\ RowsInv' /\ BehindCursors'
<1>1. \A c, kind, p : BlockOf(c, kind, p)' = BlockOf(c, kind, p)
  BY DEF BlockOf
<1>2. \A kind, p : Block(kind, p)' = Block(kind, p) /\ AckCode(p)' = AckCode(p)
  BY <1>1 DEF Block, AckCode, AckBlock, Home
<1>3. ChainsInv'
  BY SameBlocks
<1>4. RowsInv'
  BY <1>2 DEF RowsInv, NoEmptyRows, Fits
<1>5. BehindCursors'
  BY <1>2 DEF BehindCursors, Home, Column
<1> QED BY <1>3, <1>4, <1>5

LEMMA TableStays ==
  ASSUME TableInv, UNCHANGED <<chain, height, row, base, unread>>
  PROVE  TableInv'
<1>1. \A c, kind, p : BlockOf(c, kind, p)' = BlockOf(c, kind, p)
  BY DEF BlockOf
<1>2. \A kind, p : /\ Block(kind, p)' = Block(kind, p) /\ AckCode(p)' = AckCode(p)
                   /\ ReceivedAckBlock(p)' = ReceivedAckBlock(p)
  BY <1>1 DEF Block, AckCode, AckBlock, Home, ReceivedAckBlock
<1>3. \A kind, p : /\ Due(kind, p)' = Due(kind, p)
                   /\ Stored(Home(kind, p), Block(kind, p))'
                        = Stored(Home(kind, p), Block(kind, p))
  BY <1>2 DEF Due, Owed, Stored, Home
<1>4. Passed'
  <2> SUFFICES ASSUME NEW kind \in Kinds, NEW p \in Packets, Due(kind, p)',
                      Stored(Home(kind, p), Block(kind, p))'
               PROVE  /\ Column(kind, row[p]) = Block(kind, p)
                      /\ kind = "send" => row[p].amount
    BY <1>2, Zenon DEF Passed
  <2> QED BY <1>3 DEF TableInv, Passed
<1> QED BY <1>4, SameTable DEF TableInv

-----------------------------------------------------------------------------
(* The range of blocks a job chooses *)

LEMMA RangeShape ==
  ASSUME LongerThanBatch, NEW c, NEW h \in Nat, NEW head \in Nat,
         head >= FirstHead, h + Cursor(c)!DelayBlock <= head
  PROVE  /\ Cursor(c)!RangeEnd(h, head) \in Nat
         /\ h <= Cursor(c)!RangeEnd(h, head)
         /\ Cursor(c)!RangeEnd(h, head) < head
         /\ Cursor(c)!UpdateHeight(h, head) = Cursor(c)!RangeEnd(h, head) + 1
BY CursorsOK DEF LongerThanBatch, Cursor!RangeEnd, Cursor!UpdateHeight, Cursor!FullBatch,
                 Cursor!Minus, Cursor!DelayBlock

LEMMA FirstHeightPositive ==
  ASSUME NEW c
  PROVE  Cursor(c)!FirstHeight \in Nat \ {0}
BY CursorsOK DEF Cursor!FirstHeight

LEMMA IdleIsJob == Idle \in Jobs /\ Down \in Jobs /\ Idle.stage = "idle" /\ Down.stage = "down"
<1>1. NoRows \in [Packets -> Rows]
  BY NoRowIsRow DEF NoRows
<1>2. <<>> \in Seq(Recs) /\ {} \in SUBSET Items
  OBVIOUS
<1>3. Idle.stage = "idle" /\ Down.stage = "down"
  BY DEF Idle, Down
<1>4. Idle \in Jobs
  BY <1>1, <1>2 DEF Idle, Jobs, Stages
<1>5. Down \in Jobs
  BY <1>4 DEF Down, Jobs, Stages
<1> QED BY <1>3, <1>4, <1>5

-----------------------------------------------------------------------------
(* The steps of a job *)

LEMMA ChooseRangeKeeps ==
  ASSUME LongerThanBatch, Inv, NEW c \in Chains, ChooseRange(c)
  PROVE  Inv'
<1> DEFINE head == Len(chain[c])
           end == Cursor(c)!RangeEnd(height[c], head)
           upd == Cursor(c)!UpdateHeight(height[c], head)
           new == [Idle EXCEPT !.stage = "fetching", !.from = height[c], !.to = end, !.next = upd]
<1>1. /\ At(c, "idle") /\ height[c] + Cursor(c)!DelayBlock <= head
      /\ job' = [job EXCEPT ![c] = new]
      /\ UNCHANGED <<chain, height, row, base, unread>>
  BY DEF ChooseRange, SetJob
<1>2. /\ Types /\ ChainsInv /\ JobInv(c) /\ CursorInv(c) /\ head \in Nat /\ height[c] \in Nat
      /\ head >= FirstHead /\ height[c] # 0
  BY <1>1 DEF Inv, JobInv, CursorInv, Types, At
<1>3. end \in Nat /\ height[c] <= end /\ end < head /\ upd = end + 1
  BY <1>1, <1>2, RangeShape
<1>4. /\ new.stage = "fetching" /\ new.from = height[c] /\ new.to = end /\ new.next = upd
      /\ new.todo = {} /\ new.batch = <<>> /\ new \in Jobs
  <2>1. upd \in Nat
    BY <1>3
  <2>2. new \in Jobs
    <3> HIDE DEF end, upd
    <3> QED BY <1>2, <1>3, <2>1, IdleIsJob DEF Jobs, Stages
  <2> HIDE DEF end, upd
  <2> QED BY <2>2 DEF Idle
<1> HIDE DEF new, end, upd
<1>5. job'[c] = new /\ \A d \in Chains \ {c} : job'[d] = job[d]
  BY <1>1, <1>2 DEF Types
<1>6. Types'
  BY <1>1, <1>2, <1>4 DEF Types
<1>7. JobInv(c)'
  <2>1. CursorInv(c)'
    BY <1>1, <1>2, <1>3, <1>4, <1>5 DEF CursorInv, At
  <2>2. TodoInv(c)' /\ ReadInv(c)'
    BY <1>4, <1>5 DEF TodoInv, ReadInv
  <2>3. BatchInv(c)'
    <3>1. 1 .. Len(job'[c].batch) = {}
      BY <1>4, <1>5
    <3> QED BY <3>1, Zenon DEF BatchInv
  <2> QED BY <2>1, <2>2, <2>3 DEF JobInv
<1>8. \A d \in Chains : JobInv(d)'
  BY <1>1, <1>2, <1>5, <1>6, <1>7, OthersStay DEF Inv
<1>9. TableInv'
  BY <1>1, TableStays DEF Inv, TableInv
<1> QED BY <1>6, <1>8, <1>9 DEF Inv, TableInv

(* The job of c gives up: a panic, a refused INSERT, a failed call. *)
LEMMA GiveUpKeeps ==
  ASSUME Inv, NEW c \in Chains, Working(c), SetJob(c, Idle),
         UNCHANGED <<chain, height, row, base, unread>>
  PROVE  Inv'
<1>1. Types /\ ChainsInv /\ CursorInv(c)
  BY DEF Inv, JobInv
<1>2. job'[c] = Idle /\ \A d \in Chains \ {c} : job'[d] = job[d]
  BY <1>1 DEF SetJob, Types
<1>3. Types'
  BY <1>1, IdleIsJob DEF Types, SetJob
<1>4. CursorInv(c)'
  BY <1>1, <1>2, IdleIsJob DEF CursorInv, At, Working
<1>5. JobInv(c)'
  BY <1>2, <1>4, NoWork DEF JobInv
<1>6. \A d \in Chains : JobInv(d)'
  BY <1>1, <1>2, <1>3, <1>5, OthersStay DEF Inv
<1>7. TableInv'
  BY TableStays DEF Inv, TableInv
<1> QED BY <1>3, <1>6, <1>7 DEF Inv, TableInv

(* GetPackets returns the events of the range, and all that are due.          *)
LEMMA PacketsOfRange ==
  ASSUME Types, ChainsInv, NEW c \in Chains, NEW a \in Nat \ {0}, NEW b \in Nat,
         b <= Len(chain[c])
  PROVE  /\ \A x \in GetPackets(c, a, b) :
              /\ x \in Items
              /\ Home(x.event.kind, x.event.pkt) = c
              /\ x.height = Block(x.event.kind, x.event.pkt) /\ x.height \in a .. b
              /\ x.event.kind = "ack" => x.event.code = AckCode(x.event.pkt)
              /\ x.event.kind = "receivedAck" => AckCode(x.event.pkt) = Fail
         /\ \A kind \in Kinds, p \in Packets :
              Home(kind, p) = c /\ Block(kind, p) \in a .. b /\ Owed(kind, p) =>
                \E x \in GetPackets(c, a, b) : IsEvent(x.event, kind, p)
<1>1. Len(chain[c]) \in Nat /\ DOMAIN chain[c] = 1 .. Len(chain[c])
  BY DEF Types
<1>2. ASSUME NEW h \in a .. b, NEW kind \in Kinds, chain[c][h].kind = kind
      PROVE  /\ chain[c][h] \in Events
             /\ c = Home(kind, chain[c][h].pkt) /\ h = Block(kind, chain[c][h].pkt)
  <2>1. h \in DOMAIN chain[c]
    BY <1>1
  <2>2. chain[c][h] \in Events \cup {Empty}
    BY <2>1 DEF Types
  <2>3. chain[c][h] \in Events
    BY <1>2, <2>2 DEF Empty, Kinds
  <2>4. chain[c][h].pkt \in Packets
    BY <2>3, SMTT(60) DEF Events
  <2> QED BY <1>2, <2>1, <2>3, <2>4 DEF ChainsInv, IsEvent, Block
<1>3. ASSUME NEW x \in GetPackets(c, a, b)
      PROVE  /\ x \in Items
             /\ Home(x.event.kind, x.event.pkt) = c
             /\ x.height = Block(x.event.kind, x.event.pkt) /\ x.height \in a .. b
             /\ x.event.kind = "ack" => x.event.code = AckCode(x.event.pkt)
             /\ x.event.kind = "receivedAck" => AckCode(x.event.pkt) = Fail
  <2>1. PICK kind \in Kinds :
          x \in EventsIn(c, a, b, kind) /\ (kind = "receivedAck" => x.event.code = Fail)
    BY DEF GetPackets, GetSends, GetAckPackets, GetReceivedAcks, Kinds
  <2>2. PICK h \in a .. b : chain[c][h].kind = kind /\ x = [event |-> chain[c][h], height |-> h]
    BY <2>1 DEF EventsIn
  <2>3. /\ chain[c][h] \in Events /\ c = Home(kind, x.event.pkt) /\ h = Block(kind, x.event.pkt)
        /\ x.event = chain[c][h] /\ x.height = h /\ x.event.kind = kind
    BY <1>2, <2>2
  <2>4. x \in Items
    <3>1. h \in Nat
      BY SMTT(60)
    <3> QED BY <2>2, <2>3, <3>1, Zenon DEF Items
  <2>5. kind = "ack" => x.event.code = AckCode(x.event.pkt)
    BY <2>3, BlockNames, ZenonT(60) DEF AckCode, Home
  <2>6. kind = "receivedAck" => AckCode(x.event.pkt) = Fail
    <3> SUFFICES ASSUME kind = "receivedAck" PROVE AckCode(x.event.pkt) = Fail
      BY SMTT(60)
    <3>1. x.event.pkt \in Packets
      BY <2>3, ZenonT(60) DEF Events
    <3>2. ReceivedAckBlock(x.event.pkt) = h /\ h # 0 /\ Src[x.event.pkt] = c
      <4>1. Block("receivedAck", x.event.pkt) = ReceivedAckBlock(x.event.pkt)
        BY BlockNames
      <4>2. h # 0
        OBVIOUS
      <4> QED BY <2>3, <4>1, <4>2 DEF Home
    <3>3. chain[c][h].code = AckCode(x.event.pkt)
      BY <3>1, <3>2 DEF ChainsInv
    <3> QED BY <2>1, <2>3, <3>3
  <2> QED BY <2>3, <2>4, <2>5, <2>6
<1>4. ASSUME NEW kind \in Kinds, NEW p \in Packets,
             Home(kind, p) = c, Block(kind, p) \in a .. b, Owed(kind, p)
      PROVE  \E x \in GetPackets(c, a, b) : IsEvent(x.event, kind, p)
  <2> DEFINE h == Block(kind, p)
             x == [event |-> chain[c][h], height |-> h]
  <2>1. IsEvent(chain[c][h], kind, p)
    BY <1>4, BlockOfShape DEF Block
  <2>2. x \in EventsIn(c, a, b, kind)
    BY <1>4, <2>1 DEF EventsIn, IsEvent
  <2>3. kind = "receivedAck" => x.event.code = Fail
    <3> SUFFICES ASSUME kind = "receivedAck" PROVE chain[c][h].code = Fail
      OBVIOUS
    <3>1. ReceivedAckBlock(p) = h /\ ReceivedAckBlock(p) # 0 /\ Src[p] = c
      BY <1>4, BlockNames DEF Home
    <3>2. AckCode(p) = Fail
      BY <1>4 DEF Owed
    <3> QED BY <3>1, <3>2 DEF ChainsInv
  <2>4. x \in GetPackets(c, a, b)
    BY <2>2, <2>3 DEF GetPackets, GetSends, GetAckPackets, GetReceivedAcks, Kinds
  <2> QED BY <2>1, <2>4
<1> QED BY <1>3, <1>4

LEMMA FetchKeeps ==
  ASSUME Inv, NEW c \in Chains, Fetch(c)
  PROVE  Inv'
<1> DEFINE range == job[c].from .. job[c].to
           all == GetPackets(c, job[c].from, job[c].to)
<1>0. PICK skipped \in SUBSET MayGoUnread(c, all) :
        /\ SetJob(c, [job[c] EXCEPT !.stage = "reading",
                                    !.todo = {x \in all : x.height \notin skipped}])
        /\ unread' = [unread EXCEPT ![c] = (@ \ range) \cup skipped]
  BY Zenon DEF Fetch
<1> DEFINE packets == {x \in all : x.height \notin skipped}
           new == [job[c] EXCEPT !.stage = "reading", !.todo = packets]
<1>1. /\ At(c, "fetching") /\ job' = [job EXCEPT ![c] = new]
      /\ UNCHANGED <<chain, height, row, base>>
  BY <1>0 DEF Fetch, SetJob
<1>2. /\ Types /\ ChainsInv /\ JobInv(c) /\ CursorInv(c)
      /\ job[c] \in Jobs
  BY DEF Inv, JobInv, Types
<1>3. /\ job[c].from \in Nat \ {0} /\ job[c].to \in Nat /\ Len(chain[c]) \in Nat
      /\ job[c].to < Len(chain[c])
  BY <1>1, <1>2 DEF CursorInv, Types, Jobs, At
<1>a. /\ \A x \in all :
           /\ x \in Items
           /\ Home(x.event.kind, x.event.pkt) = c
           /\ x.height = Block(x.event.kind, x.event.pkt) /\ x.height \in range
           /\ x.event.kind = "ack" => x.event.code = AckCode(x.event.pkt)
           /\ x.event.kind = "receivedAck" => AckCode(x.event.pkt) = Fail
      /\ \A kind \in Kinds, p \in Packets :
           InRange(c, kind, p) /\ Owed(kind, p) => \E x \in all : IsEvent(x.event, kind, p)
  BY <1>2, <1>3, PacketsOfRange DEF InRange
<1>b. skipped \subseteq {x.height : x \in all} /\ skipped \subseteq range
  <2>1. skipped \subseteq {x.height : x \in all}
    BY <1>0 DEF MayGoUnread
  <2> QED BY <1>a, <2>1
<1>c. /\ unread' \in [Chains -> SUBSET Nat]
      /\ unread'[c] = (unread[c] \ range) \cup skipped
      /\ \A d \in Chains \ {c} : unread'[d] = unread[d]
  <2>1. range \subseteq Nat
    BY <1>3
  <2> HIDE DEF range, all
  <2> QED BY <1>0, <1>2, <1>b, <2>1 DEF Types
<1>4. /\ \A x \in packets :
           /\ x \in Items
           /\ Home(x.event.kind, x.event.pkt) = c
           /\ x.height = Block(x.event.kind, x.event.pkt) /\ x.height \in range
           /\ x.event.kind = "ack" => x.event.code = AckCode(x.event.pkt)
           /\ x.event.kind = "receivedAck" => AckCode(x.event.pkt) = Fail
      /\ \A kind \in Kinds, p \in Packets :
           InRange(c, kind, p) /\ Owed(kind, p) /\ Block(kind, p) \notin skipped
             => \E x \in packets : IsEvent(x.event, kind, p)
  <2> HIDE DEF all, range
  <2>1. \A x \in packets : x \in all /\ x.height \notin skipped
    OBVIOUS
  <2>2. ASSUME NEW kind \in Kinds, NEW p \in Packets, InRange(c, kind, p), Owed(kind, p),
               Block(kind, p) \notin skipped
        PROVE  \E x \in packets : IsEvent(x.event, kind, p)
    <3>1. PICK x \in all : IsEvent(x.event, kind, p)
      BY <1>a, <2>2
    <3>2. x.height = Block(kind, p)
      BY <1>a, <3>1 DEF IsEvent
    <3> QED BY <2>2, <3>1, <3>2
  <2> HIDE DEF packets
  <2> QED BY <1>a, <2>1, <2>2
<1> HIDE DEF packets, all, range
<1>5. /\ new.stage = "reading" /\ new.from = job[c].from /\ new.to = job[c].to
      /\ new.next = job[c].next /\ new.todo = packets /\ new.batch = job[c].batch
      /\ new \in Jobs
  BY <1>2, <1>4 DEF Jobs, Stages
<1> HIDE DEF new
<1>6. job'[c] = new /\ \A d \in Chains \ {c} : job'[d] = job[d]
  BY <1>1, <1>2 DEF Types
<1>7. Types'
  BY <1>1, <1>2, <1>5, <1>c DEF Types
<1>8. \A k, p : /\ Block(k, p)' = Block(k, p) /\ AckCode(p)' = AckCode(p)
                /\ ReceivedAckBlock(p)' = ReceivedAckBlock(p)
                /\ InRange(c, k, p)' = InRange(c, k, p)
  BY <1>1, <1>5, <1>6 DEF Block, BlockOf, AckCode, AckBlock, ReceivedAckBlock, Home, InRange
<1>9. JobInv(c)'
  <2>1. CursorInv(c)'
    BY <1>1, <1>2, <1>5, <1>6 DEF CursorInv, At
  <2>2. TodoInv(c)'
    <3>1. \A x \in packets : x.event.kind \in Kinds /\ x.event.pkt \in Packets
      BY <1>4 DEF Items, Events
    <3>2. \A x \in packets : InRange(c, x.event.kind, x.event.pkt)
      BY <1>4 DEF InRange, range
    <3>3. job'[c].stage = "reading" /\ job'[c].todo = packets
      BY <1>5, <1>6
    <3> QED BY <1>4, <1>8, <3>1, <3>2, <3>3 DEF TodoInv
  <2>3. BatchInv(c)'
    BY <1>2, <1>5, <1>6, <1>8 DEF JobInv, BatchInv, RecordOf, Column
  <2>4. ReadInv(c)'
    <3> SUFFICES ASSUME NEW kind \in Kinds, NEW p \in Packets, InRange(c, kind, p)', Due(kind, p)'
                 PROVE  InTodo(c, kind, p)'
      BY Zenon DEF ReadInv
    <3>1. InRange(c, kind, p) /\ Home(kind, p)' = c /\ Block(kind, p) \notin unread'[c]
      <4>1. InRange(c, kind, p) /\ Home(kind, p)' = c
        BY <1>8 DEF InRange, Home
      <4> QED BY <1>8, <4>1 DEF Due
    <3>2. Owed(kind, p) /\ Block(kind, p) \notin skipped
      BY <1>8, <1>c, <3>1 DEF Due, Owed
    <3> QED BY <1>4, <1>5, <1>6, <3>1, <3>2 DEF InTodo
  <2> QED BY <2>1, <2>2, <2>3, <2>4 DEF JobInv
<1>10. \A d \in Chains : JobInv(d)'
  BY <1>1, <1>2, <1>6, <1>7, <1>9, <1>c, OthersStay DEF Inv
<1>11. Passed'
  <2> SUFFICES ASSUME NEW kind \in Kinds, NEW p \in Packets, Due(kind, p)',
                      Stored(Home(kind, p), Block(kind, p))'
               PROVE  /\ Column(kind, row[p]) = Block(kind, p)
                      /\ kind = "send" => row[p].amount
    BY <1>1, <1>8, Zenon DEF Passed, Column
  <2> DEFINE h == Home(kind, p)
  <2>1. /\ Stored(h, Block(kind, p)) /\ Owed(kind, p) /\ Block(kind, p) \notin unread'[h]
        /\ h \in Chains /\ Block(kind, p) \in Nat
    BY <1>1, <1>2, <1>8, HomeChains, BlockInChain DEF Stored, Due, Owed, Home
  <2>2. Block(kind, p) \notin unread[h]
    <3>1. CASE h = c
      <4>1. Block(kind, p) < job[c].from
        BY <1>1, <1>2, <2>1, <3>1 DEF Stored, CursorInv, At
      <4> QED BY <1>3, <1>c, <2>1, <3>1, <4>1 DEF range
    <3>2. CASE h # c
      BY <1>c, <2>1, <3>2
    <3> QED BY <3>1, <3>2
  <2> QED BY <2>1, <2>2 DEF Inv, Passed, Due
<1>12. ChainsInv' /\ RowsInv' /\ BehindCursors'
  BY <1>1, SameTable DEF Inv
<1> QED BY <1>7, <1>10, <1>11, <1>12 DEF Inv

(* The records the code builds, for any types of the columns. *)
LEMMA RecordColumns ==
  ASSUME NEW B, NEW S, NEW N, NEW t \in B, NEW a \in B, NEW s \in S, NEW b \in N,
         NEW n \in [token : B, amount : B, status : S,
                    srcHeight : N, destHeight : N, refundHeight : N]
  PROVE  LET rows == [token : B, amount : B, status : S,
                      srcHeight : N, destHeight : N, refundHeight : N]
             send == [n EXCEPT !.token = t, !.amount = a, !.status = s, !.srcHeight = b]
             ack == [n EXCEPT !.token = t, !.status = s, !.destHeight = b]
             refund == [n EXCEPT !.status = s, !.refundHeight = b]
         IN  /\ send \in rows /\ ack \in rows /\ refund \in rows
             /\ send.amount = a /\ send.status = s /\ send.srcHeight = b
             /\ send.destHeight = n.destHeight /\ send.refundHeight = n.refundHeight
             /\ ack.status = s /\ ack.srcHeight = n.srcHeight
             /\ ack.destHeight = b /\ ack.refundHeight = n.refundHeight
             /\ refund.status = s /\ refund.srcHeight = n.srcHeight
             /\ refund.destHeight = n.destHeight /\ refund.refundHeight = b
OBVIOUS

LEMMA RecordShape ==
  ASSUME NEW r \in Rows, NEW e \in Events, NEW b \in Nat \ {0},
         e.kind = "ack" => e.code \in {Success, Fail}
  PROVE  LET rec == Record(r, e, b)
         IN  /\ rec \in Recs /\ rec.pkt = e.pkt
             /\ Column(e.kind, rec.cols) = b
             /\ \A other \in Kinds \ {e.kind} : Column(other, rec.cols) = 0
             /\ rec.cols.status = IF e.kind = "send" THEN Pending
                                  ELSE IF e.kind = "ack" THEN e.code ELSE Refund
             /\ e.kind = "send" => rec.cols.amount \/ r.amount
<1> DEFINE rec == Record(r, e, b)
<1>1. /\ rec.pkt = e.pkt /\ e.pkt \in Packets /\ e.kind \in Kinds
  BY Zenon DEF Record, Events
<1>2. /\ NoRow \in [token : BOOLEAN, amount : BOOLEAN, status : 0 .. Refund,
                    srcHeight : Nat, destHeight : Nat, refundHeight : Nat]
      /\ NoRow.srcHeight = 0 /\ NoRow.destHeight = 0 /\ NoRow.refundHeight = 0
      /\ (~r.token) \in BOOLEAN /\ (~r.amount) \in BOOLEAN
      /\ Pending \in 0 .. Refund /\ Refund \in 0 .. Refund /\ b \in Nat
      /\ e.kind = "ack" => e.code \in 0 .. Refund
  <2>1. NoRow.srcHeight = 0 /\ NoRow.destHeight = 0 /\ NoRow.refundHeight = 0
    BY DEF NoRow
  <2>2. Pending \in 0 .. Refund /\ Refund \in 0 .. Refund /\ b \in Nat
        /\ (e.kind = "ack" => e.code \in 0 .. Refund)
    BY Codes
  <2>3. (~r.token) \in BOOLEAN /\ (~r.amount) \in BOOLEAN
    BY SMT
  <2> QED BY <2>1, <2>2, <2>3, NoRowIsRow, Zenon DEF Rows
<1>3. /\ SendRecord(r, b) \in Rows /\ SendRecord(r, b).amount = ~r.amount
      /\ SendRecord(r, b).status = Pending /\ SendRecord(r, b).srcHeight = b
      /\ SendRecord(r, b).destHeight = 0 /\ SendRecord(r, b).refundHeight = 0
  BY <1>2, RecordColumns, Zenon DEF SendRecord, Rows
<1>4. e.kind = "ack" =>
      /\ AckRecord(r, e, b) \in Rows /\ AckRecord(r, e, b).status = e.code
      /\ AckRecord(r, e, b).srcHeight = 0 /\ AckRecord(r, e, b).destHeight = b
      /\ AckRecord(r, e, b).refundHeight = 0
  BY <1>2, RecordColumns, Zenon DEF AckRecord, Rows
<1>5. /\ RefundRecord(b) \in Rows /\ RefundRecord(b).status = Refund
      /\ RefundRecord(b).srcHeight = 0 /\ RefundRecord(b).destHeight = 0
      /\ RefundRecord(b).refundHeight = b
  BY <1>2, RecordColumns, Zenon DEF RefundRecord, Rows
<1>6. /\ e.kind = "send" => rec = [pkt |-> e.pkt, cols |-> SendRecord(r, b)]
      /\ e.kind = "ack" => rec = [pkt |-> e.pkt, cols |-> AckRecord(r, e, b)]
      /\ e.kind = "receivedAck" => rec = [pkt |-> e.pkt, cols |-> RefundRecord(b)]
  BY Zenon DEF Record
<1>7. e.kind = "send" => rec.cols = SendRecord(r, b)
  BY <1>6
<1>8. e.kind = "send" => rec.cols.amount \/ r.amount
  <2> HIDE DEF rec
  <2> QED BY <1>3, <1>7, Zenon
<1> HIDE DEF rec
<1>9. /\ rec.cols \in Rows /\ Found(rec.cols) /\ rec = [pkt |-> e.pkt, cols |-> rec.cols]
      /\ rec.cols.status = IF e.kind = "send" THEN Pending
                           ELSE IF e.kind = "ack" THEN e.code ELSE Refund
      /\ Column(e.kind, rec.cols) = b
      /\ \A other \in Kinds \ {e.kind} : Column(other, rec.cols) = 0
  <2>1. CASE e.kind = "send"
    BY <1>3, <1>6, <2>1, Codes DEF Found, Column, Kinds
  <2>2. CASE e.kind = "ack"
    BY <1>4, <1>6, <2>2, Codes DEF Found, Column, Kinds
  <2>3. CASE e.kind = "receivedAck"
    BY <1>5, <1>6, <2>3, Codes DEF Found, Column, Kinds
  <2> QED BY <1>1, <2>1, <2>2, <2>3 DEF Kinds
<1>10. rec \in Recs
  BY <1>1, <1>9, Zenon DEF Recs
<1> QED BY <1>1, <1>8, <1>9, <1>10 DEF rec

LEMMA ReadRowKeeps ==
  ASSUME Inv, NEW c \in Chains, ReadRow(c)
  PROVE  Inv'
<1>1. PICK x \in job[c].todo :
        SetJob(c, [job[c] EXCEPT
          !.todo = @ \ {x},
          !.batch = IF Keeps(c, x.event)
                    THEN Append(@, Record(row[x.event.pkt], x.event, x.height))
                    ELSE @])
  BY DEF ReadRow
<1> DEFINE rec == Record(row[x.event.pkt], x.event, x.height)
           old == job[c].batch
           batch == IF Keeps(c, x.event) THEN Append(old, rec) ELSE old
           new == [job[c] EXCEPT !.todo = job[c].todo \ {x}, !.batch = batch]
<1>2. /\ At(c, "reading") /\ job' = [job EXCEPT ![c] = new]
      /\ UNCHANGED <<chain, height, row, base, unread>>
  BY <1>1 DEF ReadRow, SetJob
<1>3. /\ Types /\ ChainsInv /\ JobInv(c) /\ CursorInv(c)
      /\ job[c] \in Jobs /\ old \in Seq(Recs)
  BY DEF Inv, JobInv, Types, Jobs
<1>4. x \in Items /\ x.event \in Events /\ x.event.pkt \in Packets /\ x.event.kind \in Kinds
  BY <1>3 DEF Jobs, Items, Events
<1>5. /\ InRange(c, x.event.kind, x.event.pkt)
      /\ x.height = Block(x.event.kind, x.event.pkt) /\ x.height \in Nat \ {0}
      /\ x.event.kind = "ack" => x.event.code = AckCode(x.event.pkt)
      /\ x.event.kind = "receivedAck" => AckCode(x.event.pkt) = Fail
  <2>1. job[c].from \in Nat \ {0} /\ job[c].to \in Nat
    BY <1>2, <1>3 DEF CursorInv, Types, Jobs, At
  <2> QED BY <1>3, <2>1 DEF JobInv, TodoInv, InRange
<1>6. x.event.kind = "ack" => x.event.code \in {Success, Fail}
  BY <1>3, <1>4, <1>5, BlockNames DEF ChainsInv
<1>7. /\ rec \in Recs /\ rec.pkt = x.event.pkt
      /\ RecordOf(rec, x.event.kind)
      /\ x.event.kind = "send" => rec.cols.amount \/ row[x.event.pkt].amount
  <2>1. row[x.event.pkt] \in Rows
    BY <1>3, <1>4 DEF Types
  <2>2. /\ rec \in Recs /\ rec.pkt = x.event.pkt
        /\ Column(x.event.kind, rec.cols) = x.height
        /\ \A other \in Kinds \ {x.event.kind} : Column(other, rec.cols) = 0
        /\ rec.cols.status = IF x.event.kind = "send" THEN Pending
                             ELSE IF x.event.kind = "ack" THEN x.event.code ELSE Refund
        /\ x.event.kind = "send" => rec.cols.amount \/ row[x.event.pkt].amount
    BY <1>4, <1>5, <1>6, <2>1, RecordShape, Zenon
  <2> HIDE DEF rec
  <2>3. RecordOf(rec, x.event.kind)
    BY <1>5, <2>2, SMT DEF RecordOf
  <2> QED BY <2>2, <2>3
<1> HIDE DEF rec
<1>8. /\ batch \in Seq(Recs)
      /\ Keeps(c, x.event) => /\ Len(batch) = Len(old) + 1 /\ batch[Len(old) + 1] = rec
                              /\ \A i \in 1 .. Len(old) : batch[i] = old[i]
      /\ ~Keeps(c, x.event) => batch = old
  BY <1>3, <1>7
<1> HIDE DEF batch, old
<1>9. /\ new.stage = job[c].stage /\ new.from = job[c].from /\ new.to = job[c].to
      /\ new.next = job[c].next /\ new.todo = job[c].todo \ {x} /\ new.batch = batch
      /\ new \in Jobs
  BY <1>3, <1>8 DEF Jobs
<1> HIDE DEF new
<1>10. job'[c] = new /\ \A d \in Chains \ {c} : job'[d] = job[d]
  BY <1>2, <1>3 DEF Types
<1>11. Types'
  BY <1>2, <1>3, <1>9 DEF Types
<1>12. \A k, p : /\ Block(k, p)' = Block(k, p) /\ AckCode(p)' = AckCode(p)
                 /\ ReceivedAckBlock(p)' = ReceivedAckBlock(p)
                 /\ InRange(c, k, p)' = InRange(c, k, p)
  BY <1>2, <1>9, <1>10 DEF Block, BlockOf, AckCode, AckBlock, ReceivedAckBlock, Home, InRange
<1>13. Len(old) \in Nat
  BY <1>3
<1>14. JobInv(c)'
  <2>1. CursorInv(c)'
    BY <1>2, <1>3, <1>9, <1>10 DEF CursorInv, At
  <2>2. TodoInv(c)'
    <3>1. \A y \in job[c].todo \ {x} :
             /\ y.event.kind \in Kinds /\ y.event.pkt \in Packets
             /\ InRange(c, y.event.kind, y.event.pkt)
             /\ y.height = Block(y.event.kind, y.event.pkt)
             /\ y.event.kind = "ack" => y.event.code = AckCode(y.event.pkt)
             /\ y.event.kind = "receivedAck" => AckCode(y.event.pkt) = Fail
      BY <1>3 DEF JobInv, TodoInv
    <3>2. job'[c].stage = "reading" /\ job'[c].todo = job[c].todo \ {x}
      BY <1>2, <1>9, <1>10 DEF At
    <3> QED BY <1>12, <3>1, <3>2 DEF TodoInv
  <2>3. BatchInv(c)'
    <3>1. \A r, kind : RecordOf(r, kind)' <=> RecordOf(r, kind)
      BY <1>12 DEF RecordOf, Column
    <3>2. \A i \in 1 .. Len(old) : \E kind \in Kinds :
            InRange(c, kind, old[i].pkt) /\ RecordOf(old[i], kind)
      BY <1>3 DEF JobInv, BatchInv, old
    <3>3. \A i \in 1 .. Len(batch) : \E kind \in Kinds :
            InRange(c, kind, batch[i].pkt) /\ RecordOf(batch[i], kind)
      <4> SUFFICES ASSUME NEW i \in 1 .. Len(batch)
                   PROVE  \E kind \in Kinds : InRange(c, kind, batch[i].pkt)
                                              /\ RecordOf(batch[i], kind)
        OBVIOUS
      <4>1. CASE i \in 1 .. Len(old) /\ batch[i] = old[i]
        BY <3>2, <4>1
      <4>2. CASE batch[i] = rec
        BY <1>4, <1>5, <1>7, <4>2
      <4> QED BY <1>8, <1>13, <4>1, <4>2
    <3> QED BY <1>9, <1>10, <1>12, <3>1, <3>3 DEF BatchInv
  <2>4. ReadInv(c)'
    <3> SUFFICES ASSUME NEW kind \in Kinds, NEW p \in Packets, InRange(c, kind, p)', Due(kind, p)'
                 PROVE  InTodo(c, kind, p)' \/ InBatch(c, kind, p)'
      BY Zenon DEF ReadInv
    <3>1. InRange(c, kind, p) /\ Due(kind, p)
      BY <1>2, <1>12 DEF Due, Owed, Home
    <3>2. InTodo(c, kind, p) \/ InBatch(c, kind, p)
      BY <1>2, <1>3, <3>1 DEF JobInv, ReadInv, At
    <3>3. CASE InBatch(c, kind, p)
      <4>1. PICK i \in 1 .. Len(old) :
              /\ old[i].pkt = p /\ Column(kind, old[i].cols) = Block(kind, p)
              /\ kind = "send" => old[i].cols.amount \/ row[p].amount
        BY <3>3 DEF InBatch, old
      <4>2. i \in 1 .. Len(batch) /\ batch[i] = old[i]
        BY <1>8, <1>13
      <4> QED BY <1>2, <1>9, <1>10, <1>12, <4>1, <4>2 DEF InBatch, Column
    <3>4. CASE InTodo(c, kind, p)
      <4>1. PICK y \in job[c].todo : IsEvent(y.event, kind, p)
        BY <3>4 DEF InTodo
      <4>2. CASE y # x
        BY <1>9, <1>10, <4>1, <4>2 DEF InTodo
      <4>3. CASE y = x
        <5>1. x.event.kind = kind /\ x.event.pkt = p
          BY <4>1, <4>3 DEF IsEvent
        <5>2. Keeps(c, x.event)
          <6>1. kind = "ack" => p \in Listed /\ c \in Teleport
            BY <3>1 DEF Due, Owed, InRange, Home
          <6> QED BY <3>1, <5>1, <6>1 DEF Keeps, KnowsToken, Due, Owed, Kinds
        <5>3. Len(old) + 1 \in 1 .. Len(batch) /\ batch[Len(old) + 1] = rec
          BY <1>8, <1>13, <5>2
        <5>4. /\ rec.pkt = p /\ Column(kind, rec.cols) = Block(kind, p)
              /\ kind = "send" => rec.cols.amount \/ row[p].amount
          BY <1>7, <5>1 DEF RecordOf
        <5> QED BY <1>2, <1>9, <1>10, <1>12, <5>3, <5>4 DEF InBatch, Column
      <4> QED BY <4>2, <4>3
    <3> QED BY <3>2, <3>3, <3>4
  <2> QED BY <2>1, <2>2, <2>3, <2>4 DEF JobInv
<1>15. \A d \in Chains : JobInv(d)'
  BY <1>2, <1>3, <1>10, <1>11, <1>14, OthersStay DEF Inv
<1>16. TableInv'
  BY <1>2, TableStays DEF Inv, TableInv
<1> QED BY <1>11, <1>15, <1>16 DEF Inv, TableInv

LEMMA BeginTxKeeps ==
  ASSUME Inv, NEW c \in Chains, BeginTx(c)
  PROVE  Inv'
<1> DEFINE new == [job[c] EXCEPT !.stage = "storing", !.snapshot = row]
<1>1. /\ At(c, "reading") /\ job[c].todo = {} /\ job' = [job EXCEPT ![c] = new]
      /\ UNCHANGED <<chain, height, row, base, unread>>
  BY DEF BeginTx, SetJob
<1>2. Types /\ ChainsInv /\ JobInv(c) /\ CursorInv(c) /\ job[c] \in Jobs /\ row \in [Packets -> Rows]
  BY DEF Inv, JobInv, Types
<1>3. /\ new.stage = "storing" /\ new.from = job[c].from /\ new.to = job[c].to
      /\ new.next = job[c].next /\ new.todo = {} /\ new.batch = job[c].batch
      /\ new \in Jobs
  BY <1>1, <1>2 DEF Jobs, Stages
<1> HIDE DEF new
<1>4. job'[c] = new /\ \A d \in Chains \ {c} : job'[d] = job[d]
  BY <1>1, <1>2 DEF Types
<1>5. Types'
  BY <1>1, <1>2, <1>3 DEF Types
<1>6. \A k, p : /\ Block(k, p)' = Block(k, p) /\ AckCode(p)' = AckCode(p)
                /\ ReceivedAckBlock(p)' = ReceivedAckBlock(p)
                /\ InRange(c, k, p)' = InRange(c, k, p)
  BY <1>1, <1>3, <1>4 DEF Block, BlockOf, AckCode, AckBlock, ReceivedAckBlock, Home, InRange
<1>7. JobInv(c)'
  <2>1. CursorInv(c)'
    BY <1>1, <1>2, <1>3, <1>4 DEF CursorInv, At
  <2>2. TodoInv(c)'
    BY <1>3, <1>4 DEF TodoInv
  <2>3. BatchInv(c)'
    BY <1>2, <1>3, <1>4, <1>6 DEF JobInv, BatchInv, RecordOf, Column
  <2>4. ReadInv(c)'
    <3> SUFFICES ASSUME NEW kind \in Kinds, NEW p \in Packets, InRange(c, kind, p)', Due(kind, p)'
                 PROVE  InBatch(c, kind, p)'
      BY Zenon DEF ReadInv
    <3>1. InRange(c, kind, p) /\ Due(kind, p)
      BY <1>1, <1>6 DEF Due, Owed, Home
    <3>2. InBatch(c, kind, p)
      BY <1>1, <1>2, <3>1 DEF JobInv, ReadInv, At, InTodo
    <3> QED BY <1>1, <1>3, <1>4, <1>6, <3>2 DEF InBatch, Column
  <2> QED BY <2>1, <2>2, <2>3, <2>4 DEF JobInv
<1>8. \A d \in Chains : JobInv(d)'
  BY <1>1, <1>2, <1>4, <1>5, <1>7, OthersStay DEF Inv
<1>9. TableInv'
  BY <1>1, TableStays DEF Inv, TableInv
<1> QED BY <1>5, <1>8, <1>9 DEF Inv, TableInv

(* What a commit of c's job does to the table. *)
LEMMA CommitColumns ==
  ASSUME Inv, NEW c \in Chains, Commit(c)
  PROVE  /\ row' \in [Packets -> Rows] /\ NoEmptyRows(row')
         /\ Complete(job[c].batch, Len(job[c].batch), row')
         /\ \A p \in Packets :
              /\ row[p].amount => row'[p].amount
              /\ Found(row[p]) => Found(row'[p])
              /\ \A kind \in Kinds :
                   /\ Column(kind, row[p]) # 0 => Column(kind, row'[p]) = Column(kind, row[p])
                   /\ \/ Column(kind, row'[p]) = Column(kind, row[p])
                      \/ /\ InRange(c, kind, p) /\ Column(kind, row'[p]) = Block(kind, p)
                         /\ kind = "receivedAck" => AckCode(p) = Fail
<1> DEFINE batch == job[c].batch
           tx == Transaction(job[c].snapshot, batch)
<1>1. /\ Types /\ RowsInv /\ BatchInv(c) /\ NoEmptyRows(row)
      /\ job[c].snapshot \in [Packets -> Rows] /\ batch \in Seq(Recs)
  BY DEF Inv, JobInv, RowsInv, Types, Jobs
<1>2. ~tx.duplicate /\ row' = tx.table
  BY DEF Commit
<1>3. /\ tx \in TxStates /\ Applied(batch, Len(batch), tx.table)
      /\ tx.duplicate \/ Complete(batch, Len(batch), tx.table)
  BY <1>1, TransactionApplies
<1>4. ASSUME NEW i \in 1 .. Len(batch), NEW kind \in Kinds, Column(kind, batch[i].cols) # 0
      PROVE  /\ InRange(c, kind, batch[i].pkt)
             /\ Column(kind, batch[i].cols) = Block(kind, batch[i].pkt)
             /\ kind = "receivedAck" => AckCode(batch[i].pkt) = Fail
  BY <1>1, <1>4 DEF BatchInv, RecordOf
<1> HIDE DEF tx, batch
<1>5. row' \in [Packets -> Rows]
  BY <1>2, <1>3 DEF TxStates
<1>6. Complete(batch, Len(batch), row')
  BY <1>2, <1>3
<1>7. ASSUME NEW p \in Packets, NEW kind \in Kinds
      PROVE  /\ Column(kind, row[p]) # 0 => Column(kind, row'[p]) = Column(kind, row[p])
             /\ \/ Column(kind, row'[p]) = Column(kind, row[p])
                \/ /\ InRange(c, kind, p) /\ Column(kind, row'[p]) = Block(kind, p)
                   /\ kind = "receivedAck" => AckCode(p) = Fail
  <2>1. \/ Column(kind, row'[p]) = Column(kind, row[p])
        \/ \E i \in 1 .. Len(batch) :
             /\ batch[i].pkt = p
             /\ Column(kind, batch[i].cols) # 0
             /\ Column(kind, row'[p]) = Column(kind, batch[i].cols)
    BY <1>2, <1>3 DEF Applied
  <2>2. \/ Column(kind, row'[p]) = Column(kind, row[p])
        \/ /\ InRange(c, kind, p) /\ Column(kind, row'[p]) = Block(kind, p)
           /\ kind = "receivedAck" => AckCode(p) = Fail
    BY <1>4, <2>1
  <2>3. Column(kind, row[p]) # 0 => Column(kind, row[p]) = Block(kind, p)
    BY <1>1 DEF RowsInv, Fits
  <2> QED BY <2>2, <2>3
<1>8. ASSUME NEW p \in Packets
      PROVE  (row[p].amount => row'[p].amount) /\ (Found(row[p]) => Found(row'[p]))
  BY <1>2, <1>3, Zenon DEF Applied
<1>9. NoEmptyRows(row')
  BY <1>2, <1>3 DEF Applied
<1> QED BY <1>5, <1>6, <1>7, <1>8, <1>9 DEF batch

LEMMA CommitKeeps ==
  ASSUME Inv, NEW c \in Chains, Commit(c)
  PROVE  Inv'
<1>1. /\ At(c, "storing") /\ UNCHANGED <<chain, base, unread>> /\ SetJob(c, Idle)
      /\ height' = [height EXCEPT ![c] = job[c].next]
  BY DEF Commit
<1>2. /\ Types /\ ChainsInv /\ JobInv(c) /\ CursorInv(c)
  BY DEF Inv, JobInv
<1>3. /\ height[c] \in Nat \ {0} /\ job[c].from = height[c] /\ job[c].to \in Nat
      /\ job[c].from <= job[c].to /\ job[c].next = job[c].to + 1
      /\ job[c].to < Len(chain[c]) /\ Len(chain[c]) \in Nat
      /\ base[c] \in Nat /\ base[c] <= height[c] /\ Len(chain[c]) >= FirstHead
  BY <1>1, <1>2 DEF CursorInv, Types, Jobs, At
<1>4. /\ row' \in [Packets -> Rows] /\ NoEmptyRows(row')
      /\ Complete(job[c].batch, Len(job[c].batch), row')
      /\ \A p \in Packets :
           /\ row[p].amount => row'[p].amount
           /\ \A kind \in Kinds :
                /\ Column(kind, row[p]) # 0 => Column(kind, row'[p]) = Column(kind, row[p])
                /\ \/ Column(kind, row'[p]) = Column(kind, row[p])
                   \/ /\ InRange(c, kind, p) /\ Column(kind, row'[p]) = Block(kind, p)
                      /\ kind = "receivedAck" => AckCode(p) = Fail
  BY CommitColumns
<1>5. /\ job'[c] = Idle /\ \A d \in Chains \ {c} : job'[d] = job[d]
      /\ height'[c] = job[c].next /\ \A d \in Chains \ {c} : height'[d] = height[d]
  BY <1>1, <1>2 DEF SetJob, Types
<1>6. Types'
  BY <1>1, <1>2, <1>3, <1>4, IdleIsJob DEF Types, SetJob
<1>7. JobInv(c)'
  <2>1. CursorInv(c)'
    BY <1>1, <1>3, <1>5, IdleIsJob, CursorsOK DEF CursorInv, At
  <2> QED BY <1>5, <2>1, NoWork DEF JobInv
<1>8. \A d \in Chains : JobInv(d)'
  BY <1>1, <1>2, <1>4, <1>5, <1>6, <1>7, OthersStay DEF Inv
<1>9. \A k, p : /\ Block(k, p)' = Block(k, p) /\ AckCode(p)' = AckCode(p)
                /\ ReceivedAckBlock(p)' = ReceivedAckBlock(p)
  BY <1>1 DEF Block, BlockOf, AckCode, AckBlock, ReceivedAckBlock, Home
<1>10. RowsInv'
  <2> SUFFICES ASSUME NEW p \in Packets PROVE Fits(row[p], p)'
    BY <1>4 DEF RowsInv, NoEmptyRows
  <2>1. \A kind \in Kinds : Column(kind, row[p]) \in {0, Block(kind, p)}
    BY DEF Inv, RowsInv, Fits
  <2>2. \A kind \in Kinds : Column(kind, row'[p]) \in {0, Block(kind, p)'}
    BY <1>4, <1>9, <2>1
  <2>3. row'[p].refundHeight # 0 => AckCode(p) = Fail
    <3>1. Column("receivedAck", row[p]) = row[p].refundHeight
          /\ Column("receivedAck", row'[p]) = row'[p].refundHeight
      BY DEF Column
    <3>2. row[p].refundHeight # 0 => AckCode(p) = Fail
      BY DEF Inv, RowsInv, Fits
    <3> QED BY <1>4, <3>1, <3>2 DEF Kinds
  <2> QED BY <1>9, <2>2, <2>3 DEF Fits, Column
<1>11. Passed'
  <2> SUFFICES ASSUME NEW kind \in Kinds, NEW p \in Packets, Due(kind, p)',
                      Stored(Home(kind, p), Block(kind, p))'
               PROVE  /\ Column(kind, row'[p]) = Block(kind, p)
                      /\ kind = "send" => row'[p].amount
    BY <1>9, Zenon DEF Passed, Column
  <2>1. Due(kind, p)
    BY <1>1, <1>9 DEF Due, Owed, Home
  <2> DEFINE d == Home(kind, p)
             b == Block(kind, p)
  <2>2. b # 0 /\ base[d] <= b /\ b < height'[d] /\ d \in Chains /\ b \in Nat
    BY <1>1, <1>2, <1>9, HomeChains, BlockInChain DEF Stored, Home
  <2>3. CASE Stored(d, b)
    BY <1>4, <2>1, <2>3, <2>2 DEF Inv, Passed
  <2>4. CASE ~Stored(d, b)
    <3>1. d = c /\ b >= height[c] /\ b <= job[c].to
      BY <1>2, <1>3, <1>5, <2>2, <2>4 DEF Stored, Types
    <3>2. InRange(c, kind, p)
      BY <1>3, <2>2, <3>1 DEF InRange
    <3>3. InBatch(c, kind, p)
      BY <1>1, <1>2, <2>1, <3>2 DEF JobInv, ReadInv, TodoInv, InTodo, At
    <3>4. PICK i \in 1 .. Len(job[c].batch) :
            /\ job[c].batch[i].pkt = p /\ Column(kind, job[c].batch[i].cols) = b
            /\ kind = "send" => job[c].batch[i].cols.amount \/ row[p].amount
      BY <3>3 DEF InBatch
    <3>5. Column(kind, row'[p]) # 0
      BY <1>4, <2>2, <3>4 DEF Complete
    <3>6. kind = "send" => row'[p].amount
      <4>1. job[c].batch[i].cols.amount => row'[p].amount
        BY <1>4, <3>4, Zenon DEF Complete
      <4> QED BY <1>4, <3>4, <4>1, Zenon
    <3>7. Column(kind, row[p]) \in {0, b}
      BY DEF Inv, RowsInv, Fits
    <3> QED BY <1>4, <3>5, <3>6, <3>7
  <2> QED BY <2>3, <2>4
<1>12. BehindCursors'
  <2> SUFFICES ASSUME RevisedHeights = {0}, NEW kind \in Kinds, NEW p \in Packets,
                      Column(kind, row'[p]) # 0
               PROVE  Block(kind, p) < height'[Home(kind, p)]
    BY <1>9, Zenon DEF BehindCursors, Home, Column
  <2>1. CASE Column(kind, row[p]) # 0
    <3>1. Block(kind, p) < height[Home(kind, p)]
      BY <2>1 DEF Inv, BehindCursors
    <3>2. Block(kind, p) \in Nat /\ Home(kind, p) \in Chains
      BY <1>2, HomeChains, BlockInChain
    <3>3. \A d \in Chains : height[d] \in Nat /\ height'[d] \in Nat /\ height[d] <= height'[d]
      <4>1. height \in [Chains -> Nat] /\ height' \in [Chains -> Nat]
        BY <1>2, <1>6 DEF Types
      <4> QED BY <1>3, <1>5, <4>1
    <3> QED BY <3>1, <3>2, <3>3
  <2>2. CASE Column(kind, row[p]) = 0
    <3>1. InRange(c, kind, p)
      BY <1>4, <2>2
    <3> QED BY <1>3, <1>5, <3>1 DEF InRange
  <2> QED BY <2>1, <2>2
<1>13. ChainsInv'
  BY <1>1, <1>2, SameBlocks
<1> QED BY <1>6, <1>8, <1>10, <1>11, <1>12, <1>13 DEF Inv

-----------------------------------------------------------------------------
(* The steps of all chains *)

LEMMA EnvironmentKeeps ==
  ASSUME Inv, Environment
  PROVE  Inv'
<1>1. ChainsGrow
  BY EnvironmentGrows DEF Inv
<1>2. /\ Types /\ Types' /\ ChainsInv /\ ChainsInv' /\ BlocksGrow
      /\ UNCHANGED <<height, row, job, base, unread>>
      /\ \A c \in Chains : chain'[c] = chain[c] \/ ChainGrows(c)
  BY <1>1 DEF ChainsGrow, Inv
<1>3. \A c \in Chains : JobInv(c)'
  BY <1>2, JobStays DEF Inv
<1>4. \A kind \in Kinds, p \in Packets :
        /\ Grown(Block(kind, p), Block(kind, p)', Len(chain[Home(kind, p)]))
        /\ Block(kind, p) # 0 => Block(kind, p)' = Block(kind, p)
        /\ AckBlock(p) # 0 => AckCode(p)' = AckCode(p)
  BY <1>2, BlocksStay
<1>5. \A p \in Packets : ReceivedAckBlock(p) # 0 => AckBlock(p) # 0
  BY <1>2 DEF ChainsInv
<1>6. RowsInv'
  <2> SUFFICES ASSUME NEW p \in Packets PROVE Fits(row[p], p)'
    BY <1>2 DEF Inv, RowsInv, NoEmptyRows
  <2>1. /\ \A kind \in Kinds : Column(kind, row[p]) \in {0, Block(kind, p)}
        /\ row[p].refundHeight # 0 => AckCode(p) = Fail
    BY DEF Inv, RowsInv, Fits
  <2>2. \A kind \in Kinds : Column(kind, row[p]) \in {0, Block(kind, p)'}
    BY <1>4, <2>1
  <2>3. row[p].refundHeight # 0 => AckCode(p)' = Fail
    <3> SUFFICES ASSUME row[p].refundHeight # 0 PROVE AckCode(p)' = Fail
      OBVIOUS
    <3>1. ReceivedAckBlock(p) # 0
      BY <2>1, BlockNames DEF Column, Kinds
    <3> QED BY <1>4, <1>5, <2>1, <3>1 DEF Kinds
  <2> QED BY <1>2, <2>2, <2>3 DEF Fits, Column
<1>7. Passed'
  <2> SUFFICES ASSUME NEW kind \in Kinds, NEW p \in Packets, Due(kind, p)',
                      Stored(Home(kind, p), Block(kind, p))'
               PROVE  /\ Column(kind, row[p]) = Block(kind, p)'
                      /\ kind = "send" => row[p].amount
    BY <1>2, Zenon DEF Passed, Column
  <2> DEFINE c == Home(kind, p)
             b == Block(kind, p)
  <2>1. /\ c \in Chains /\ c' = c /\ b \in 0 .. Len(chain[c]) /\ b' # 0 /\ base[c] <= b' /\ b' < height[c]
    BY <1>2, HomeChains, BlockInChain DEF Stored, Home
  <2>2. /\ height[c] \in Nat /\ base[c] \in Nat /\ Len(chain[c]) \in Nat
        /\ base[c] = height[c] \/ height[c] <= Len(chain[c])
    BY <1>2, <2>1 DEF Types, Inv, JobInv, CursorInv
  <2>3. b # 0 /\ b' = b
    BY <1>4, <2>1, <2>2 DEF Grown
  <2>4. Stored(c, b)
    BY <2>1, <2>3 DEF Stored
  <2>5. Due(kind, p)
    <3>1. kind = "receivedAck" => ReceivedAckBlock(p) # 0
      BY <2>3, BlockNames
    <3> QED BY <1>2, <1>4, <1>5, <2>3, <3>1 DEF Due, Owed, Home
  <2> QED BY <2>3, <2>4, <2>5 DEF Inv, Passed
<1>8. BehindCursors'
  <2> SUFFICES ASSUME RevisedHeights = {0}, NEW kind \in Kinds, NEW p \in Packets,
                      Column(kind, row[p]) # 0
               PROVE  Block(kind, p)' < height[Home(kind, p)]
    BY <1>2, Zenon DEF BehindCursors, Home, Column
  <2>1. Block(kind, p) # 0 /\ Block(kind, p) < height[Home(kind, p)]
    BY DEF Inv, BehindCursors, RowsInv, Fits
  <2> QED BY <1>4, <2>1
<1> QED BY <1>2, <1>3, <1>6, <1>7, <1>8 DEF Inv

LEMMA BootKeeps ==
  ASSUME Inv, Boot
  PROVE  Inv'
<1>1. PICK revised \in [Chains -> RevisedHeights] :
        LET placed(c) == revised[c] # 0 \/ height[c] = 0
            at(c) == IF revised[c] # 0 THEN revised[c] ELSE Cursor(c)!FirstHeight
        IN  /\ height' = [c \in Chains |-> IF placed(c) THEN at(c) ELSE height[c]]
            /\ base' = [c \in Chains |-> IF placed(c) THEN at(c) ELSE base[c]]
  BY Zenon DEF Boot
<1>2. /\ job' = [c \in Chains |-> Idle] /\ UNCHANGED <<chain, row, unread>>
  BY DEF Boot
<1>3. Types /\ ChainsInv
  BY DEF Inv
<1>4. ASSUME NEW c \in Chains
      PROVE  \/ /\ height'[c] = base'[c] /\ height'[c] \in Nat \ {0}
                /\ RevisedHeights = {0} => height[c] = 0
             \/ height'[c] = height[c] /\ base'[c] = base[c] /\ height[c] # 0
  <2>1. revised[c] \in Nat
    BY CursorsOK
  <2>2. Cursor(c)!FirstHeight \in Nat \ {0}
    BY FirstHeightPositive
  <2>3. RevisedHeights = {0} => revised[c] = 0
    OBVIOUS
  <2> QED BY <1>1, <2>1, <2>2, <2>3
<1>5. \A c \in Chains : height'[c] \in Nat /\ base'[c] \in Nat
  BY <1>3, <1>4 DEF Types
<1>6. Types'
  <2>1. height' \in [Chains -> Nat] /\ base' \in [Chains -> Nat]
    BY <1>1, <1>5
  <2> QED BY <1>2, <1>3, <2>1, IdleIsJob DEF Types
<1>7. ASSUME NEW c \in Chains PROVE JobInv(c)'
  <2>1. job'[c] = Idle
    BY <1>2
  <2>2. CursorInv(c)
    BY DEF Inv, JobInv
  <2>3. CursorInv(c)'
    BY <1>2, <1>4, <1>5, <2>1, <2>2, IdleIsJob DEF CursorInv, At
  <2> QED BY <2>1, <2>3, NoWork DEF JobInv
<1>8. \A k, p : /\ Block(k, p)' = Block(k, p) /\ AckCode(p)' = AckCode(p)
                /\ ReceivedAckBlock(p)' = ReceivedAckBlock(p)
  BY <1>2 DEF Block, BlockOf, AckCode, AckBlock, ReceivedAckBlock, Home
<1>9. RowsInv'
  BY <1>2, <1>8 DEF Inv, RowsInv, NoEmptyRows, Fits
<1>10. Passed'
  <2> SUFFICES ASSUME NEW kind \in Kinds, NEW p \in Packets, Due(kind, p)',
                      Stored(Home(kind, p), Block(kind, p))'
               PROVE  /\ Column(kind, row[p]) = Block(kind, p)
                      /\ kind = "send" => row[p].amount
    BY <1>2, <1>8, Zenon DEF Passed, Column
  <2>1. /\ base'[Home(kind, p)] <= Block(kind, p)
        /\ Block(kind, p) < height'[Home(kind, p)]
        /\ Block(kind, p) # 0
        /\ Home(kind, p) \in Chains /\ Block(kind, p) \in Nat
    BY <1>3, <1>8, HomeChains, BlockInChain DEF Stored, Home
  <2>2. Stored(Home(kind, p), Block(kind, p))
    BY <1>4, <2>1 DEF Stored
  <2>3. Due(kind, p)
    BY <1>2, <1>8 DEF Due, Owed, Home
  <2> QED BY <2>2, <2>3 DEF Inv, Passed
<1>11. BehindCursors'
  <2> SUFFICES ASSUME RevisedHeights = {0}, NEW kind \in Kinds, NEW p \in Packets,
                      Column(kind, row[p]) # 0
               PROVE  Block(kind, p) < height'[Home(kind, p)]
    BY <1>2, <1>8, Zenon DEF BehindCursors, Home, Column
  <2>1. /\ Block(kind, p) < height[Home(kind, p)]
        /\ Home(kind, p) \in Chains /\ Block(kind, p) \in Nat
    BY <1>3, HomeChains, BlockInChain DEF Inv, BehindCursors
  <2> QED BY <1>4, <2>1
<1>12. ChainsInv'
  BY <1>2, <1>3, SameBlocks
<1> QED BY <1>6, <1>7, <1>9, <1>10, <1>11, <1>12 DEF Inv

LEMMA AllDownKeeps ==
  ASSUME Inv, job' = [c \in Chains |-> Down], UNCHANGED <<chain, height, row, base, unread>>
  PROVE  Inv'
<1>1. Types'
  BY IdleIsJob DEF Inv, Types
<1>2. ASSUME NEW c \in Chains PROVE JobInv(c)'
  <2>1. job'[c] = Down
    OBVIOUS
  <2>2. CursorInv(c)'
    BY <2>1, IdleIsJob DEF Inv, JobInv, CursorInv, At
  <2> QED BY <2>1, <2>2, NoWork DEF JobInv
<1>3. TableInv'
  BY TableStays DEF Inv, TableInv
<1> QED BY <1>1, <1>2, <1>3 DEF Inv, TableInv

LEMMA StutterKeeps ==
  ASSUME Inv, UNCHANGED <<chain, height, row, job, base, unread>>
  PROVE  Inv'
<1>1. UNCHANGED <<chain, height, row, base, unread>> /\ job' = job
  OBVIOUS
<1>2. Types'
  BY <1>1 DEF Inv, Types
<1>3. ASSUME NEW c \in Chains PROVE JobInv(c)'
  BY <1>1, <1>2, SameBlocks, JobStays DEF Inv
<1>4. TableInv'
  BY <1>1, TableStays DEF Inv, TableInv
<1> QED BY <1>2, <1>3, <1>4 DEF Inv, TableInv

LEMMA InitInv == LongerThanBatch /\ Init => Inv
<1> SUFFICES ASSUME LongerThanBatch, Init PROVE Inv
  OBVIOUS
<1> USE DEF Init
<1>1. \A c \in Chains : chain[c] = [b \in 1 .. FirstHead |-> Empty]
  OBVIOUS
<1>2. FirstHead \in Nat
  BY CursorsOK
<1>3. [b \in 1 .. FirstHead |-> Empty] \in Seq(Events \cup {Empty})
      /\ Len([b \in 1 .. FirstHead |-> Empty]) = FirstHead
  BY <1>2
<1>4. Types
  BY <1>3, NoRowIsRow, IdleIsJob DEF Types, NoRows
<1>5. \A c \in Chains, kind \in Kinds, p \in Packets : \A b \in DOMAIN chain[c] :
        ~IsEvent(chain[c][b], kind, p)
  BY <1>1 DEF IsEvent, Empty, Kinds
<1>6. \A c \in Chains, kind \in Kinds, p \in Packets : BlockOf(c, kind, p) = 0
  <2> SUFFICES ASSUME NEW c \in Chains, NEW kind \in Kinds, NEW p \in Packets
               PROVE  BlockOf(c, kind, p) = 0
    OBVIOUS
  <2>1. {b \in DOMAIN chain[c] : IsEvent(chain[c][b], kind, p)} = {}
    BY <1>5
  <2> QED BY <2>1 DEF BlockOf
<1>7. \A kind \in Kinds, p \in Packets : Block(kind, p) = 0
  BY <1>6, HomeChains DEF Block
<1>8. ChainsInv
  <2>1. \A p \in Packets : AckBlock(p) = 0 /\ ReceivedAckBlock(p) = 0
    BY <1>7, BlockNames DEF Kinds
  <2> QED BY <1>5, <2>1 DEF ChainsInv
<1>9. \A p \in Packets : row[p] = NoRow /\ \A kind : Column(kind, row[p]) = 0
  BY DEF NoRows, NoRow, Column
<1>10. RowsInv /\ BehindCursors
  <2>1. NoRow.refundHeight = 0
    BY DEF NoRow
  <2>2. \A p \in Packets : row[p].refundHeight = 0
    BY <1>9, <2>1
  <2>3. \A p \in Packets : Fits(row[p], p)
    BY <1>9, <2>2 DEF Fits
  <2> QED BY <1>9, <2>3 DEF RowsInv, NoEmptyRows, BehindCursors
<1>11. Passed
  BY <1>7 DEF Passed, Stored
<1>12. ASSUME NEW c \in Chains PROVE JobInv(c)
  <2>1. job[c] = Down /\ height[c] = 0 /\ base[c] = 0 /\ Len(chain[c]) = FirstHead
    BY <1>1, <1>3
  <2>2. CursorInv(c)
    BY <1>2, <2>1, IdleIsJob DEF CursorInv, At
  <2>3. job[c].todo = {} /\ Len(job[c].batch) = 0
    BY <2>1 DEF Down, Idle
  <2>4. TodoInv(c) /\ BatchInv(c) /\ ReadInv(c)
    BY <2>1, <2>3, IdleIsJob DEF TodoInv, BatchInv, ReadInv
  <2> QED BY <2>2, <2>4 DEF JobInv
<1> QED BY <1>4, <1>8, <1>10, <1>11, <1>12 DEF Inv

(* Every step but the stutters. *)
LEMMA NextInv == LongerThanBatch /\ Inv /\ [Next]_vars => Inv'
<1> SUFFICES ASSUME LongerThanBatch, Inv, [Next]_vars PROVE Inv'
  OBVIOUS
<1>1. CASE Environment
  BY <1>1, EnvironmentKeeps
<1>2. CASE Boot
  BY <1>2, BootKeeps
<1>3. ASSUME NEW c \in Chains, Work(c) \/ JobFails(c) PROVE Inv'
  <2>1. CASE ChooseRange(c)
    BY <2>1, ChooseRangeKeeps
  <2>2. CASE TickTooEarly(c)
    BY <2>2, StutterKeeps DEF TickTooEarly, vars
  <2>3. CASE Fetch(c)
    BY <2>3, FetchKeeps
  <2>4. CASE ReadRow(c)
    BY <2>4, ReadRowKeeps
  <2>5. CASE Panic(c)
    BY <2>5, GiveUpKeeps DEF Panic, NextPanics, Working, At
  <2>6. CASE BeginTx(c)
    BY <2>6, BeginTxKeeps
  <2>7. CASE Commit(c)
    BY <2>7, CommitKeeps
  <2>8. CASE DuplicateKey(c)
    BY <2>8, GiveUpKeeps DEF DuplicateKey, Working, At
  <2>9. CASE JobFails(c)
    BY <2>9, GiveUpKeeps DEF JobFails, Working
  <2> QED BY <1>3, <2>1, <2>2, <2>3, <2>4, <2>5, <2>6, <2>7, <2>8, <2>9 DEF Work
<1>4. CASE Crash
  BY <1>4, AllDownKeeps DEF Crash
<1>5. CASE UNCHANGED vars
  BY <1>5, StutterKeeps DEF vars
<1> QED BY <1>1, <1>2, <1>3, <1>4, <1>5 DEF Next

LEMMA SpecInv == ASSUME LongerThanBatch PROVE Spec => []Inv
<1>1. LongerThanBatch
  OBVIOUS
<1>2. Init => Inv
  BY <1>1, InitInv
<1>3. Inv /\ [Next]_vars => Inv'
  BY <1>1, NextInv
<1> QED BY <1>2, <1>3, PTL DEF Spec

-----------------------------------------------------------------------------
(***************************************************************************)
(* The rows, the cursors and what the jobs carry keep their types; a job runs *)
(* only for a chain that has a cursor (packet.go:75-119).                     *)
(***************************************************************************)
THEOREM TypeCorrect == ASSUME LongerThanBatch PROVE Spec => []TypeOK
<1>1. Inv => TypeOK
  <2> SUFFICES ASSUME Inv PROVE TypeOK
    OBVIOUS
  <2>1. /\ row \in [Packets -> Rows] /\ height \in [Chains -> Nat] /\ base \in [Chains -> Nat]
        /\ unread \in [Chains -> SUBSET Nat]
        /\ \A p \in Packets : ~Found(row[p]) => row[p] = NoRow
    BY DEF Inv, Types, RowsInv, NoEmptyRows
  <2>2. \A c \in Chains : /\ job[c].stage \in Stages
                          /\ job[c].snapshot \in [Packets -> Rows]
                          /\ height[c] = 0 => At(c, "down")
    BY DEF Inv, Types, Jobs, JobInv, CursorInv
  <2> QED BY <2>1, <2>2 DEF TypeOK
<1> QED BY SpecInv, <1>1, PTL

LEMMA InvNothingMissed == Inv => NothingMissed
<1> SUFFICES ASSUME Inv, NEW p \in Packets
             PROVE  /\ p \in Listed /\ Taken(Src[p], SendBlock(p))
                         => row[p].srcHeight = SendBlock(p) /\ row[p].amount
                    /\ p \in Listed /\ Dst[p] \in Teleport /\ Taken(Dst[p], AckBlock(p))
                         => row[p].destHeight = AckBlock(p)
                    /\ /\ Taken(Src[p], ReceivedAckBlock(p)) /\ AckCode(p) = Fail
                         => row[p].refundHeight = ReceivedAckBlock(p)
  BY Zenon DEF NothingMissed
<1>1. \A kind \in Kinds :
        Due(kind, p) /\ Stored(Home(kind, p), Block(kind, p)) =>
          /\ Column(kind, row[p]) = Block(kind, p)
          /\ kind = "send" => row[p].amount
  BY DEF Inv, Passed
<1>2. /\ Home("send", p) = Src[p] /\ Home("ack", p) = Dst[p] /\ Home("receivedAck", p) = Src[p]
      /\ Column("send", row[p]) = row[p].srcHeight
      /\ Column("ack", row[p]) = row[p].destHeight
      /\ Column("receivedAck", row[p]) = row[p].refundHeight
  BY DEF Home, Column
<1>3. /\ p \in Listed => Owed("send", p)
      /\ p \in Listed /\ Dst[p] \in Teleport => Owed("ack", p)
      /\ Taken(Src[p], ReceivedAckBlock(p)) /\ AckCode(p) = Fail => Owed("receivedAck", p)
  BY DEF Owed, Taken, Stored
<1>4. "send" \in Kinds /\ "ack" \in Kinds /\ "receivedAck" \in Kinds
  BY DEF Kinds
<1> QED BY <1>1, <1>2, <1>3, <1>4, BlockNames DEF Due, Taken

(***************************************************************************)
(* Whatever the jobs of the chains do to each other, and whatever fails or    *)
(* dies, what the clients have returned below the cursors is in the table     *)
(* (saveToDB, packet.go:545-613): the sends of listed packets, with their     *)
(* amounts, the acks Teleport wrote for them, and all refunds.  A transaction *)
(* that the Teleport client passes over (teleport.go:196) is excepted.        *)
(***************************************************************************)
THEOREM NothingIsMissed == ASSUME LongerThanBatch PROVE Spec => []NothingMissed
BY SpecInv, InvNothingMissed, PTL

(***************************************************************************)
(* A height in the table is the block of its event, only a failed packet has  *)
(* a refund, and, when no RevisedHeight takes a cursor back, the block lies   *)
(* below the cursor of its chain: the rows and the cursor are written in one  *)
(* transaction (packet.go:546-611).                                          *)
(***************************************************************************)
THEOREM NothingIsInvented == ASSUME LongerThanBatch PROVE Spec => []NothingInvented
<1>1. Inv => NothingInvented
  <2> SUFFICES ASSUME Inv, NEW p \in Packets
               PROVE  LET from(c, column, b) ==
                            column # 0 => column = b /\ (RevisedHeights = {0} => b < height[c])
                      IN  /\ from(Src[p], row[p].srcHeight, SendBlock(p))
                          /\ from(Dst[p], row[p].destHeight, AckBlock(p))
                          /\ from(Src[p], row[p].refundHeight, ReceivedAckBlock(p))
                          /\ row[p].refundHeight # 0 => AckCode(p) = Fail
    BY Zenon DEF NothingInvented
  <2>1. /\ \A kind \in Kinds :
             /\ Column(kind, row[p]) \in {0, Block(kind, p)}
             /\ RevisedHeights = {0} /\ Column(kind, row[p]) # 0
                  => Block(kind, p) < height[Home(kind, p)]
        /\ row[p].refundHeight # 0 => AckCode(p) = Fail
    BY DEF Inv, RowsInv, Fits, BehindCursors
  <2>2. /\ Home("send", p) = Src[p] /\ Home("ack", p) = Dst[p] /\ Home("receivedAck", p) = Src[p]
        /\ Column("send", row[p]) = row[p].srcHeight
        /\ Column("ack", row[p]) = row[p].destHeight
        /\ Column("receivedAck", row[p]) = row[p].refundHeight
    BY DEF Home, Column
  <2>3. "send" \in Kinds /\ "ack" \in Kinds /\ "receivedAck" \in Kinds
    BY DEF Kinds
  <2> QED BY <2>1, <2>2, <2>3, BlockNames
<1> QED BY SpecInv, <1>1, PTL

(* Only commits write the table. *)
LEMMA OnlyCommitsWrite ==
  ASSUME Next, ~\E c \in Chains : Commit(c)
  PROVE  row' = row
<1>1. CASE Environment
  BY <1>1 DEF Environment, Mine, SendPacket, WriteAck, AcknowledgePacket, Append1
<1>2. CASE Boot \/ Crash
  BY <1>2 DEF Boot, Crash
<1>3. ASSUME NEW c \in Chains, Work(c) \/ JobFails(c) PROVE row' = row
  BY <1>3 DEF Work, JobFails, ChooseRange, TickTooEarly, Fetch, ReadRow, Panic, BeginTx,
              DuplicateKey, vars
<1> QED BY <1>1, <1>2, <1>3 DEF Next

(* What ColumnsStay says of a step. *)
ColumnsKept ==
  LET kept(column, new) == column # 0 => new = column
  IN  \A p \in Packets :
        /\ kept(row[p].srcHeight, row'[p].srcHeight)
        /\ kept(row[p].destHeight, row'[p].destHeight)
        /\ kept(row[p].refundHeight, row'[p].refundHeight)

LEMMA NextKeepsColumns == Inv /\ [Next]_vars => ColumnsKept
<1> DEFINE kept(column, new) == column # 0 => new = column
<1> SUFFICES ASSUME Inv, [Next]_vars, NEW p \in Packets
             PROVE  /\ kept(row[p].srcHeight, row'[p].srcHeight)
                    /\ kept(row[p].destHeight, row'[p].destHeight)
                    /\ kept(row[p].refundHeight, row'[p].refundHeight)
  BY Zenon DEF ColumnsKept
<1>1. CASE \E c \in Chains : Commit(c)
  <2>1. PICK c \in Chains : Commit(c)
    BY <1>1
  <2>2. \A kind \in Kinds :
          Column(kind, row[p]) # 0 => Column(kind, row'[p]) = Column(kind, row[p])
    BY <2>1, CommitColumns
  <2> QED BY <2>2 DEF Column, Kinds
<1>2. CASE ~\E c \in Chains : Commit(c)
  <2>1. row' = row
    BY <1>2, OnlyCommitsWrite DEF vars
  <2> QED BY <2>1
<1> QED BY <1>1, <1>2

(***************************************************************************)
(* No step wipes or changes a height column, not even the jobs that read old  *)
(* blocks again after a RevisedHeight (packet.go:571-577).                    *)
(***************************************************************************)
THEOREM ColumnsAreKept == ASSUME LongerThanBatch PROVE Spec => ColumnsStay
<1>1. LongerThanBatch
  OBVIOUS
<1>2. Inv /\ [Next]_vars => [ColumnsKept]_vars
  BY NextKeepsColumns
<1> QED BY <1>1, <1>2, SpecInv, PTL DEF Spec, ColumnsStay, ColumnsKept

-----------------------------------------------------------------------------
(* The status of a row *)

(* The status fits, and the ack it stands for exists. *)
StatusGood(r, p) ==
  /\ StatusFits(r, p)
  /\ r.refundHeight # 0 => AckCode(p) = Fail
  /\ r.destHeight # 0 => AckCode(p) \in {Success, Fail}

(***************************************************************************)
(* A record written over `old` by a transaction that sees `seen` leaves a     *)
(* status that fits, in the three situations there are: the transaction has   *)
(* written the row itself; there is no row; or the row is one of the          *)
(* snapshot, perhaps written again since, without the record's column.        *)
(***************************************************************************)
LEMMA StatusUpdate ==
  ASSUME NEW p \in Packets, NEW old \in Rows, NEW seen \in Rows, NEW rec \in Recs,
         rec.pkt = p, NEW kind \in Kinds, RecordOf(rec, kind),
         Block(kind, p) \in Nat \ {0}, kind # "send" => AckCode(p) \in {Success, Fail},
         \/ seen = old /\ Found(old) /\ StatusGood(old, p)
         \/ ~Found(seen) /\ old = NoRow
         \/ /\ Found(seen) /\ StatusFits(seen, p) /\ StatusGood(old, p) /\ Earlier(seen, old)
            /\ Column(kind, old) = 0
            /\ kind = "send" => old.refundHeight = 0
  PROVE  StatusGood(Updates(old, KeepStatus(rec.cols, seen)), p)
<1> DEFINE new == Updates(old, KeepStatus(rec.cols, seen))
           b == Block(kind, p)
<1> SUFFICES StatusGood(new, p)
  OBVIOUS
<1>1. rec.cols \in Rows /\ Found(rec.cols)
  BY DEF Recs
<1>2. /\ new \in Rows
      /\ new.status = IF rec.cols.status < seen.status THEN seen.status ELSE rec.cols.status
      /\ new.srcHeight = IF rec.cols.srcHeight # 0 THEN rec.cols.srcHeight ELSE old.srcHeight
      /\ new.destHeight = IF rec.cols.destHeight # 0 THEN rec.cols.destHeight ELSE old.destHeight
      /\ new.refundHeight = IF rec.cols.refundHeight # 0 THEN rec.cols.refundHeight
                            ELSE old.refundHeight
  BY <1>1, UpdatesRow, ZenonT(60)
<1> HIDE DEF new
<1>3. /\ seen.status \in 0 .. 4 /\ old.status \in 0 .. 4
      /\ seen.srcHeight \in Nat /\ seen.destHeight \in Nat /\ seen.refundHeight \in Nat
      /\ old.srcHeight \in Nat /\ old.destHeight \in Nat /\ old.refundHeight \in Nat
  BY Codes DEF Rows
<1>4. Earlier(seen, old) =>
        /\ seen.srcHeight # 0 => old.srcHeight = seen.srcHeight
        /\ seen.destHeight # 0 => old.destHeight = seen.destHeight
        /\ seen.refundHeight # 0 => old.refundHeight = seen.refundHeight
  BY DEF Earlier, Column, Kinds
<1>5. ~Found(seen) => seen.status = 0
  BY DEF Found
<1>6. /\ NoRow.srcHeight = 0 /\ NoRow.destHeight = 0 /\ NoRow.refundHeight = 0
  BY DEF NoRow
<1>7. CASE kind = "send"
  <2>1. /\ rec.cols.srcHeight = b /\ rec.cols.destHeight = 0 /\ rec.cols.refundHeight = 0
        /\ rec.cols.status = 1 /\ b # 0
    BY <1>7, Codes DEF RecordOf, Column, Kinds
  <2>2. /\ new.srcHeight # 0 /\ new.destHeight = old.destHeight
        /\ new.refundHeight = old.refundHeight
        /\ new.status = IF 1 < seen.status THEN seen.status ELSE 1
    BY <1>2, <2>1
  <2>3. Column(kind, old) = old.srcHeight
    BY <1>7 DEF Column
  <2> HIDE DEF b
  <2>4. CASE seen = old /\ Found(old) /\ StatusGood(old, p)
    BY <1>3, <2>2, <2>4, Codes DEF StatusGood, StatusFits
  <2>5. CASE ~Found(seen) /\ old = NoRow
    BY <1>5, <1>6, <2>2, <2>5, Codes DEF StatusGood, StatusFits
  <2>6. CASE /\ Found(seen) /\ StatusFits(seen, p) /\ StatusGood(old, p) /\ Earlier(seen, old)
             /\ Column(kind, old) = 0 /\ (kind = "send" => old.refundHeight = 0)
    BY <1>3, <1>4, <1>7, <2>2, <2>3, <2>6, Codes DEF StatusGood, StatusFits
  <2> QED BY <2>4, <2>5, <2>6
<1>8. CASE kind = "ack"
  <2>1. /\ rec.cols.srcHeight = 0 /\ rec.cols.destHeight = b /\ rec.cols.refundHeight = 0
        /\ rec.cols.status = AckCode(p) /\ b # 0 /\ AckCode(p) \in {2, 3}
    BY <1>8, Codes DEF RecordOf, Column, Kinds
  <2>2. /\ new.srcHeight = old.srcHeight /\ new.destHeight # 0
        /\ new.refundHeight = old.refundHeight
        /\ new.status = IF AckCode(p) < seen.status THEN seen.status ELSE AckCode(p)
    BY <1>2, <2>1
  <2>3. Column(kind, old) = old.destHeight
    BY <1>8 DEF Column
  <2> HIDE DEF b
  <2>4. CASE seen = old /\ Found(old) /\ StatusGood(old, p)
    BY <1>3, <2>1, <2>2, <2>4, Codes DEF StatusGood, StatusFits
  <2>5. CASE ~Found(seen) /\ old = NoRow
    BY <1>5, <1>6, <2>1, <2>2, <2>5, Codes DEF StatusGood, StatusFits
  <2>6. CASE /\ Found(seen) /\ StatusFits(seen, p) /\ StatusGood(old, p) /\ Earlier(seen, old)
             /\ Column(kind, old) = 0
    BY <1>3, <1>4, <2>1, <2>2, <2>3, <2>6, Codes DEF StatusGood, StatusFits
  <2> QED BY <2>4, <2>5, <2>6
<1>9. CASE kind = "receivedAck"
  <2>1. /\ rec.cols.srcHeight = 0 /\ rec.cols.destHeight = 0 /\ rec.cols.refundHeight = b
        /\ rec.cols.status = 4 /\ b # 0 /\ AckCode(p) = Fail
    BY <1>9, Codes DEF RecordOf, Column, Kinds
  <2>2. /\ new.refundHeight # 0 /\ new.status = 4
    BY <1>2, <1>3, <2>1
  <2> QED BY <2>1, <2>2, Codes DEF StatusGood, StatusFits
<1> QED BY <1>7, <1>8, <1>9 DEF Kinds

(* What a transaction has done to the statuses so far. *)
Statuses(snapshot, tx) ==
  \A p \in Packets :
    \/ tx.view[p] = snapshot[p] /\ tx.table[p] = row[p]
    \/ /\ tx.view[p] = tx.table[p] /\ Found(tx.table[p])
       /\ StatusGood(tx.table[p], p)

LEMMA StoreStatus ==
  ASSUME NEW snapshot \in [Packets -> Rows], NEW tx \in TxStates, NoEmptyRows(tx.table),
         Statuses(snapshot, tx),
         NEW rec \in Recs, NEW kind \in Kinds, RecordOf(rec, kind),
         Block(kind, rec.pkt) \in Nat \ {0},
         kind # "send" => AckCode(rec.pkt) \in {Success, Fail},
         LET seen == snapshot[rec.pkt]
             old == row[rec.pkt]
         IN  /\ Earlier(seen, old)
             /\ Found(seen) => StatusFits(seen, rec.pkt)
             /\ Found(old) => StatusGood(old, rec.pkt)
             /\ Column(kind, old) = 0
             /\ kind = "send" => old.refundHeight = 0
  PROVE  Statuses(snapshot, Store(tx, rec))
<1> DEFINE q == rec.pkt
           new == Updates(tx.table[q], KeepStatus(rec.cols, tx.view[q]))
           next == Store(tx, rec)
<1>1. /\ q \in Packets /\ rec.cols \in Rows /\ Found(rec.cols)
      /\ tx.view[q] \in Rows /\ tx.table[q] \in Rows
      /\ tx.view \in [Packets -> Rows] /\ tx.table \in [Packets -> Rows]
  BY DEF Recs, TxStates
<1>2. \/ /\ ~Found(tx.view[q]) /\ Found(tx.table[q])
         /\ next = [view |-> tx.view, table |-> tx.table, duplicate |-> TRUE]
      \/ /\ Found(tx.view[q]) \/ ~Found(tx.table[q])
         /\ next = [view |-> [tx.view EXCEPT ![q] = new],
                    table |-> [tx.table EXCEPT ![q] = new],
                    duplicate |-> tx.duplicate]
  BY StoreStep, Zenon DEF NoEmptyRows
<1>3. Found(new)
  BY <1>1, UpdatesColumns
<1> HIDE DEF next
<1>4. CASE /\ ~Found(tx.view[q]) /\ Found(tx.table[q])
           /\ next = [view |-> tx.view, table |-> tx.table, duplicate |-> TRUE]
  <2>1. next.view = tx.view /\ next.table = tx.table
    BY <1>4
  <2> QED BY <2>1 DEF Statuses, next
<1>5. CASE /\ Found(tx.view[q]) \/ ~Found(tx.table[q])
           /\ next = [view |-> [tx.view EXCEPT ![q] = new],
                      table |-> [tx.table EXCEPT ![q] = new],
                      duplicate |-> tx.duplicate]
  <2>1. \/ tx.view[q] = snapshot[q] /\ tx.table[q] = row[q]
        \/ /\ tx.view[q] = tx.table[q] /\ Found(tx.table[q]) /\ StatusGood(tx.table[q], q)
    BY <1>1 DEF Statuses
  <2>2. ~Found(tx.table[q]) => tx.table[q] = NoRow
    BY <1>1 DEF NoEmptyRows
  <2>3. Earlier(snapshot[q], row[q]) /\ Found(snapshot[q]) => Found(row[q])
    BY DEF Earlier
  <2>4. \/ tx.view[q] = tx.table[q] /\ Found(tx.table[q]) /\ StatusGood(tx.table[q], q)
        \/ ~Found(tx.view[q]) /\ tx.table[q] = NoRow
        \/ /\ Found(tx.view[q]) /\ StatusFits(tx.view[q], q) /\ StatusGood(tx.table[q], q)
           /\ Earlier(tx.view[q], tx.table[q])
           /\ Column(kind, tx.table[q]) = 0
           /\ kind = "send" => tx.table[q].refundHeight = 0
    BY <1>5, <2>1, <2>2, <2>3, Zenon
  <2>5. StatusGood(new, q)
    BY <1>1, <2>4, StatusUpdate, Zenon
  <2> HIDE DEF new
  <2>6. /\ next.view[q] = new /\ next.table[q] = new
        /\ \A p \in Packets \ {q} :
             next.view[p] = tx.view[p] /\ next.table[p] = tx.table[p]
    BY <1>1, <1>5
  <2>7. Statuses(snapshot, next)
    BY <1>3, <2>5, <2>6 DEF Statuses
  <2> QED BY <2>7 DEF next
<1> QED BY <1>2, <1>4, <1>5

(* Facts about a row that the status needs. *)
LEMMA GoodRow ==
  ASSUME Inv, NEW p \in Packets, NEW r \in Rows, StatusFits(r, p), Earlier(r, row[p])
  PROVE  /\ StatusGood(r, p)
         /\ r.destHeight # 0 => AckBlock(p) # 0
<1>1. /\ \A kind \in Kinds : Column(kind, row[p]) \in {0, Block(kind, p)}
      /\ row[p].refundHeight # 0 => AckCode(p) = Fail
  BY DEF Inv, RowsInv, Fits
<1>2. /\ r.destHeight # 0 => row[p].destHeight = r.destHeight
      /\ r.refundHeight # 0 => row[p].refundHeight = r.refundHeight
  BY DEF Earlier, Column, Kinds
<1>3. r.destHeight # 0 => AckBlock(p) # 0
  BY <1>1, <1>2, BlockNames DEF Column, Kinds
<1>4. AckBlock(p) # 0 => AckCode(p) \in {Success, Fail}
  BY DEF Inv, ChainsInv
<1> QED BY <1>1, <1>2, <1>3, <1>4 DEF StatusGood

LEMMA StatusStays ==
  ASSUME Inv, BlocksGrow, NEW p \in Packets, NEW r \in Rows, StatusFits(r, p), Earlier(r, row[p])
  PROVE  StatusFits(r, p)'
<1>1. r.destHeight # 0 => AckCode(p)' = AckCode(p)
  BY GoodRow DEF BlocksGrow
<1> QED BY <1>1, SMT DEF StatusFits

LEMMA EarlierSame == \A r : Earlier(r, r)
BY DEF Earlier

LEMMA EarlierTrans ==
  ASSUME NEW r, NEW s, NEW t, Earlier(r, s), Earlier(s, t)
  PROVE  Earlier(r, t)
BY DEF Earlier

LEMMA SnapshotStays ==
  ASSUME Inv, BlocksGrow, NEW c \in Chains, SnapshotInv(c), job'[c] = job[c],
         \A p \in Packets : Earlier(row[p], row'[p])
  PROVE  SnapshotInv(c)'
<1> SUFFICES ASSUME At(c, "storing")
             PROVE  /\ NoEmptyRows(job[c].snapshot)
                    /\ \A p \in Packets :
                         /\ Earlier(job[c].snapshot[p], row'[p])
                         /\ Found(job[c].snapshot[p]) => StatusFits(job[c].snapshot[p], p)'
  BY DEF SnapshotInv, At, Earlier, Column, NoEmptyRows, Found, StatusFits
<1>1. /\ NoEmptyRows(job[c].snapshot)
      /\ \A p \in Packets :
           LET old == job[c].snapshot[p]
           IN  Earlier(old, row[p]) /\ (Found(old) => StatusFits(old, p))
  BY DEF SnapshotInv
<1>2. job[c].snapshot \in [Packets -> Rows]
  BY DEF Inv, Types, Jobs
<1> QED BY <1>1, <1>2, EarlierTrans, StatusStays

LEMMA CommitStatus ==
  ASSUME Inv, StatusInv, RevisedHeights = {0}, NEW c \in Chains, Commit(c)
  PROVE  \A p \in Packets : Found(row'[p]) => StatusFits(row'[p], p)
<1> DEFINE snapshot == job[c].snapshot
           batch == job[c].batch
           Good(n, tx) == /\ tx \in TxStates /\ NoEmptyRows(tx.table)
                          /\ Statuses(snapshot, tx)
           T == {x \in (0 .. Len(batch)) \X TxStates : Good(x[1], x[2])}
<1>1. /\ Types /\ ChainsInv /\ CursorInv(c) /\ BatchInv(c) /\ NoEmptyRows(row)
      /\ snapshot \in [Packets -> Rows] /\ batch \in Seq(Recs)
      /\ At(c, "storing")
  BY DEF Inv, JobInv, RowsInv, Types, Jobs, Commit
<1>2. /\ job[c].from = height[c] /\ job[c].to \in Nat /\ job[c].from \in Nat \ {0}
  BY <1>1 DEF CursorInv, Types, Jobs, At
<1>3. \A p \in Packets :
        /\ Earlier(snapshot[p], row[p])
        /\ Found(snapshot[p]) => StatusFits(snapshot[p], p)
        /\ Found(row[p]) => StatusGood(row[p], p)
  <2>1. row \in [Packets -> Rows]
    BY <1>1 DEF Types
  <2> QED BY <1>1, <2>1, GoodRow, EarlierSame DEF StatusInv, SnapshotInv
<1>4. <<0, Begin(snapshot)>> \in T
  <2>1. /\ Begin(snapshot) \in TxStates
        /\ Begin(snapshot).table = row /\ Begin(snapshot).view = snapshot
    BY <1>1 DEF Begin, TxStates, Types
  <2>2. Statuses(snapshot, Begin(snapshot))
    BY <2>1 DEF Statuses
  <2> QED BY <1>1, <2>1, <2>2
<1>5. ASSUME NEW n \in 0 .. Len(batch) - 1, NEW tx, <<n, tx>> \in T
      PROVE  <<n + 1, Store(tx, batch[n + 1])>> \in T
  <2> DEFINE rec == batch[n + 1]
             q == rec.pkt
  <2>1. Good(n, tx)
    BY <1>5
  <2>2. n + 1 \in 1 .. Len(batch) /\ rec \in Recs
    BY <1>1
  <2>3. q \in Packets
    BY <2>2 DEF Recs
  <2>4. PICK kind \in Kinds : InRange(c, kind, q) /\ RecordOf(rec, kind)
    BY <1>1, <2>2 DEF BatchInv
  <2>5. Block(kind, q) \in Nat \ {0} /\ Home(kind, q) = c /\ Block(kind, q) >= height[c]
    BY <1>2, <2>4 DEF InRange
  <2>6. kind # "send" => AckCode(q) \in {Success, Fail}
    BY <1>1, <2>3, <2>5, BlockNames DEF ChainsInv, Kinds
  <2>7. \A k \in Kinds : Column(k, row[q]) # 0 => Block(k, q) < height[Home(k, q)]
    BY <2>3 DEF Inv, BehindCursors
  <2>8. Column(kind, row[q]) = 0
    <3>1. height[c] \in Nat
      BY <1>1 DEF Types
    <3> QED BY <2>5, <2>7, <3>1
  <2>9. kind = "send" => row[q].refundHeight = 0
    <3> SUFFICES ASSUME kind = "send", row[q].refundHeight # 0 PROVE FALSE
      OBVIOUS
    <3>1. Column("receivedAck", row[q]) # 0 /\ Home("receivedAck", q) = c /\ SendBlock(q) >= height[c]
      BY <2>5, BlockNames DEF Column, Home
    <3>2. ReceivedAckBlock(q) < height[c]
      BY <2>7, <3>1, BlockNames DEF Kinds
    <3>3. ReceivedAckBlock(q) = row[q].refundHeight
      BY <2>3, <3>1, BlockNames DEF Inv, RowsInv, Fits, Column, Kinds
    <3>4. SendBlock(q) < ReceivedAckBlock(q)
      BY <1>1, <2>3, <3>3 DEF ChainsInv
    <3>5. SendBlock(q) \in Nat /\ ReceivedAckBlock(q) \in Nat /\ height[c] \in Nat
      BY <1>1, <2>3, BlockTypes DEF Types
    <3> QED BY <3>1, <3>2, <3>4, <3>5
  <2>10. Statuses(snapshot, Store(tx, rec))
    BY <1>1, <1>3, <2>1, <2>2, <2>3, <2>4, <2>5, <2>6, <2>8, <2>9, StoreStatus, Zenon
  <2>11. Store(tx, rec) \in TxStates /\ NoEmptyRows(Store(tx, rec).table)
    <3> DEFINE new == Updates(tx.table[q], KeepStatus(rec.cols, tx.view[q]))
               next == Store(tx, rec)
    <3>1. /\ tx.view \in [Packets -> Rows] /\ tx.table \in [Packets -> Rows]
          /\ tx.duplicate \in BOOLEAN
      BY <2>1 DEF TxStates
    <3>2. new \in Rows /\ Found(new)
      <4>1. tx.table[q] \in Rows /\ tx.view[q] \in Rows /\ rec.cols \in Rows /\ Found(rec.cols)
        BY <2>2, <2>3, <3>1 DEF Recs
      <4> QED BY <4>1, UpdatesColumns
    <3>3. \/ next = [view |-> tx.view, table |-> tx.table, duplicate |-> TRUE]
          \/ next = [view |-> [tx.view EXCEPT ![q] = new],
                     table |-> [tx.table EXCEPT ![q] = new],
                     duplicate |-> tx.duplicate]
      BY <2>1, <2>2, StoreStep, Zenon DEF NoEmptyRows
    <3> HIDE DEF new, next
    <3>4. CASE next = [view |-> tx.view, table |-> tx.table, duplicate |-> TRUE]
      <4>1. next \in TxStates /\ next.table = tx.table
        BY <3>1, <3>4 DEF TxStates
      <4> QED BY <2>1, <4>1 DEF next
    <3>5. CASE next = [view |-> [tx.view EXCEPT ![q] = new],
                       table |-> [tx.table EXCEPT ![q] = new],
                       duplicate |-> tx.duplicate]
      <4>1. next \in TxStates /\ next.table = [tx.table EXCEPT ![q] = new]
        BY <2>3, <3>1, <3>2, <3>5 DEF TxStates
      <4>2. NoEmptyRows(next.table)
        BY <2>1, <3>1, <3>2, <4>1 DEF NoEmptyRows
      <4> QED BY <4>1, <4>2 DEF next
    <3> QED BY <3>3, <3>4, <3>5
  <2>12. n + 1 \in 0 .. Len(batch)
    OBVIOUS
  <2> HIDE DEF rec
  <2> QED BY <2>10, <2>11, <2>12 DEF rec
<1>6. <<Len(batch), Transaction(snapshot, batch)>> \in T
  <2>1. Len(batch) \in Nat
    BY <1>1
  <2> HIDE DEF T
  <2> QED BY <1>4, <1>5, <2>1, TransactionInduct
<1>7. Statuses(snapshot, Transaction(snapshot, batch))
  BY <1>6
<1>8. row' = Transaction(snapshot, batch).table
  BY DEF Commit
<1> HIDE DEF snapshot
<1> QED BY <1>3, <1>7, <1>8 DEF Statuses, StatusGood

LEMMA NextGrows ==
  ASSUME Inv, [Next]_vars
  PROVE  BlocksGrow
<1>1. CASE Environment
  BY <1>1, EnvironmentGrows DEF Inv, ChainsGrow
<1>2. CASE ~Environment
  <2>1. UNCHANGED chain
    BY <1>2 DEF Next, Boot, Crash, Work, JobFails, ChooseRange, TickTooEarly, Fetch, ReadRow,
                Panic, BeginTx, Commit, DuplicateKey, vars
  <2> QED BY <2>1, SameBlocks, SMTT(60)
<1> QED BY <1>1, <1>2

(* No step but BeginTx takes a snapshot. *)
LEMMA NextSnapshots ==
  ASSUME Types, [Next]_vars, NEW c \in Chains
  PROVE  \/ job'[c] = job[c]
         \/ job'[c].stage # "storing"
         \/ job'[c].snapshot = row /\ row' = row
<1>1. CASE Environment \/ UNCHANGED vars
  BY <1>1 DEF Environment, Mine, SendPacket, WriteAck, AcknowledgePacket, Append1, vars
<1>2. CASE Boot \/ Crash
  BY <1>2, IdleIsJob DEF Boot, Crash
<1>3. ASSUME NEW d \in Chains, d # c, Work(d) \/ JobFails(d)
      PROVE  job'[c] = job[c]
  BY <1>3 DEF Types, SetJob, Work, JobFails, ChooseRange, TickTooEarly, Fetch, ReadRow, Panic,
              BeginTx, Commit, DuplicateKey, vars
<1>4. CASE Work(c) \/ JobFails(c)
  <2>1. job[c] \in Jobs /\ DOMAIN job = Chains
    BY DEF Types
  <2>2. CASE Panic(c) \/ Commit(c) \/ DuplicateKey(c) \/ JobFails(c)
    BY <2>1, <2>2, IdleIsJob DEF Panic, Commit, DuplicateKey, JobFails, SetJob, Types
  <2>3. CASE TickTooEarly(c)
    BY <2>3 DEF TickTooEarly, vars
  <2>4. CASE ChooseRange(c)
    <3>1. \E a, b, d : job'[c] = [Idle EXCEPT !.stage = "fetching", !.from = a, !.to = b, !.next = d]
      BY <2>1, <2>4 DEF ChooseRange, SetJob, Types
    <3> QED BY <3>1, IdleIsJob DEF Jobs
  <2>5. CASE Fetch(c)
    <3>1. \E a : job'[c] = [job[c] EXCEPT !.stage = "reading", !.todo = a]
      BY <2>1, <2>5 DEF Fetch, SetJob, Types
    <3> QED BY <2>1, <3>1 DEF Jobs
  <2>6. CASE ReadRow(c)
    <3>1. \E a, b : job'[c] = [job[c] EXCEPT !.todo = a, !.batch = b]
      <4>1. PICK x \in job[c].todo :
              SetJob(c, [job[c] EXCEPT
                !.todo = @ \ {x},
                !.batch = IF Keeps(c, x.event)
                          THEN Append(@, Record(row[x.event.pkt], x.event, x.height))
                          ELSE @])
        BY <2>6 DEF ReadRow
      <4>2. job'[c] = [job[c] EXCEPT
                !.todo = @ \ {x},
                !.batch = IF Keeps(c, x.event)
                          THEN Append(@, Record(row[x.event.pkt], x.event, x.height))
                          ELSE @]
        BY <2>1, <4>1, Zenon DEF SetJob, Types
      <4> QED BY <4>2
    <3>2. job[c].stage = "reading"
      BY <2>6 DEF ReadRow, At
    <3> QED BY <2>1, <3>1, <3>2 DEF Jobs
  <2>7. CASE BeginTx(c)
    <3>1. job'[c] = [job[c] EXCEPT !.stage = "storing", !.snapshot = row] /\ row' = row
      BY <2>1, <2>7 DEF BeginTx, SetJob, Types
    <3> QED BY <2>1, <3>1 DEF Jobs
  <2> QED BY <1>4, <2>2, <2>3, <2>4, <2>5, <2>6, <2>7 DEF Work
<1> QED BY <1>1, <1>2, <1>3, <1>4 DEF Next

LEMMA StatusNext ==
  ASSUME RevisedHeights = {0}, Inv, StatusInv, [Next]_vars
  PROVE  StatusInv'
<1>1. Types /\ row \in [Packets -> Rows] /\ BlocksGrow /\ NoEmptyRows(row)
  BY NextGrows DEF Inv, Types, RowsInv
<1>2. \A p \in Packets : Found(row[p]) => StatusFits(row[p], p)
  BY DEF StatusInv
<1>3. CASE \E c \in Chains : Commit(c)
  <2>1. PICK c \in Chains : Commit(c)
    BY <1>3
  <2>2. \A p \in Packets : Earlier(row[p], row'[p])
    BY <2>1, CommitColumns DEF Earlier
  <2>3. \A p \in Packets : Found(row'[p]) => StatusFits(row'[p], p)
    BY <2>1, CommitStatus
  <2>4. chain' = chain
    BY <2>1 DEF Commit
  <2>5. \A p : AckCode(p)' = AckCode(p)
    BY <2>4 DEF AckCode, AckBlock, BlockOf
  <2>6. \A p \in Packets : (Found(row[p]) => StatusFits(row[p], p))'
    BY <2>3, <2>5 DEF StatusFits, Found
  <2>7. ASSUME NEW d \in Chains PROVE SnapshotInv(d)'
    <3>1. CASE job'[d] = job[d]
      BY <1>1, <2>2, <3>1, SnapshotStays DEF StatusInv
    <3>2. CASE job'[d].stage # "storing"
      BY <3>2 DEF SnapshotInv, At
    <3>3. job'[d] = job[d] \/ job'[d].stage # "storing"
      BY <2>1, <1>1, IdleIsJob DEF Commit, SetJob, Types
    <3> QED BY <3>1, <3>2, <3>3
  <2> QED BY <2>6, <2>7, Zenon DEF StatusInv
<1>4. CASE ~\E c \in Chains : Commit(c)
  <2>1. row' = row
    BY <1>4, OnlyCommitsWrite DEF vars
  <2>2. \A p \in Packets : Found(row[p]) => StatusFits(row[p], p)'
    <3> SUFFICES ASSUME NEW p \in Packets, Found(row[p]) PROVE StatusFits(row[p], p)'
      OBVIOUS
    <3>1. row[p].destHeight # 0 => AckCode(p)' = AckCode(p)
      BY <1>1, <1>2, GoodRow, EarlierSame DEF BlocksGrow
    <3> QED BY <1>2, <2>1, <3>1, SMT DEF StatusFits
  <2>3. ASSUME NEW d \in Chains PROVE SnapshotInv(d)'
    <3>1. CASE job'[d] = job[d]
      BY <1>1, <2>1, <3>1, SnapshotStays, EarlierSame DEF StatusInv
    <3>2. CASE job'[d].stage # "storing"
      BY <3>2 DEF SnapshotInv, At
    <3>3. CASE job'[d].snapshot = row
      BY <1>1, <2>1, <2>2, <3>3, EarlierSame DEF SnapshotInv, NoEmptyRows, Earlier, Column
    <3> QED BY <1>1, <3>1, <3>2, <3>3, NextSnapshots
  <2> QED BY <2>1, <2>2, <2>3, Zenon DEF StatusInv, Found
<1> QED BY <1>3, <1>4

LEMMA StatusInit == Init => StatusInv
<1> SUFFICES ASSUME Init PROVE StatusInv
  OBVIOUS
<1>1. \A p \in Packets : ~Found(row[p])
  BY NoRowIsRow DEF Init, NoRows
<1>2. \A c \in Chains : ~At(c, "storing")
  BY IdleIsJob DEF Init, At
<1> QED BY <1>1, <1>2 DEF StatusInv, SnapshotInv

(***************************************************************************)
(* Whichever of the two chains' jobs comes first, and however their           *)
(* transactions overlap, the status of a row agrees with its heights: the     *)
(* comparison of packet.go:572 with the row the transaction has read is       *)
(* enough, as long as no RevisedHeight makes a job read a block again.        *)
(***************************************************************************)
THEOREM StatusAgrees ==
  ASSUME LongerThanBatch, RevisedHeights = {0}
  PROVE  Spec => []StatusFitsHeights
<1>1. LongerThanBatch /\ RevisedHeights = {0}
  OBVIOUS
<1>2. Inv /\ StatusInv /\ [Next]_vars => StatusInv'
  BY <1>1, StatusNext
<1>3. StatusInv => StatusFitsHeights
  BY DEF StatusInv, StatusFits, StatusFitsHeights
<1>4. Spec => []Inv
  BY <1>1, SpecInv
<1> QED BY <1>2, <1>3, <1>4, StatusInit, PTL DEF Spec

-----------------------------------------------------------------------------
(* The cursors *)

Saving(c) == job[c].stage \in {"reading", "storing"}

LEMMA CursorStutters ==
  ASSUME NEW c \in Chains,
         job'[c].stage = job[c].stage \/ (Saving(c) /\ Saving(c)'),
         job'[c].from = job[c].from, job'[c].to = job[c].to, job'[c].next = job[c].next,
         chain'[c] = chain[c], height'[c] = height[c], base'[c] = base[c],
         crashes' = crashes
  PROVE  UNCHANGED Cursor(c)!vars
BY DEF Cursor!vars, Saving

LEMMA CursorGrows ==
  ASSUME NEW c \in Chains, ChainGrows(c),
         job'[c] = job[c], height'[c] = height[c], base'[c] = base[c], crashes' = crashes
  PROVE  Cursor(c)!Grow
BY DEF Cursor!Grow, ChainGrows

(* The job of c gives up a range. *)
LEMMA CursorFails ==
  ASSUME NEW c \in Chains, Working(c), job'[c] = Idle,
         chain' = chain, height'[c] = height[c], base'[c] = base[c], crashes' = crashes
  PROVE  Cursor(c)!JobFails
BY DEF Cursor!JobFails, Cursor!Return, Working, Idle

LEMMA CursorCrashes ==
  ASSUME NEW c \in Chains, ~At(c, "down"), job'[c] = Down, crashes < MaxCrashes,
         crashes' = crashes + 1, chain' = chain, height'[c] = height[c], base'[c] = base[c]
  PROVE  Cursor(c)!Crash
BY DEF Cursor!Crash, Cursor!Return, Down, Idle, At

LEMMA CursorChooses ==
  ASSUME Inv, NEW c \in Chains, ChooseRange(c)
  PROVE  Cursor(c)!ChooseRange
<1>1. job'[c] = [Idle EXCEPT !.stage = "fetching", !.from = height[c],
                             !.to = Cursor(c)!RangeEnd(height[c], Len(chain[c])),
                             !.next = Cursor(c)!UpdateHeight(height[c], Len(chain[c]))]
  BY DEF ChooseRange, SetJob, Inv, Types
<1>2. /\ job'[c].stage = "fetching" /\ job'[c].from = height[c]
      /\ job'[c].to = Cursor(c)!RangeEnd(height[c], Len(chain[c]))
      /\ job'[c].next = Cursor(c)!UpdateHeight(height[c], Len(chain[c]))
  BY <1>1 DEF Idle
<1>3. /\ job[c].stage = "idle" /\ height[c] + Cursor(c)!DelayBlock <= Len(chain[c])
      /\ UNCHANGED <<chain, height, base, crashes>>
  BY DEF ChooseRange, At
<1> QED BY <1>2, <1>3 DEF Cursor!ChooseRange

LEMMA CursorFetches ==
  ASSUME Inv, NEW c \in Chains, Fetch(c)
  PROVE  Cursor(c)!GetPackets
<1>1. \E a : job'[c] = [job[c] EXCEPT !.stage = "reading", !.todo = a]
  BY DEF Fetch, SetJob, Inv, Types
<1>2. job[c] \in Jobs /\ CursorInv(c) /\ job[c].stage = "fetching"
      /\ UNCHANGED <<chain, height, base, crashes>>
  BY DEF Inv, Types, JobInv, Fetch, At
<1>3. /\ job'[c].stage = "reading" /\ job'[c].from = job[c].from
      /\ job'[c].to = job[c].to /\ job'[c].next = job[c].next
  BY <1>1, <1>2 DEF Jobs
<1>4. job[c].from \in Nat /\ job[c].to \in Nat /\ Len(chain[c]) \in Nat /\ job[c].to < Len(chain[c])
  BY <1>2 DEF Jobs, CursorInv, Inv, Types
<1>5. (job[c].from .. job[c].to) \cap (0 .. Len(chain[c])) = job[c].from .. job[c].to
  BY <1>4
<1> QED BY <1>2, <1>3, <1>5 DEF Cursor!GetPackets

LEMMA CursorSaves ==
  ASSUME Inv, NEW c \in Chains, Commit(c)
  PROVE  Cursor(c)!SaveToDB
<1>1. /\ job'[c] = Idle /\ height'[c] = job[c].next /\ job[c].stage = "storing"
      /\ UNCHANGED <<chain, base, crashes>>
  BY DEF Inv, Types, Commit, SetJob, At
<1>2. /\ job[c].from = height[c] /\ job[c].next = job[c].to + 1 /\ job[c].from <= job[c].to
      /\ base[c] <= height[c] /\ base[c] \in Nat /\ height[c] \in Nat /\ job[c].to \in Nat
  BY <1>1 DEF Inv, JobInv, CursorInv, Types, Jobs
<1>3. base[c] .. (job[c].next - 1) = (base[c] .. (height[c] - 1)) \cup (job[c].from .. job[c].to)
  BY <1>2
<1>4. /\ job'[c].stage = "idle" /\ job'[c].from = 0 /\ job'[c].to = 0 /\ job'[c].next = 0
  BY <1>1 DEF Idle
<1> QED BY <1>1, <1>3, <1>4 DEF Cursor!SaveToDB, Cursor!Return

LEMMA EmptyRange == \A n \in Nat : n .. (n - 1) = {}
OBVIOUS

LEMMA CursorBoots ==
  ASSUME Inv, Boot, NEW c \in Chains
  PROVE  Cursor(c)!Boot
<1>1. PICK revised \in [Chains -> RevisedHeights] :
        LET placed(d) == revised[d] # 0 \/ height[d] = 0
            at(d) == IF revised[d] # 0 THEN revised[d] ELSE Cursor(d)!FirstHeight
        IN  /\ height' = [d \in Chains |-> IF placed(d) THEN at(d) ELSE height[d]]
            /\ base' = [d \in Chains |-> IF placed(d) THEN at(d) ELSE base[d]]
  BY Zenon DEF Boot
<1>2. /\ revised[c] \in RevisedHeights /\ revised[c] \in Nat
      /\ revised[c] # 0 => height'[c] = revised[c] /\ base'[c] = revised[c]
      /\ revised[c] = 0 /\ height[c] = 0 =>
           height'[c] = Cursor(c)!FirstHeight /\ base'[c] = Cursor(c)!FirstHeight
      /\ revised[c] = 0 /\ height[c] # 0 => height'[c] = height[c] /\ base'[c] = base[c]
  BY <1>1, CursorsOK
<1>3. /\ job[c] = Down /\ job'[c] = Idle /\ UNCHANGED <<chain, crashes>>
  BY DEF Boot, Inv, JobInv, CursorInv
<1>4. /\ job[c].stage = "down" /\ job'[c].stage = "idle"
      /\ job'[c].from = job[c].from /\ job'[c].to = job[c].to /\ job'[c].next = job[c].next
  BY <1>3 DEF Down, Idle
<1>5. Cursor(c)!FirstHeight \in Nat
  BY FirstHeightPositive
<1>6. height'[c] = base'[c] /\ base'[c] \in Nat => base'[c] .. (height'[c] - 1) = {}
  BY EmptyRange
<1> QED BY <1>2, <1>3, <1>4, <1>5, <1>6 DEF Cursor!Boot

LEMMA CursorNext ==
  ASSUME LongerThanBatch, Inv, [Next]_vars, NEW c \in Chains
  PROVE  [Cursor(c)!Next]_(Cursor(c)!vars)
<1>1. CASE Environment
  <2>1. ChainsGrow
    BY <1>1, EnvironmentGrows DEF Inv
  <2>2. /\ UNCHANGED <<height, job, base, crashes>>
        /\ chain'[c] = chain[c] \/ ChainGrows(c)
    BY <2>1 DEF ChainsGrow
  <2>3. CASE chain'[c] = chain[c]
    BY <2>2, <2>3, CursorStutters
  <2>4. CASE ChainGrows(c)
    BY <2>2, <2>4, CursorGrows DEF Cursor!Next
  <2> QED BY <2>2, <2>3, <2>4
<1>2. CASE Boot
  BY <1>2, CursorBoots DEF Cursor!Next
<1>3. CASE Crash
  <2>1. /\ ~At(c, "down") /\ job'[c] = Down /\ crashes < MaxCrashes /\ crashes' = crashes + 1
        /\ UNCHANGED <<chain, height, base>>
    BY <1>3 DEF Crash
  <2> QED BY <2>1, CursorCrashes DEF Cursor!Next
<1>4. CASE UNCHANGED vars
  BY <1>4, CursorStutters DEF vars
<1>5. ASSUME NEW d \in Chains, d # c, Work(d) \/ JobFails(d)
      PROVE  [Cursor(c)!Next]_(Cursor(c)!vars)
  <2>1. job'[c] = job[c] /\ height'[c] = height[c] /\ UNCHANGED <<chain, base, crashes>>
    BY <1>5 DEF Inv, Types, SetJob, Work, JobFails, ChooseRange, TickTooEarly, Fetch, ReadRow,
                Panic, BeginTx, Commit, DuplicateKey, vars
  <2> QED BY <2>1, CursorStutters
<1>6. CASE Work(c) \/ JobFails(c)
  <2>1. job[c] \in Jobs /\ DOMAIN job = Chains
    BY DEF Inv, Types
  <2>2. CASE ChooseRange(c)
    BY <2>2, CursorChooses DEF Cursor!Next
  <2>3. CASE TickTooEarly(c)
    BY <2>3, CursorStutters DEF TickTooEarly, vars
  <2>4. CASE Fetch(c)
    BY <2>4, CursorFetches DEF Cursor!Next
  <2>5. CASE ReadRow(c)
    <3>1. PICK x \in job[c].todo :
            SetJob(c, [job[c] EXCEPT
              !.todo = @ \ {x},
              !.batch = IF Keeps(c, x.event)
                        THEN Append(@, Record(row[x.event.pkt], x.event, x.height))
                        ELSE @])
      BY <2>5 DEF ReadRow
    <3>2. \E a, b : job'[c] = [job[c] EXCEPT !.todo = a, !.batch = b]
      <4>1. job'[c] = [job[c] EXCEPT
              !.todo = @ \ {x},
              !.batch = IF Keeps(c, x.event)
                        THEN Append(@, Record(row[x.event.pkt], x.event, x.height))
                        ELSE @]
        BY <2>1, <3>1, Zenon DEF SetJob
      <4> QED BY <4>1
    <3>3. /\ job'[c].stage = job[c].stage /\ job'[c].from = job[c].from
          /\ job'[c].to = job[c].to /\ job'[c].next = job[c].next
      BY <2>1, <3>2 DEF Jobs
    <3>4. UNCHANGED <<chain, height, base, crashes>>
      BY <2>5 DEF ReadRow
    <3> QED BY <3>3, <3>4, CursorStutters
  <2>6. CASE BeginTx(c)
    <3>1. \E a : job'[c] = [job[c] EXCEPT !.stage = "storing", !.snapshot = a]
      BY <2>1, <2>6 DEF BeginTx, SetJob
    <3>2. /\ job'[c].stage = "storing" /\ job'[c].from = job[c].from
          /\ job'[c].to = job[c].to /\ job'[c].next = job[c].next
      BY <2>1, <3>1 DEF Jobs
    <3>3. Saving(c) /\ Saving(c)' /\ UNCHANGED <<chain, height, base, crashes>>
      BY <2>6, <3>2 DEF BeginTx, At, Saving
    <3> QED BY <3>2, <3>3, CursorStutters
  <2>7. CASE Commit(c)
    BY <2>7, CursorSaves DEF Cursor!Next
  <2>8. CASE Panic(c) \/ DuplicateKey(c) \/ JobFails(c)
    <3>1. /\ Working(c) /\ job'[c] = Idle /\ UNCHANGED <<chain, height, base, crashes>>
      BY <2>1, <2>8 DEF Panic, NextPanics, DuplicateKey, JobFails, SetJob, Working, At
    <3> QED BY <3>1, CursorFails DEF Cursor!Next
  <2> QED BY <1>6, <2>2, <2>3, <2>4, <2>5, <2>6, <2>7, <2>8 DEF Work
<1> QED BY <1>1, <1>2, <1>3, <1>4, <1>5, <1>6 DEF Next

LEMMA CursorInit ==
  ASSUME Init, NEW c \in Chains
  PROVE  Cursor(c)!Init
<1>1. /\ height[c] = 0 /\ base[c] = 0 /\ crashes = 0 /\ job[c] = Down
      /\ chain[c] = [b \in 1 .. FirstHead |-> Empty]
  BY DEF Init
<1>2. Len(chain[c]) = FirstHead
  BY <1>1, CursorsOK
<1>3. job[c].stage = "down" /\ job[c].from = 0 /\ job[c].to = 0 /\ job[c].next = 0
  BY <1>1 DEF Down, Idle
<1>4. 0 .. (0 - 1) = {}
  OBVIOUS
<1> QED BY <1>1, <1>2, <1>3, <1>4 DEF Cursor!Init

(***************************************************************************)
(* The jobs of any number of chains, with their packets, transactions and     *)
(* panics, move each chain's cursor only in the steps SyncHeight allows       *)
(* (syncToDB and saveToDB, packet.go:122-156 and 545-613).                    *)
(***************************************************************************)
THEOREM RefinesSyncHeight == ASSUME LongerThanBatch PROVE Spec => ImplementsSyncHeight
<1>1. LongerThanBatch
  OBVIOUS
<1>2. Init => \A c \in Chains : Cursor(c)!Init
  BY CursorInit
<1>3. Inv /\ [Next]_vars => [\A c \in Chains : [Cursor(c)!Next]_(Cursor(c)!vars)]_vars
  BY <1>1, CursorNext
<1>4. Spec => []Inv
  BY <1>1, SpecInv
<1> QED BY <1>2, <1>3, <1>4, PTL DEF Spec, ImplementsSyncHeight

=============================================================================
