---------------------------- MODULE PacketTable ----------------------------
(***************************************************************************)
(* The table cross_chain_transactions: one row per packet, written by the    *)
(* jobs of the packet's source chain (the send, and later the refund) and of *)
(* its destination chain (the acknowledgement), in whatever order those jobs *)
(* reach the blocks.  A job (jobs/packet/packet.go)                          *)
(*   - chooses a range of blocks                        syncToDB,            *)
(*   - fetches the packets of the range                 GetPackets,          *)
(*   - looks each of them up in the table, outside any transaction, to find  *)
(*     the token's name, and may drop it  saveCrossChainPacketsByHeight,     *)
(*   - stores what is left, with the new cursor, in one transaction that     *)
(*     reads a snapshot                                 saveToDB.            *)
(*                                                                          *)
(* The chains are histories of events: what the packet contracts emit.  The  *)
(* columns kept are those that tell the events apart: whether the row has a  *)
(* token name and an amount, its status, and the heights of send, ack and    *)
(* refund.                                                                   *)
(***************************************************************************)
EXTENDS Integers, Sequences

CONSTANTS
  Chains, Packets,
  Src, Dst,          \* the chains a packet leaves and arrives at
  Teleport,          \* chains read by the Teleport client; the others are EVM chains
  Listed,            \* packets whose token NewBridge found in the bridge lists
  Unbridged,         \* packets whose token is not bridged to their destination
  StartHeight, RevisedHeights, BatchNumber, Word,   \* as in SyncHeight
  FirstHead, MaxHead, MaxCrashes,
  MaxFailures        \* bound: how often a job fails by an outside fault

ASSUME BridgesOK ==
  /\ Src \in [Packets -> Chains] /\ Dst \in [Packets -> Chains]
  /\ \A p \in Packets : Src[p] # Dst[p]
  /\ Teleport \subseteq Chains
  /\ Listed \subseteq Packets /\ Unbridged \subseteq Listed

ASSUME CursorsOK ==
  /\ StartHeight \in Nat /\ RevisedHeights \subseteq Nat
  /\ BatchNumber \in Nat \ {0} /\ Word \in Nat
  /\ FirstHead \in Nat /\ MaxHead \in Nat

(* model.go:11 *)
Pending == 1
Success == 2
Fail == 3
Refund == 4

VARIABLES
  chain,     \* [Chains -> sequence of blocks]
  height,    \* sync_states.height of each chain
  row,       \* cross_chain_transactions, by packet
  job,       \* the job of each chain
  base,      \* history: where the cursor was last placed by configuration
  unread,    \* history: blocks that were read without their transaction
  crashes, failures

vars == <<chain, height, row, job, base, unread, crashes, failures>>

-----------------------------------------------------------------------------
(* The chains *)

Empty == [kind |-> "empty"]
Event(kind, p, code) == [kind |-> kind, pkt |-> p, code |-> code]

IsEvent(block, kind, p) == block.kind = kind /\ block.pkt = p

(* The block of chain c that holds the event, 0 if there is none. *)
BlockOf(c, kind, p) ==
  LET at == {b \in DOMAIN chain[c] : IsEvent(chain[c][b], kind, p)}
  IN  IF at = {} THEN 0 ELSE CHOOSE b \in at : TRUE

SendBlock(p) == BlockOf(Src[p], "send", p)
AckBlock(p) == BlockOf(Dst[p], "ack", p)
ReceivedAckBlock(p) == BlockOf(Src[p], "receivedAck", p)
AckCode(p) == chain[Dst[p]][AckBlock(p)].code

(* A block is appended, one event at most; the last one stays empty so that  *)
(* every event gets the block on top of it that the jobs wait for.           *)
Append1(c, block) ==
  /\ Len(chain[c]) < (IF block = Empty THEN MaxHead ELSE MaxHead - 1)
  /\ chain' = [chain EXCEPT ![c] = Append(@, block)]
  /\ UNCHANGED <<height, row, job, base, unread, crashes, failures>>

Mine(c) == Append1(c, Empty)

SendPacket(p) ==
  /\ SendBlock(p) = 0
  /\ Append1(Src[p], Event("send", p, Pending))

WriteAck(p) ==
  /\ SendBlock(p) # 0 /\ AckBlock(p) = 0
  /\ \E code \in {Success, Fail} : Append1(Dst[p], Event("ack", p, code))

AcknowledgePacket(p) ==
  /\ AckBlock(p) # 0 /\ ReceivedAckBlock(p) = 0
  /\ Append1(Src[p], Event("receivedAck", p, AckCode(p)))

-----------------------------------------------------------------------------
(* The table *)

(* No row, or a row that has no column set yet. *)
NoRow == [token |-> FALSE, amount |-> FALSE, status |-> 0,
          srcHeight |-> 0, destHeight |-> 0, refundHeight |-> 0]
Found(r) == r.status # 0

Rows == [token : BOOLEAN, amount : BOOLEAN, status : 0 .. Refund,
         srcHeight : Nat, destHeight : Nat, refundHeight : Nat]

(***************************************************************************)
(* The CrossChainTransaction a job builds from a send, an ack or a received   *)
(* ack in block b.  r is the row the job has looked up: the record carries    *)
(* the token's name and the amount only when the row has none.                *)
(***************************************************************************)
SendRecordNoStatus(r, b) ==
  [NoRow EXCEPT !.token = ~r.token, !.amount = ~r.amount, !.srcHeight = b]
SendRecordAlwaysAmount(r, b) ==
  [NoRow EXCEPT !.token = ~r.token, !.amount = TRUE,
                !.status = Pending, !.srcHeight = b]

SendRecord(r, b) ==
  [NoRow EXCEPT !.token = ~r.token, !.amount = ~r.amount,
                !.status = Pending, !.srcHeight = b]

AckRecord(r, e, b) ==
  [NoRow EXCEPT !.token = ~r.token, !.status = e.code, !.destHeight = b]

RefundRecord(b) ==
  [NoRow EXCEPT !.status = Refund, !.refundHeight = b]

Record(r, e, b) ==
  [pkt |-> e.pkt,
   cols |-> CASE e.kind = "send" -> SendRecord(r, b)
              [] e.kind = "ack" -> AckRecord(r, e, b)
              [] e.kind = "receivedAck" -> RefundRecord(b)]

SaveAllColumns(r, cols) == cols

(* GORM's Updates writes the columns that are not zero. *)
Updates(r, cols) ==
  [token        |-> r.token \/ cols.token,
   amount       |-> r.amount \/ cols.amount,
   status       |-> cols.status,
   srcHeight    |-> IF cols.srcHeight # 0 THEN cols.srcHeight ELSE r.srcHeight,
   destHeight   |-> IF cols.destHeight # 0 THEN cols.destHeight ELSE r.destHeight,
   refundHeight |->
     IF cols.refundHeight # 0 THEN cols.refundHeight ELSE r.refundHeight]

(* packet.go:572: the record keeps the row's status when that is higher. *)
KeepStatusOff(cols, found) == cols
KeepStatus(cols, found) ==
  IF cols.status < found.status THEN [cols EXCEPT !.status = found.status]
  ELSE cols

(***************************************************************************)
(* One record of saveToDB's transaction.  tx.view is what the transaction    *)
(* sees, its snapshot and its own writes; tx.table what it leaves behind.    *)
(* An INSERT of a row that another job committed after the snapshot breaks   *)
(* the unique index ck_t.                                                    *)
(***************************************************************************)
Store(tx, rec) ==
  LET p == rec.pkt
      found == tx.view[p]
      new == IF Found(found)
             THEN Updates(tx.table[p], KeepStatus(rec.cols, found))
             ELSE Updates(NoRow, rec.cols)
  IN  IF ~Found(found) /\ Found(tx.table[p])
      THEN [tx EXCEPT !.duplicate = TRUE]
      ELSE [tx EXCEPT !.view[p] = new, !.table[p] = new]

Transaction(snapshot, batch) ==
  LET tx[n \in 0 .. Len(batch)] ==
        IF n = 0 THEN [view |-> snapshot, table |-> row, duplicate |-> FALSE]
        ELSE Store(tx[n - 1], batch[n])
  IN  tx[Len(batch)]

-----------------------------------------------------------------------------
(* The clients: what GetPackets(a, b) of chain c returns *)

EventsIn(c, a, b, kind) ==
  {[event |-> chain[c][h], height |-> h] : h \in {h \in a .. b : chain[c][h].kind = kind}}

GetSends(c, a, b) == EventsIn(c, a, b, "send")
GetAckPackets(c, a, b) == EventsIn(c, a, b, "ack")
GetReceivedAcksAny(c, a, b) == EventsIn(c, a, b, "receivedAck")
(* Only the acknowledgement of a failure is a refund. *)
GetReceivedAcks(c, a, b) ==
  {x \in EventsIn(c, a, b, "receivedAck") : x.event.code = Fail}

GetPackets(c, a, b) ==
  GetSends(c, a, b) \cup GetAckPackets(c, a, b) \cup GetReceivedAcks(c, a, b)

(***************************************************************************)
(* Their order.  The EVM client returns one group for the range, Teleport one *)
(* per block; a group has its sends first, then its acks, then its received   *)
(* acks.                                                                     *)
(***************************************************************************)
Rank == [send |-> 1, ack |-> 2, receivedAck |-> 3]
Before(c, x, y) ==
  \/ c \notin Teleport /\ Rank[x.event.kind] < Rank[y.event.kind]
  \/ (c \in Teleport \/ x.event.kind = y.event.kind) /\ x.height < y.height

First(c, x) == \A y \in job[c].todo \ {x} : Before(c, x, y)

-----------------------------------------------------------------------------
(* The jobs *)

Stages == {"down", "idle", "fetching", "reading", "storing"}

NoRows == [p \in Packets |-> NoRow]
Idle == [stage |-> "idle", from |-> 0, to |-> 0, next |-> 0,
         todo |-> {}, batch |-> <<>>, snapshot |-> NoRows]
Down == [Idle EXCEPT !.stage = "down"]

(* The cursor of chain c, as SyncHeight describes it. *)
Cursor(c) == INSTANCE SyncHeight
  WITH RejectsFuture <- FALSE,
       height <- height[c], head <- Len(chain[c]),
       stage <- IF job[c].stage \in {"reading", "storing"} THEN "saving"
                ELSE job[c].stage,
       from <- job[c].from, to <- job[c].to, next <- job[c].next,
       got <- IF job[c].stage \in {"reading", "storing"}
              THEN job[c].from .. job[c].to ELSE {},
       synced <- base[c] .. (height[c] - 1), base <- base[c]

At(c, stage) == job[c].stage = stage
SetJob(c, j) == job' = [job EXCEPT ![c] = j]

Init ==
  /\ chain = [c \in Chains |-> [b \in 1 .. FirstHead |-> Empty]]
  /\ height = [c \in Chains |-> 0]
  /\ row = NoRows
  /\ job = [c \in Chains |-> Down]
  /\ base = [c \in Chains |-> 0]
  /\ unread = [c \in Chains |-> {}]
  /\ crashes = 0 /\ failures = 0

(* SyncToDB places every chain's cursor, then the scheduler starts. *)
Boot ==
  /\ \A c \in Chains : At(c, "down")
  /\ \E revised \in [Chains -> RevisedHeights] :
       LET placed(c) == revised[c] # 0 \/ height[c] = 0
           at(c) == IF revised[c] # 0 THEN revised[c] ELSE Cursor(c)!FirstHeight
       IN  /\ height' = [c \in Chains |-> IF placed(c) THEN at(c) ELSE height[c]]
           /\ base' = [c \in Chains |-> IF placed(c) THEN at(c) ELSE base[c]]
  /\ job' = [c \in Chains |-> Idle]
  /\ UNCHANGED <<chain, row, unread, crashes, failures>>

ChooseRange(c) ==
  LET head == Len(chain[c])
  IN  /\ At(c, "idle")
      /\ height[c] + Cursor(c)!DelayBlock <= head
      /\ SetJob(c, [Idle EXCEPT !.stage = "fetching",
                                !.from = height[c],
                                !.to = Cursor(c)!RangeEnd(height[c], head),
                                !.next = Cursor(c)!UpdateHeight(height[c], head)])
      /\ UNCHANGED <<chain, height, row, base, unread, crashes, failures>>

TickTooEarly(c) ==
  /\ At(c, "idle")
  /\ height[c] + Cursor(c)!DelayBlock > Len(chain[c])
  /\ UNCHANGED vars

(***************************************************************************)
(* The Teleport client goes on without a transaction when GetTx fails for it, *)
(* leaves out what is not in its first log, and drops events it cannot parse, *)
(* all without an error: any of the blocks may come without its event.        *)
(* BlockFetch has each of these cases.                                        *)
(***************************************************************************)
MayGoUnread(c, packets) ==
  IF c \in Teleport THEN {x.height : x \in packets} ELSE {}

Fetch(c) ==
  LET range == job[c].from .. job[c].to
      packets == GetPackets(c, job[c].from, job[c].to)
  IN  /\ At(c, "fetching")
      /\ \E skipped \in SUBSET MayGoUnread(c, packets) :
           /\ SetJob(c, [job[c] EXCEPT
                !.stage = "reading",
                !.todo = {x \in packets : x.height \notin skipped}])
           /\ unread' = [unread EXCEPT ![c] = (@ \ range) \cup skipped]
      /\ UNCHANGED <<chain, height, row, base, crashes, failures>>

KnowsTokenOfSend(c, e) ==
  row[e.pkt].token \/ (e.pkt \in Listed /\ e.kind = "send")

(***************************************************************************)
(* Whether the job knows the packet's token: from the row, or else from the   *)
(* address in the event.  The EVM client leaves the address of an ack empty.  *)
(***************************************************************************)
KnowsToken(c, e) ==
  \/ row[e.pkt].token
  \/ e.pkt \in Listed /\ (e.kind = "send" \/ c \in Teleport)

(* A received ack is kept in any case. *)
Keeps(c, e) == e.kind = "receivedAck" \/ KnowsToken(c, e)

(* BridgeTokenMap has no entry for the packet: a nil dereference. *)
Panics(c, e) == e.kind = "send" /\ KnowsToken(c, e) /\ e.pkt \in Unbridged

(* The next record of the batch is looked up, and kept or skipped. *)
ReadRow(c) ==
  /\ At(c, "reading")
  /\ \E x \in job[c].todo :
       LET keep == Keeps(c, x.event)
       IN  /\ First(c, x)
           /\ ~Panics(c, x.event)
           /\ SetJob(c, [job[c] EXCEPT
                !.todo = @ \ {x},
                !.batch = IF keep
                          THEN Append(@, Record(row[x.event.pkt], x.event, x.height))
                          ELSE @])
  /\ UNCHANGED <<chain, height, row, base, unread, crashes, failures>>

NextPanics(c) ==
  At(c, "reading") /\ \E x \in job[c].todo : First(c, x) /\ Panics(c, x.event)

PanicKillsProcess(c) ==
  /\ NextPanics(c)
  /\ job' = [d \in Chains |-> Down]
  /\ UNCHANGED <<chain, height, row, base, unread, crashes, failures>>

(* The job's recover catches the panic; the range will be tried again. *)
Panic(c) ==
  /\ NextPanics(c)
  /\ SetJob(c, Idle)
  /\ UNCHANGED <<chain, height, row, base, unread, crashes, failures>>

(* The transaction's first read fixes its snapshot (REPEATABLE READ). *)
BeginTx(c) ==
  /\ At(c, "reading") /\ job[c].todo = {}
  /\ SetJob(c, [job[c] EXCEPT !.stage = "storing", !.snapshot = row])
  /\ UNCHANGED <<chain, height, row, base, unread, crashes, failures>>

CommitRangeEnd(c) ==
  /\ At(c, "storing")
  /\ LET tx == Transaction(job[c].snapshot, job[c].batch)
     IN  ~tx.duplicate /\ row' = tx.table
  /\ height' = [height EXCEPT ![c] = job[c].to]
  /\ SetJob(c, Idle)
  /\ UNCHANGED <<chain, base, unread, crashes, failures>>

(***************************************************************************)
(* COMMIT.  Row locks are held to the end, so that the writes of conflicting *)
(* transactions are applied in the order of their commits; what a            *)
(* transaction writes was computed from its snapshot.                        *)
(***************************************************************************)
Commit(c) ==
  /\ At(c, "storing")
  /\ LET tx == Transaction(job[c].snapshot, job[c].batch)
     IN  ~tx.duplicate /\ row' = tx.table
  /\ height' = [height EXCEPT ![c] = job[c].next]
  /\ SetJob(c, Idle)
  /\ UNCHANGED <<chain, base, unread, crashes, failures>>

DuplicateKeyIgnored(c) ==
  /\ At(c, "storing")
  /\ Transaction(job[c].snapshot, job[c].batch).duplicate
  /\ height' = [height EXCEPT ![c] = job[c].next]
  /\ SetJob(c, Idle)
  /\ UNCHANGED <<chain, row, base, unread, crashes, failures>>

(* The unique index refuses an INSERT: the transaction is rolled back. *)
DuplicateKey(c) ==
  /\ At(c, "storing")
  /\ Transaction(job[c].snapshot, job[c].batch).duplicate
  /\ SetJob(c, Idle)
  /\ UNCHANGED <<chain, height, row, base, unread, crashes, failures>>

(* A call to the chain or to the database fails. *)
JobFails(c) ==
  /\ job[c].stage \in {"fetching", "reading", "storing"}
  /\ failures < MaxFailures
  /\ failures' = failures + 1
  /\ SetJob(c, Idle)
  /\ UNCHANGED <<chain, height, row, base, unread, crashes>>

(* The process dies, with the jobs of all chains. *)
Crash ==
  /\ \A c \in Chains : ~At(c, "down")
  /\ crashes < MaxCrashes
  /\ crashes' = crashes + 1
  /\ job' = [c \in Chains |-> Down]
  /\ UNCHANGED <<chain, height, row, base, unread, failures>>

Environment ==
  \/ \E c \in Chains : Mine(c)
  \/ \E p \in Packets : SendPacket(p) \/ WriteAck(p) \/ AcknowledgePacket(p)

Work(c) ==
  \/ ChooseRange(c) \/ TickTooEarly(c)
  \/ Fetch(c)
  \/ ReadRow(c) \/ Panic(c)
  \/ BeginTx(c) \/ Commit(c) \/ DuplicateKey(c)

Next ==
  \/ Environment
  \/ Boot
  \/ \E c \in Chains : Work(c) \/ JobFails(c)
  \/ Crash

Spec == Init /\ [][Next]_vars

(* The chains grow, a dead process is restarted, the scheduler keeps running *)
(* the jobs; outside faults are finitely many (MaxFailures, MaxCrashes).     *)
FairSpec ==
  /\ Spec
  /\ WF_vars(Boot)
  /\ \A c \in Chains : WF_vars(Mine(c)) /\ WF_vars(Work(c))

-----------------------------------------------------------------------------
(* Properties *)

TypeOK ==
  /\ row \in [Packets -> Rows]
  /\ \A p \in Packets : ~Found(row[p]) => row[p] = NoRow
  /\ height \in [Chains -> Nat] /\ base \in [Chains -> Nat]
  /\ unread \in [Chains -> SUBSET Nat]
  /\ \A c \in Chains :
       /\ job[c].stage \in Stages
       /\ height[c] = 0 => At(c, "down")
       /\ job[c].snapshot \in [Packets -> Rows]

(* The jobs move the cursors the way SyncHeight promises, chain by chain. *)
ImplementsSyncHeight ==
  /\ \A c \in Chains : Cursor(c)!Init
  /\ [][\A c \in Chains : [Cursor(c)!Next]_(Cursor(c)!vars)]_vars

(* The cursor has passed block b since it was last placed, and ... *)
Stored(c, b) == b # 0 /\ base[c] <= b /\ b < height[c]
(* ... the client had returned its event, or had passed it over. *)
Taken(c, b) == Stored(c, b) /\ b \notin unread[c]
PassedOver(c, b) == Stored(c, b) /\ b \in unread[c]

(***************************************************************************)
(* Nothing that a client has returned and the cursor has passed is missing    *)
(* from the table: a listed packet's send with its amount, every refund, and  *)
(* every ack that Teleport wrote for a listed packet (saveToDB,               *)
(* packet.go:545-613), whatever is rolled back, retried or read again.  What  *)
(* the Teleport client passes over without an error (teleport.go:196, 206,    *)
(* 415) is missing for good; the acks of EVM chains are the subject of        *)
(* ReceivedNotPending.                                                        *)
(***************************************************************************)
NothingMissed ==
  \A p \in Packets :
    /\ p \in Listed /\ Taken(Src[p], SendBlock(p))
         => row[p].srcHeight = SendBlock(p) /\ row[p].amount
    /\ p \in Listed /\ Dst[p] \in Teleport /\ Taken(Dst[p], AckBlock(p))
         => row[p].destHeight = AckBlock(p)
    /\ /\ Taken(Src[p], ReceivedAckBlock(p)) /\ AckCode(p) = Fail
         => row[p].refundHeight = ReceivedAckBlock(p)

(***************************************************************************)
(* Nothing in the table is ahead of the cursors or of the chains: each height *)
(* column is the block of its event, and, when no cursor is taken back, that  *)
(* block lies below the cursor it was committed with (packet.go:546-611).     *)
(***************************************************************************)
NothingInvented ==
  LET from(c, column, b) ==
        column # 0 => column = b /\ (RevisedHeights = {0} => b < height[c])
  IN  \A p \in Packets :
        /\ from(Src[p], row[p].srcHeight, SendBlock(p))
        /\ from(Dst[p], row[p].destHeight, AckBlock(p))
        /\ from(Src[p], row[p].refundHeight, ReceivedAckBlock(p))
        /\ row[p].refundHeight # 0 => AckCode(p) = Fail

(***************************************************************************)
(* The status agrees with the heights next to it: a refund shows as a refund  *)
(* or (when the ack's transaction overlapped the refund's) as the failure it   *)
(* follows, an ack alone as its code, a send alone as pending, whichever of    *)
(* the two jobs came first (packet.go:570-578), as long as no block is read    *)
(* again.                                                                     *)
(***************************************************************************)
StatusFitsHeights ==
  \A p \in Packets :
    Found(row[p]) =>
      \/ row[p].refundHeight # 0 /\ row[p].status \in {Fail, Refund}
      \/ /\ row[p].refundHeight = 0 /\ row[p].destHeight # 0
         /\ row[p].status = AckCode(p)
      \/ /\ row[p].refundHeight = 0 /\ row[p].destHeight = 0
         /\ row[p].status = Pending

(***************************************************************************)
(* What one chain contributed to a row stays there: no later write, by the    *)
(* other chain's job or by a job that reads old blocks again after a          *)
(* RevisedHeight, wipes or changes a height column (packet.go:571-577).       *)
(***************************************************************************)
ColumnsStay ==
  [][LET kept(column, new) == column # 0 => new = column
     IN  \A p \in Packets :
           /\ kept(row[p].srcHeight, row'[p].srcHeight)
           /\ kept(row[p].destHeight, row'[p].destHeight)
           /\ kept(row[p].refundHeight, row'[p].refundHeight)]_vars

(* No packet sent from chain c makes its job panic. *)
Healthy(c) == \A p \in Unbridged : Src[p] # c

(***************************************************************************)
(* A packet that Teleport has acknowledged does not stay pending, unless the  *)
(* client has passed the acknowledgement over (teleport.go:196).              *)
(***************************************************************************)
AckedSettles ==
  \A p \in Packets :
    p \in Listed /\ Dst[p] \in Teleport /\ Healthy(Dst[p]) =>
      (AckBlock(p) # 0 ~> \/ row[p].status \in {Success, Fail, Refund}
                          \/ PassedOver(Dst[p], AckBlock(p)))

(***************************************************************************)
(* A refund on the chain reaches the table, even when the job of the other    *)
(* chain panics on every run (recover, packet.go:103), unless the client has  *)
(* passed it over (teleport.go:196).                                          *)
(***************************************************************************)
RefundArrives ==
  \A p \in Packets : Healthy(Src[p]) =>
    (ReceivedAckBlock(p) # 0 /\ AckCode(p) = Fail)
      ~> (row[p].refundHeight # 0 \/ PassedOver(Src[p], ReceivedAckBlock(p)))

(***************************************************************************)
(* bridges.go:147-151 counts every row with status 1 (Pending) as an           *)
(* "unReceived packet": once the service has read the blocks of both the send  *)
(* and the ack, the row is no longer pending.                                 *)
(***************************************************************************)
ReceivedNotPending ==
  \A p \in Listed :
    Stored(Src[p], SendBlock(p)) /\ Stored(Dst[p], AckBlock(p))
      => row[p].status # Pending

=============================================================================
