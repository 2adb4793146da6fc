----------------------------- MODULE SyncHeight -----------------------------
(***************************************************************************)
(* The block cursor of one chain: the row of sync_states that says which    *)
(* block the chain's job reads next.  SyncToDB (jobs/packet/packet.go:75)   *)
(* places the cursor when the process boots, and the chain's scheduled job, *)
(* syncToDB (packet.go:122), then moves it: it compares the cursor with the *)
(* chain's latest height, chooses a range of blocks, fetches their packets  *)
(* and, in one transaction, stores them and writes the new cursor.          *)
(*                                                                          *)
(* Packets are abstracted away: a block is its number, and `synced` (a      *)
(* history variable) records which blocks have been stored since the        *)
(* cursor was last placed by configuration.  PacketTable.tla fills in the   *)
(* packets and is shown to implement this module, chain by chain.           *)
(***************************************************************************)
EXTENDS Integers

CONSTANTS
  StartHeight,     \* chain.StartHeight(): where a chain without a cursor starts
  RevisedHeights,  \* the values chain.RevisedHeight() may have at a boot; 0 = unset
  BatchNumber,     \* chain.GetBatchNumber(): the most blocks one range covers
  RejectsFuture,   \* GetPackets fails on a block that does not exist yet
  Word,            \* 2^64 in the code: unsigned arithmetic wraps around at Word
  FirstHead,       \* the latest height of the chain when the service first boots
  MaxHead,         \* bound: the chain stops growing at this height
  MaxCrashes       \* bound: how often the process dies

ASSUME ConstantsOK ==
  /\ StartHeight \in Nat
  /\ RevisedHeights \subseteq Nat
  /\ BatchNumber \in Nat \ {0}     \* packet.go:99 refuses to start otherwise
  /\ RejectsFuture \in BOOLEAN
  /\ Word \in Nat
  /\ FirstHead \in Nat /\ MaxHead \in Nat
  /\ MaxCrashes \in Nat

VARIABLES
  height,    \* sync_states.height; 0 = no row yet
  head,      \* the chain's latest height
  stage,     \* where the process and the job are
  from, to,  \* the range the job works on
  next,      \* updateHeight: the cursor to write with the range's packets
  got,       \* the blocks GetPackets has read
  synced,    \* history: blocks stored since the cursor was last placed
  base,      \* history: where the cursor was last placed
  crashes

vars == <<height, head, stage, from, to, next, got, synced, base, crashes>>

Stages == {"down", "idle", "fetching", "saving"}

DelayBlock == 1

-----------------------------------------------------------------------------
(* uint64 arithmetic *)

Minus(a, b) == IF a >= b THEN a - b ELSE a - b + Word

(* A missing StartHeight is 0, which GORM stores as the column's default, 1. *)
FirstHeightNoDefault == StartHeight
FirstHeight == IF StartHeight = 0 THEN 1 ELSE StartHeight

(***************************************************************************)
(* The range syncToDB chooses from the cursor h and the chain height c.     *)
(***************************************************************************)
FullBatch(h, c) == Minus(Minus(c, BatchNumber), DelayBlock) > h

RangeEndAtHead(h, c) == IF FullBatch(h, c) THEN h + BatchNumber - 1 ELSE c
RangeEnd(h, c) ==
  IF FullBatch(h, c) THEN h + BatchNumber - 1 ELSE c - DelayBlock

UpdateHeightSkipping(h, c) ==
  IF FullBatch(h, c) THEN h + BatchNumber ELSE c + 1
UpdateHeight(h, c) ==
  IF FullBatch(h, c) THEN h + BatchNumber ELSE c - DelayBlock + 1

-----------------------------------------------------------------------------
TypeOK ==
  /\ height \in Nat /\ head \in Nat
  /\ stage \in Stages
  /\ from \in Nat /\ to \in Nat /\ next \in Nat
  /\ got \subseteq Nat /\ synced \subseteq Nat
  /\ base \in Nat /\ crashes \in Nat
  /\ height = 0 => stage = "down"     \* a running job has a cursor

Init ==
  /\ height = 0
  /\ head = FirstHead
  /\ stage = "down"
  /\ from = 0 /\ to = 0 /\ next = 0
  /\ got = {}
  /\ synced = {} /\ base = 0
  /\ crashes = 0

(* The chain produces a block. *)
Grow ==
  /\ head < MaxHead
  /\ head' = head + 1
  /\ UNCHANGED <<height, stage, from, to, next, got, synced, base, crashes>>

(* syncToDB returns: its locals are gone. *)
Return == from' = 0 /\ to' = 0 /\ next' = 0 /\ got' = {}

(***************************************************************************)
(* SyncToDB: a RevisedHeight replaces the stored cursor at every boot that   *)
(* finds one in the configuration, StartHeight only a missing cursor.       *)
(***************************************************************************)
Boot ==
  /\ stage = "down"
  /\ \E revised \in RevisedHeights :
       \/ /\ revised # 0
          /\ height' = revised /\ base' = revised /\ synced' = {}
       \/ /\ revised = 0 /\ height = 0
          /\ height' = FirstHeight /\ base' = FirstHeight /\ synced' = {}
       \/ /\ revised = 0 /\ height # 0
          /\ UNCHANGED <<height, base, synced>>
  /\ stage' = "idle"
  /\ UNCHANGED <<head, from, to, next, got, crashes>>

(***************************************************************************)
(* syncToDB up to the call of saveCrossChainPacketsByHeight.                 *)
(***************************************************************************)
ChooseWholeBatch ==
  /\ stage = "idle"
  /\ FullBatch(height, head)
  /\ from' = height /\ to' = RangeEnd(height, head) /\ next' = UpdateHeight(height, head)
  /\ stage' = "fetching"
  /\ UNCHANGED <<height, head, got, synced, base, crashes>>

ChooseRange ==
  /\ stage = "idle"
  /\ height + DelayBlock <= head
  /\ from' = height
  /\ to' = RangeEnd(height, head)
  /\ next' = UpdateHeight(height, head)
  /\ stage' = "fetching"
  /\ UNCHANGED <<height, head, got, synced, base, crashes>>

(* The early return of syncToDB: the cursor is not below the head yet. *)
TickTooEarly ==
  /\ stage = "idle"
  /\ height + DelayBlock > head
  /\ UNCHANGED vars

(***************************************************************************)
(* GetPackets(from, to).  An EVM node answers a log query that reaches       *)
(* beyond its head with the logs it has; Teleport's block query fails.       *)
(***************************************************************************)
GetPackets ==
  /\ stage = "fetching"
  /\ RejectsFuture => to <= head
  /\ got' = (from .. to) \cap (0 .. head)
  /\ stage' = "saving"
  /\ UNCHANGED <<height, head, from, to, next, synced, base, crashes>>

(* saveToDB commits: the packets and the cursor in one transaction. *)
SaveToDB ==
  /\ stage = "saving"
  /\ synced' = synced \cup got
  /\ height' = next
  /\ stage' = "idle"
  /\ Return
  /\ UNCHANGED <<head, base, crashes>>

(* A call failed, the transaction rolled back or the job's recover caught a *)
(* panic: the next tick starts over from the stored cursor.                  *)
JobFails ==
  /\ stage \in {"fetching", "saving"}
  /\ stage' = "idle"
  /\ Return
  /\ UNCHANGED <<height, head, synced, base, crashes>>

(* The process dies; a transaction in flight is rolled back. *)
Crash ==
  /\ stage # "down"
  /\ crashes < MaxCrashes
  /\ crashes' = crashes + 1
  /\ stage' = "down"
  /\ Return
  /\ UNCHANGED <<height, head, synced, base>>

Next ==
  \/ Grow
  \/ Boot
  \/ ChooseRange
  \/ TickTooEarly
  \/ GetPackets
  \/ SaveToDB
  \/ JobFails
  \/ Crash

Spec == Init /\ [][Next]_vars

(***************************************************************************)
(* The chain keeps producing blocks, a dead process is restarted, and the    *)
(* scheduler runs the job every GetFrequency() seconds.  A failing call may  *)
(* fail any number of times but not for ever, so the two steps that may fail *)
(* are strongly fair.                                                       *)
(***************************************************************************)
Fairness ==
  /\ WF_vars(Grow)
  /\ WF_vars(Boot)
  /\ WF_vars(ChooseRange)
  /\ SF_vars(GetPackets)
  /\ SF_vars(SaveToDB)

FairSpec == Spec /\ Fairness

-----------------------------------------------------------------------------
(* Properties *)

(***************************************************************************)
(* The blocks stored since the cursor was placed are exactly those from      *)
(* there up to the cursor, whatever fails, dies or restarts in between: none *)
(* is skipped, and none lies at or above the cursor, where it would be       *)
(* stored a second time (packet.go:144-150 and 607).                        *)
(***************************************************************************)
ExactlyOnce == synced = base .. (height - 1)

(***************************************************************************)
(* The job stays one block behind the head ("delay 1 block",                *)
(* packet.go:143): a range it has chosen ends below the latest height.       *)
(***************************************************************************)
DelaysOneBlock == stage \in {"fetching", "saving"} => to <= head - DelayBlock

(***************************************************************************)
(* The cursor catches up with every block the chain produces: for each       *)
(* height the chain reaches, the cursor ends up at it or beyond, in spite of *)
(* failures and of a bounded number of crashes.                              *)
(***************************************************************************)
CatchesUp ==
  \A h \in 1 .. MaxHead : (head >= h) ~> [](height >= h)

(* The chain is longer than a batch when it is first read, so that           *)
(* `chainHeight - batch - delay` (packet.go:144) does not wrap around.       *)
LongerThanBatch == FirstHead >= BatchNumber + DelayBlock

=============================================================================
