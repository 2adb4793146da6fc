-------------------------- MODULE SyncHeightProofs --------------------------
(***************************************************************************)
(* The safety of one chain's block cursor, proved for every batch size,      *)
(* start height, set of revised heights, word size and number of crashes.    *)
(*                                                                          *)
(* Nothing is skipped or stored twice (ExactlyOnce) when the chain was       *)
(* longer than a batch at the first boot, or when GetPackets refuses blocks  *)
(* that do not exist; the delay of one block needs the former.  Without      *)
(* either, the unsigned subtraction of packet.go:144 wraps around and both   *)
(* properties fail (README.md, section 3, item 5).                           *)
(*                                                                          *)
(* ExactlyOnce is not inductive: SaveToDB adds whatever the job has fetched  *)
(* and moves the cursor to whatever it has chosen.  The invariant adds what  *)
(* ties the job's locals to the stored cursor while a range is in progress.  *)
(***************************************************************************)
EXTENDS SyncHeight, TLAPS

(* The range in progress starts at the cursor, is not empty, and the next    *)
(* cursor is the block after it.                                             *)
RangeFromCursor ==
  stage \in {"fetching", "saving"} =>
    /\ from = height
    /\ from <= to
    /\ next = to + 1

(* What has been fetched is the whole range. *)
FetchedRange == stage = "saving" => got = from .. to

IndInv ==
  /\ TypeOK
  /\ head >= FirstHead
  /\ base <= height
  /\ RangeFromCursor
  /\ FetchedRange
  /\ ExactlyOnce
  /\ LongerThanBatch => DelaysOneBlock

Safe == RejectsFuture \/ LongerThanBatch

-----------------------------------------------------------------------------
(***************************************************************************)
(* The range syncToDB chooses (packet.go:144-150) is never empty and ends    *)
(* just before the next cursor, wrapped around or not.                       *)
(***************************************************************************)
LEMMA RangeShape ==
  ASSUME NEW h \in Nat, NEW c \in Nat, h + DelayBlock <= c
  PROVE  /\ RangeEnd(h, c) \in Nat
         /\ UpdateHeight(h, c) \in Nat
         /\ h <= RangeEnd(h, c)
         /\ UpdateHeight(h, c) = RangeEnd(h, c) + 1
<1>1. CASE FullBatch(h, c)
  BY <1>1, ConstantsOK DEF RangeEnd, UpdateHeight
<1>2. CASE ~FullBatch(h, c)
  BY <1>2, ConstantsOK DEF RangeEnd, UpdateHeight, DelayBlock
<1> QED BY <1>1, <1>2

(***************************************************************************)
(* On a chain longer than a batch the subtraction does not wrap around, and  *)
(* the range stays one block behind the head (packet.go:143).                *)
(***************************************************************************)
LEMMA RangeDelay ==
  ASSUME NEW h \in Nat, NEW c \in Nat, h + DelayBlock <= c,
         c >= BatchNumber + DelayBlock
  PROVE  RangeEnd(h, c) <= c - DelayBlock
<1>1. Minus(c, BatchNumber) = c - BatchNumber
  BY ConstantsOK DEF Minus, DelayBlock
<1>2. Minus(Minus(c, BatchNumber), DelayBlock) = c - BatchNumber - DelayBlock
  BY <1>1, ConstantsOK DEF Minus, DelayBlock
<1>3. FullBatch(h, c) <=> c - BatchNumber - DelayBlock > h
  BY <1>2 DEF FullBatch
<1> QED BY <1>3, ConstantsOK DEF RangeEnd, DelayBlock

LEMMA NothingStored == ASSUME NEW n \in Nat PROVE n .. (n - 1) = {}
  OBVIOUS

LEMMA FirstHeightPositive == FirstHeight \in Nat /\ FirstHeight # 0
  BY ConstantsOK DEF FirstHeight

-----------------------------------------------------------------------------
LEMMA InitInv == Init => IndInv
<1> SUFFICES ASSUME Init PROVE IndInv OBVIOUS
<1>1. TypeOK
  BY ConstantsOK DEF Init, TypeOK, Stages
<1>2. ExactlyOnce
  BY DEF Init, ExactlyOnce
<1> QED
  BY <1>1, <1>2, ConstantsOK
  DEF Init, IndInv, RangeFromCursor, FetchedRange, DelaysOneBlock

LEMMA StepInv ==
  ASSUME Safe PROVE IndInv /\ [Next]_vars => IndInv'
<1> SUFFICES ASSUME IndInv, [Next]_vars PROVE IndInv'
  OBVIOUS
<1> USE DEF IndInv
<1>1. CASE Grow
  <2>1. TypeOK'
    BY <1>1 DEF Grow, TypeOK
  <2> QED
    BY <1>1, <2>1, ConstantsOK
    DEF Grow, TypeOK, RangeFromCursor, FetchedRange, ExactlyOnce, DelaysOneBlock,
        DelayBlock, LongerThanBatch
<1>2. CASE Boot
  <2>1. PICK revised \in RevisedHeights :
           \/ /\ revised # 0
              /\ height' = revised /\ base' = revised /\ synced' = {}
           \/ /\ revised = 0 /\ height = 0
              /\ height' = FirstHeight /\ base' = FirstHeight /\ synced' = {}
           \/ /\ revised = 0 /\ height # 0
              /\ UNCHANGED <<height, base, synced>>
    BY <1>2 DEF Boot
  <2>2. revised \in Nat
    BY ConstantsOK
  <2>3. TypeOK'
    BY <1>2, <2>1, <2>2, FirstHeightPositive DEF Boot, TypeOK, Stages
  <2>4. base' <= height' /\ ExactlyOnce'
    <3>1. CASE UNCHANGED <<height, base, synced>>
      BY <3>1 DEF ExactlyOnce
    <3>2. CASE base' = height' /\ height' \in Nat /\ synced' = {}
      <4>1. base' .. (height' - 1) = {}
        BY <3>2, NothingStored, Zenon
      <4>2. base' <= height'
        BY <3>2
      <4> QED BY <3>2, <4>1, <4>2 DEF ExactlyOnce
    <3> QED BY <2>1, <2>2, <3>1, <3>2, FirstHeightPositive
  <2> QED
    BY <1>2, <2>3, <2>4
    DEF Boot, RangeFromCursor, FetchedRange, DelaysOneBlock
<1>3. CASE ChooseRange
  <2>1. height \in Nat /\ head \in Nat /\ height + DelayBlock <= head
    BY <1>3 DEF ChooseRange, TypeOK
  <2>2. /\ to' \in Nat /\ next' \in Nat
        /\ height <= to' /\ next' = to' + 1
    BY <1>3, <2>1, RangeShape DEF ChooseRange
  <2>3. TypeOK'
    BY <1>3, <2>2 DEF ChooseRange, TypeOK, Stages
  <2>4. RangeFromCursor'
    BY <1>3, <2>2 DEF ChooseRange, RangeFromCursor
  <2>5. LongerThanBatch' => DelaysOneBlock'
    <3> SUFFICES ASSUME LongerThanBatch PROVE DelaysOneBlock'
      BY DEF LongerThanBatch
    <3>1. head >= BatchNumber + DelayBlock
      BY <2>1, ConstantsOK DEF LongerThanBatch, DelayBlock
    <3>2. RangeEnd(height, head) <= head - DelayBlock
      BY <2>1, <3>1, RangeDelay
    <3> QED BY <1>3, <3>2 DEF ChooseRange, DelaysOneBlock
  <2> QED
    BY <1>3, <2>3, <2>4, <2>5 DEF ChooseRange, FetchedRange, ExactlyOnce
<1>4. CASE TickTooEarly
  BY <1>4
  DEF TickTooEarly, vars, TypeOK, RangeFromCursor, FetchedRange, ExactlyOnce,
      DelaysOneBlock, LongerThanBatch
<1>5. CASE GetPackets
  <2>1. to <= head
    BY <1>5, ConstantsOK
    DEF GetPackets, Safe, DelaysOneBlock, DelayBlock, TypeOK
  <2>2. (from .. to) \cap (0 .. head) = from .. to
    BY <2>1 DEF TypeOK
  <2>3. TypeOK'
    BY <1>5, <2>2 DEF GetPackets, TypeOK, Stages
  <2> QED
    BY <1>5, <2>2, <2>3
    DEF GetPackets, RangeFromCursor, FetchedRange, ExactlyOnce, DelaysOneBlock,
        LongerThanBatch
<1>6. CASE SaveToDB
  <2>1. /\ from = height /\ from <= to /\ next = to + 1
        /\ got = from .. to
    BY <1>6 DEF SaveToDB, Return, RangeFromCursor, FetchedRange
  <2>2. height' = to + 1 /\ synced' = synced \cup (height .. to)
    BY <1>6, <2>1 DEF SaveToDB
  <2>3. TypeOK'
    BY <1>6, <2>1 DEF SaveToDB, Return, TypeOK, Stages
  <2>4. ExactlyOnce'
    <3>1. (base .. (height - 1)) \cup (height .. to) = base .. to
      BY <2>1 DEF TypeOK
    <3>2. base' = base /\ height' - 1 = to
      BY <1>6, <2>2 DEF SaveToDB, Return, TypeOK
    <3> QED BY <2>2, <3>1, <3>2 DEF ExactlyOnce
  <2>5. base' <= height'
    BY <1>6, <2>1, <2>2 DEF SaveToDB, Return, TypeOK
  <2> QED
    BY <1>6, <2>5, <2>3, <2>4
    DEF SaveToDB, Return, RangeFromCursor, FetchedRange, DelaysOneBlock
<1>7. CASE JobFails
  BY <1>7
  DEF JobFails, Return, TypeOK, Stages, RangeFromCursor, FetchedRange, ExactlyOnce,
      DelaysOneBlock, LongerThanBatch
<1>8. CASE Crash
  BY <1>8, ConstantsOK
  DEF Crash, Return, TypeOK, Stages, RangeFromCursor, FetchedRange, ExactlyOnce,
      DelaysOneBlock, LongerThanBatch
<1>9. CASE UNCHANGED vars
  BY <1>9
  DEF vars, TypeOK, RangeFromCursor, FetchedRange, ExactlyOnce,
      DelaysOneBlock, LongerThanBatch
<1> QED
  BY <1>1, <1>2, <1>3, <1>4, <1>5, <1>6, <1>7, <1>8, <1>9 DEF Next

-----------------------------------------------------------------------------
(***************************************************************************)
(* IndInv holds throughout, under either condition of Safe.                  *)
(***************************************************************************)
LEMMA SpecInv == ASSUME Safe PROVE Spec => []IndInv
<1>1. Init => IndInv
  BY InitInv
<1>2. IndInv /\ [Next]_vars => IndInv'
  BY StepInv
<1> QED BY <1>1, <1>2, PTL DEF Spec

(* The variables keep their types, and a running job always has a cursor.     *)
THEOREM TypeCorrect == ASSUME Safe PROVE Spec => []TypeOK
<1>1. IndInv => TypeOK
  BY DEF IndInv
<1> QED BY SpecInv, <1>1, PTL

(***************************************************************************)
(* Between two placements of the cursor by configuration, every block from    *)
(* there to the cursor is stored, none beyond it, through failures, crashes   *)
(* and restarts (packet.go:138-150, 607).                                     *)
(***************************************************************************)
THEOREM StoredExactlyOnce == ASSUME Safe PROVE Spec => []ExactlyOnce
<1>1. IndInv => ExactlyOnce
  BY DEF IndInv
<1> QED BY SpecInv, <1>1, PTL

(***************************************************************************)
(* A chain longer than a batch is read with the delay of one block the code   *)
(* announces (packet.go:143).                                                 *)
(***************************************************************************)
THEOREM ReadsBehindHead == ASSUME LongerThanBatch PROVE Spec => []DelaysOneBlock
<1>1. Safe
  BY DEF Safe
<1>2. IndInv => DelaysOneBlock
  BY DEF IndInv
<1> QED BY <1>1, <1>2, SpecInv, PTL

=============================================================================
