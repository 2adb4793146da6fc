----------------------------- MODULE Reconcile -----------------------------
(***************************************************************************)
(* Reconciliation (packet.go:615, reconciliation.go:14, bridges.go:145): for  *)
(* an acknowledgement that Teleport wrote, the service compares what the two   *)
(* chains held of the token at the packet's two heights, its cut, and corrects *)
(* for the packets in flight at the cut, which it adds up from the packet      *)
(* table.  It does so after the acknowledgement's transaction was committed,   *)
(* outside any transaction, while the job of the other chain goes on writing.  *)
(*                                                                          *)
(* One bridge between Teleport (A) and an EVM chain (B), one token.  A chain   *)
(* is the block number of each event, 0 before it happens; the last block,     *)
(* head, is still open, and the jobs read the blocks below it.                *)
(***************************************************************************)
EXTENDS Integers, FiniteSets, FiniteSetsExt

CONSTANTS
  Out, In,           \* packets from Teleport to the other chain, and back
  MayFail,           \* packets that may fail at their destination
  Units,             \* [packet -> amount in units of the coarser decimals]
  Initial,           \* what both chains hold at first, in the same units
  DecA, DecB,        \* decimals of the token on the two chains
  Base, Word,        \* 10 and 256 in the code
  MaxHead, MaxFailures  \* bounds

Packets == Out \cup In
Chains == {"A", "B"}

ASSUME BridgeOK ==
  /\ Out \cap In = {}
  /\ IsFiniteSet(Out) /\ IsFiniteSet(In)
  /\ Units \in [Packets -> Nat] /\ Initial \in Nat
  /\ DecA \in Nat /\ DecB \in Nat /\ Base \in Nat \ {0} /\ Word \in Nat \ {0}
  /\ Base ^ 0 = 1  \* what the provers must know of powers

Src(p) == IF p \in Out THEN "A" ELSE "B"
Dst(p) == IF p \in Out THEN "B" ELSE "A"

(* model.go:11 *)
Pending == 1
Success == 2
Fail == 3
Refund == 4

VARIABLES
  head, sent, acked, code, refunded,   \* the chains
  cursor,    \* the highest block of each chain that is stored
  row,       \* cross_chain_transactions
  job,       \* the job of each chain, up to its commit
  queue,     \* acks of Teleport's last batch, waiting to be reconciled
  cur,       \* the reconciliation at work
  result,    \* the columns src_trim_amount and dest_trim_amount: the two sums
  missed,    \* history: acks whose reconciliation a fault cut off
  late,      \* history: acks whose row had no send yet
  failures

chainVars == <<head, sent, acked, code, refunded>>
queueVars == <<queue, cur, result, missed, late>>
serviceVars == <<cursor, row, job, queueVars, failures>>
vars == <<chainVars, serviceVars>>

-----------------------------------------------------------------------------
(* The chains *)

Mine(c) ==
  /\ head[c] < MaxHead
  /\ head' = [head EXCEPT ![c] = @ + 1]
  /\ UNCHANGED <<sent, acked, code, refunded, serviceVars>>

Send(p) ==
  /\ sent[p] = 0
  /\ sent' = [sent EXCEPT ![p] = head[Src(p)]]
  /\ UNCHANGED <<head, acked, code, refunded, serviceVars>>

Ack(p) ==
  /\ sent[p] # 0 /\ acked[p] = 0
  /\ acked' = [acked EXCEPT ![p] = head[Dst(p)]]
  /\ \E s \in {Success, Fail} :
       /\ s = Fail => p \in MayFail
       /\ code' = [code EXCEPT ![p] = s]
  /\ UNCHANGED <<head, sent, refunded, serviceVars>>

GiveBack(p) ==
  /\ code[p] = Fail /\ refunded[p] = 0
  /\ refunded' = [refunded EXCEPT ![p] = head[Src(p)]]
  /\ UNCHANGED <<head, sent, acked, code, serviceVars>>

(* An event that has happened by block h. *)
By(event, h) == event # 0 /\ event <= h

Received(p, h) == By(acked[p], h) /\ code[p] = Success

(* On its way: gone from its source, not at its destination, nor given back. *)
InFlight(p, hSrc, hDst) ==
  By(sent[p], hSrc) /\ ~Received(p, hDst) /\ ~By(refunded[p], hSrc)

-----------------------------------------------------------------------------
(* The packet table, as PacketTable describes it *)

NoRow == [src |-> 0, dest |-> 0, refund |-> 0, status |-> 0]
Found(r) == r.status # 0

Heights == [src : Nat, dest : Nat, refund : Nat, status : 0 .. Refund]
JobRecord == [stage : {"idle", "tx", "reconcile"}, upto : Nat,
              snapshot : [Packets -> Heights]]

Idle == [stage |-> "idle", upto |-> 0, snapshot |-> [p \in Packets |-> NoRow]]
ResultRecord == [done : BOOLEAN, sumA : SUBSET Out, sumB : SUBSET In]
NoResult == [done |-> FALSE, sumA |-> {}, sumB |-> {}]
CurRecord == [stage : {"none", "sumA", "sumB", "balances"}, of : SUBSET In,
              hA : Nat, hB : Nat, sumA : SUBSET Out, sumB : SUBSET In]
Nothing == [stage |-> "none", of |-> {}, hA |-> 0, hB |-> 0, sumA |-> {}, sumB |-> {}]

Fresh(c, event) == cursor[c] < event /\ event <= job[c].upto

(* What the batch of chain c holds of p: the ack of an EVM chain is dropped    *)
(* when its packet has no row yet.                                           *)
HasSend(c, p) == Src(p) = c /\ Fresh(c, sent[p])
HasAck(c, p) ==
  Dst(p) = c /\ Fresh(c, acked[p]) /\ (c = "A" \/ Found(job[c].snapshot[p]))
HasRefund(c, p) == Src(p) = c /\ Fresh(c, refunded[p])
Touches(c, p) == HasSend(c, p) \/ HasAck(c, p) \/ HasRefund(c, p)

Higher(s, t) == IF s < t THEN t ELSE s

(* The status is compared with the snapshot's, the heights are merged.        *)
NewRow(c, p) ==
  [src    |-> IF HasSend(c, p) THEN sent[p] ELSE row[p].src,
   dest   |-> IF HasAck(c, p) THEN acked[p] ELSE row[p].dest,
   refund |-> IF HasRefund(c, p) THEN refunded[p] ELSE row[p].refund,
   status |-> Higher(job[c].snapshot[p].status,
                IF HasRefund(c, p) THEN Refund
                ELSE IF HasAck(c, p) THEN code[p] ELSE Pending)]

Duplicate(c) ==
  \E p \in Packets : Touches(c, p) /\ ~Found(job[c].snapshot[p]) /\ Found(row[p])

BeginTx(c) ==
  /\ job[c].stage = "idle"
  /\ \E n \in cursor[c] + 1 .. head[c] - 1 :
       job' = [job EXCEPT ![c] = [stage |-> "tx", upto |-> n, snapshot |-> row]]
  /\ UNCHANGED <<chainVars, cursor, row, queueVars, failures>>

CommitQueuesAll(c) ==
  /\ job[c].stage = "tx" /\ ~Duplicate(c)
  /\ row' = [p \in Packets |-> IF Touches(c, p) THEN NewRow(c, p) ELSE row[p]]
  /\ cursor' = [cursor EXCEPT ![c] = job[c].upto]
  /\ job' = [job EXCEPT ![c] = [Idle EXCEPT !.stage = IF c = "A" THEN "reconcile" ELSE "idle"]]
  /\ queue' = queue \cup {p \in Packets : HasAck(c, p)}
  /\ UNCHANGED <<chainVars, cur, result, missed, late, failures>>

(* Teleport's job goes on to reconcile the acks it has stored. *)
Commit(c) ==
  /\ job[c].stage = "tx" /\ ~Duplicate(c)
  /\ row' = [p \in Packets |-> IF Touches(c, p) THEN NewRow(c, p) ELSE row[p]]
  /\ cursor' = [cursor EXCEPT ![c] = job[c].upto]
  /\ job' = [job EXCEPT ![c] = [Idle EXCEPT !.stage = IF c = "A" THEN "reconcile" ELSE "idle"]]
  /\ queue' = IF c = "A" THEN {p \in In : HasAck(c, p)} ELSE queue
  /\ UNCHANGED <<chainVars, cur, result, missed, late, failures>>

DuplicateKey(c) ==
  /\ job[c].stage = "tx" /\ Duplicate(c)
  /\ job' = [job EXCEPT ![c] = Idle]
  /\ UNCHANGED <<chainVars, cursor, row, queueVars, failures>>

TxFails(c) ==
  /\ job[c].stage = "tx" /\ failures < MaxFailures
  /\ failures' = failures + 1
  /\ job' = [job EXCEPT ![c] = Idle]
  /\ UNCHANGED <<chainVars, cursor, row, queueVars>>

-----------------------------------------------------------------------------
(* Reconciliation *)

CountedForgetsRefund(p, hSrc, hDst) ==
  /\ By(row[p].src, hSrc)
  /\ \/ row[p].status = Success /\ row[p].dest > hDst
     \/ row[p].status \in {Pending, Fail}

(* "unReceived packet": the rows getSumAmount adds up for a cut, all at one    *)
(* moment.                                                                  *)
Counted(p, hSrc, hDst) ==
  /\ By(row[p].src, hSrc)
  /\ \/ row[p].status = Success /\ row[p].dest > hDst
     \/ row[p].status \in {Pending, Fail}
     \/ row[p].status = Refund /\ row[p].refund > hSrc

(* The amounts on the two chains, and of the rows: Teleport's decimals. *)
Pow(n) == Base ^ n
Coarser == IF DecA < DecB THEN DecA ELSE DecB
Total(ps) == MapThenSumSet(LAMBDA p : Units[p], ps)
OnA(ps) == Total(ps) * Pow(DecA - Coarser)
OnB(ps) == Total(ps) * Pow(DecB - Coarser)

(***************************************************************************)
(* What the contracts answer.  native: the token is Teleport's own, locked     *)
(* there and minted on the other chain; if not, the other way round.  lost:    *)
(* the block of Teleport from which a unit is missing, 0 if none is.           *)
(***************************************************************************)
Sign(native) == IF native THEN 1 ELSE -1

(* GetOutTokenAmount of the own token, or GetInTokenAmount of another one. *)
TeleportAmount(native, lost, hA) ==
  Initial * Pow(DecA - Coarser) - (IF By(lost, hA) THEN 1 ELSE 0)
  + Sign(native) * (OnA({p \in Out : By(sent[p], hA)})
                    - OnA({p \in Out : By(refunded[p], hA)})
                    - OnA({p \in In : Received(p, hA)}))

(* GetErc20TotalSupply of Teleport's token, or GetTransferBalance. *)
OtherAmount(native, hB) ==
  Initial * Pow(DecB - Coarser)
  + Sign(native) * (OnB({p \in Out : Received(p, hB)})
                    - OnB({p \in In : By(sent[p], hB)})
                    + OnB({p \in In : By(refunded[p], hB)}))

DifferenceOneSign(native, teleportAmount, otherAmount, sumA, sumB) ==
  teleportAmount - Sign(native) * OnA(sumA) - (otherAmount - Sign(native) * OnA(sumB))

(***************************************************************************)
(* The difference, multiplied by Base ^ |DecA - DecB| to stay an integer.     *)
(* Both sums are in Teleport's decimals and both are scaled; the difference   *)
(* of the decimals is taken in uint8.                                        *)
(***************************************************************************)
Difference(native, teleportAmount, otherAmount, sumA, sumB) ==
  LET d == DecA - DecB
      wrapped == d % Word
      scaled(n) == Pow((IF d < 0 THEN -d ELSE d) + n)
      coefficientA == -Sign(native)
      coefficientB == Sign(native)
  IN  teleportAmount * scaled(0) + coefficientA * OnA(sumA) * scaled(d)
      - otherAmount * scaled(wrapped)
      - coefficientB * OnA(sumB) * scaled(wrapped - d)

(* The result of p's reconciliation: "success" or "failed". *)
Succeeds(native, lost, p) ==
  Difference(native, TeleportAmount(native, lost, acked[p]), OtherAmount(native, sent[p]),
             result[p].sumA, result[p].sumB) = 0

(* The next ack's row is read again; without its send there is nothing to do. *)
ReadRow ==
  /\ job["A"].stage = "reconcile" /\ cur.stage = "none"
  /\ \E p \in queue :
       /\ \A q \in queue : acked[p] <= acked[q]
       /\ IF row[p].src # 0
          THEN /\ cur' = [Nothing EXCEPT !.stage = "sumA", !.of = {p},
                                       !.hA = row[p].dest, !.hB = row[p].src]
               /\ UNCHANGED <<queue, late>>
          ELSE /\ queue' = queue \ {p} /\ late' = late \cup {p}
               /\ UNCHANGED cur
  /\ UNCHANGED <<chainVars, cursor, row, job, result, missed, failures>>

SumA ==
  /\ cur.stage = "sumA"
  /\ cur' = [cur EXCEPT !.stage = "sumB",
                        !.sumA = {p \in Out : Counted(p, cur.hA, cur.hB)}]
  /\ UNCHANGED <<chainVars, cursor, row, job, queue, result, missed, late, failures>>

SumB ==
  /\ cur.stage = "sumB"
  /\ cur' = [cur EXCEPT !.stage = "balances",
                        !.sumB = {p \in In : Counted(p, cur.hB, cur.hA)}]
  /\ UNCHANGED <<chainVars, cursor, row, job, queue, result, missed, late, failures>>

WriteResultReturns ==
  /\ cur.stage = "balances"
  /\ result' = [p \in Packets |->
       IF p \in cur.of THEN [done |-> TRUE, sumA |-> cur.sumA, sumB |-> cur.sumB]
       ELSE result[p]]
  /\ queue' = {}
  /\ cur' = Nothing
  /\ UNCHANGED <<chainVars, cursor, row, job, missed, late, failures>>

(* The amounts at past blocks are asked for, and the row is written. *)
WriteResult ==
  /\ cur.stage = "balances"
  /\ result' = [p \in Packets |->
       IF p \in cur.of THEN [done |-> TRUE, sumA |-> cur.sumA, sumB |-> cur.sumB]
       ELSE result[p]]
  /\ queue' = queue \ cur.of
  /\ cur' = Nothing
  /\ UNCHANGED <<chainVars, cursor, row, job, missed, late, failures>>

Finish ==
  /\ job["A"].stage = "reconcile" /\ cur.stage = "none" /\ queue = {}
  /\ job' = [job EXCEPT !["A"] = Idle]
  /\ UNCHANGED <<chainVars, cursor, row, queueVars, failures>>

(* An error, or the death of the process: what is left is not tried again. *)
ReconcileFails ==
  /\ job["A"].stage = "reconcile" /\ failures < MaxFailures
  /\ failures' = failures + 1
  /\ missed' = missed \cup queue
  /\ queue' = {} /\ cur' = Nothing
  /\ job' = [job EXCEPT !["A"] = Idle]
  /\ UNCHANGED <<chainVars, cursor, row, result, late>>

-----------------------------------------------------------------------------

Init ==
  /\ head = [c \in Chains |-> 1]
  /\ sent = [p \in Packets |-> 0] /\ acked = [p \in Packets |-> 0]
  /\ code = [p \in Packets |-> 0] /\ refunded = [p \in Packets |-> 0]
  /\ cursor = [c \in Chains |-> 0]
  /\ row = [p \in Packets |-> NoRow]
  /\ job = [c \in Chains |-> Idle]
  /\ queue = {} /\ cur = Nothing
  /\ result = [p \in Packets |-> NoResult]
  /\ missed = {} /\ late = {} /\ failures = 0

Next ==
  \/ \E c \in Chains : Mine(c)
  \/ \E p \in Packets : Send(p) \/ Ack(p) \/ GiveBack(p)
  \/ \E c \in Chains : BeginTx(c) \/ Commit(c) \/ DuplicateKey(c) \/ TxFails(c)
  \/ ReadRow \/ SumA \/ SumB \/ WriteResult \/ Finish \/ ReconcileFails

Spec == Init /\ [][Next]_vars

-----------------------------------------------------------------------------
(* Properties *)

TypeOK ==
  /\ head \in [Chains -> Nat] /\ cursor \in [Chains -> Nat]
  /\ sent \in [Packets -> Nat] /\ acked \in [Packets -> Nat]
  /\ refunded \in [Packets -> Nat] /\ code \in [Packets -> {0, Success, Fail}]
  /\ row \in [Packets -> Heights]
  /\ job \in [Chains -> JobRecord]
  /\ queue \subseteq In /\ missed \subseteq In /\ late \subseteq In
  /\ cur \in CurRecord
  /\ result \in [Packets -> ResultRecord]
  /\ failures \in Nat

(* The ack of an EVM chain was skipped, and the row stays pending. *)
AckSkipped(p) == By(acked[p], cursor[Dst(p)]) /\ row[p].dest = 0

(* The transactions of ack and refund overlapped (see PacketTable). *)
RefundHidden(p) == row[p].status = Fail /\ row[p].refund # 0

(***************************************************************************)
(* What getSumAmount counts does not depend on the moment it reads the table: *)
(* for every cut below the cursors, a row is counted if and only if its packet *)
(* is in flight at the cut, unless its ack was skipped or its refund hidden    *)
(* (bridges.go:145; the table goes on changing between the two sums).          *)
(***************************************************************************)
SumsExact ==
  \A p \in Packets :
    ~AckSkipped(p) /\ ~RefundHidden(p) =>
      \A hSrc \in 0 .. cursor[Src(p)], hDst \in 0 .. cursor[Dst(p)] :
        Counted(p, hSrc, hDst) <=> InFlight(p, hSrc, hDst)

(* At a cut a packet may be received before it is sent: blocks of two chains. *)
Overtakes(p, hSrc, hDst) == Received(p, hDst) /\ ~By(sent[p], hSrc)

CleanCut(hA, hB) ==
  \A p \in Packets :
    /\ ~AckSkipped(p) /\ ~RefundHidden(p)
    /\ ~(p \in Out /\ Overtakes(p, hA, hB)) /\ ~(p \in In /\ Overtakes(p, hB, hA))

(***************************************************************************)
(* On a clean cut the result is "failed" if and only if a unit is missing on   *)
(* Teleport by the cut's block, for either kind of token, whatever is in       *)
(* flight and whatever the other chain's job writes while the sums are read    *)
(* (reconciliation.go:111-118).                                              *)
(***************************************************************************)
ResultTellsLoss ==
  \A p \in In : result[p].done /\ CleanCut(acked[p], sent[p]) =>
    \A native \in BOOLEAN, lost \in 0 .. head["A"] :
      Succeeds(native, lost, p) <=> ~By(lost, acked[p])

(***************************************************************************)
(* Every acknowledgement Teleport's job has stored is reconciled, or waits, or *)
(* came before its packet's send, or was cut off by a fault (packet.go:615;    *)
(* the blocks are not read again).                                            *)
(***************************************************************************)
NoneForgotten ==
  \A p \in In :
    By(acked[p], cursor["A"]) =>
      result[p].done \/ p \in queue \cup missed \cup late

(***************************************************************************)
(* reconciliation.go:94: both sums are converted to the decimals they are      *)
(* compared in.  With nothing lost, a clean cut then balances.                *)
(***************************************************************************)
DecimalsConverted ==
  \A p \in In : result[p].done /\ CleanCut(acked[p], sent[p]) =>
    \A native \in BOOLEAN : Succeeds(native, 0, p)

=============================================================================
