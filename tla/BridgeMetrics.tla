--------------------------- MODULE BridgeMetrics ---------------------------
(***************************************************************************)
(* What a job does with its records once they are stored: it counts them in  *)
(* the tables single_direction_bridge_metrics and tokens.  The first job     *)
(* that finds the metrics empty fills them from the packet table             *)
(* (InitSingleDirectionBridgeMetrics, packet.go:682), every other job adds   *)
(* its own records (UpdateMetrics, packet.go:894).  Both happen after the    *)
(* cursor has been committed, so that nothing is counted a second time, and  *)
(* what fails or dies here is never counted.                                 *)
(*                                                                          *)
(* The module continues PacketTable: a job's tick now ends after counting.   *)
(* Every packet carries one unit of one token.  A row of the metrics holds   *)
(* its direction, its two counters and the value of its tokens, split into   *)
(* what went to the token's name and what went to the empty name.  A token   *)
(* that two jobs create at the same time is one token here.                  *)
(***************************************************************************)
EXTENDS PacketTable, SequencesExt

CONSTANTS
  BridgeNameAdjList,  \* the pairs of chains that have a bridge
  Filled              \* the metrics were filled before the service starts

ASSUME AdjListOK ==
  BridgeNameAdjList \subseteq Chains \X Chains /\ Filled \in BOOLEAN

ASSUME FiniteOK == IsFiniteSet(Chains) /\ IsFiniteSet(Packets)

VARIABLES
  metrics,   \* single_direction_bridge_metrics, in the order of the ids
  counting   \* what the job of each chain still has to count

mvars == <<metrics, counting>>

-----------------------------------------------------------------------------
(* Every bridge has two directions (packet.go:694). *)
Directions == BridgeNameAdjList \cup {<<d[2], d[1]>> : d \in BridgeNameAdjList}
Direction(p) == <<Src[p], Dst[p]>>

NewMetrics(d) == [dir |-> d, pktAmt |-> 0, failedAmt |-> 0, named |-> 0, nameless |-> 0]

(* What InitSingleDirectionBridgeMetrics finds in the packet table. *)
FilledMetrics(rows, d) ==
  LET of == {p \in Packets : Direction(p) = d /\ Found(rows[p])}
  IN  [NewMetrics(d) EXCEPT
        !.pktAmt = Cardinality(of),
        !.failedAmt = Cardinality({p \in of : rows[p].status \in {Fail, Refund}}),
        !.named = Cardinality({p \in of : rows[p].token /\ rows[p].amount})]

FillAll(rows) == SetToSeq({FilledMetrics(rows, d) : d \in Directions})

(***************************************************************************)
(* One record of UpdateMetrics.  It is counted in the first row of its        *)
(* direction that the transaction sees (the first `seen` rows, and its own),  *)
(* which is created if there is none; the amount goes to the name that the    *)
(* record carries, which is empty when the packet's row had a name already.   *)
(***************************************************************************)
Count(seen, committed, table, rec) ==
  LET d == Direction(rec.pkt)
      rows == {i \in DOMAIN table : table[i].dir = d /\ (i <= seen \/ i > committed)}
      i == IF rows = {} THEN Len(table) + 1 ELSE Min(rows)
      old == IF rows = {} THEN NewMetrics(d) ELSE table[i]
      units == IF rec.cols.amount THEN 1 ELSE 0
      new == [old EXCEPT
                !.pktAmt = @ + 1,
                !.named = @ + (IF rec.cols.token THEN units ELSE 0),
                !.nameless = @ + (IF rec.cols.token THEN 0 ELSE units)]
  IN  IF rows = {} THEN Append(table, new) ELSE [table EXCEPT ![i] = new]

CountAll(seen, batch) ==
  LET table[n \in 0 .. Len(batch)] ==
        IF n = 0 THEN metrics ELSE Count(seen, Len(metrics), table[n - 1], batch[n])
  IN  table[Len(batch)]

(***************************************************************************)
(* A failed packet's failed_amt is updated through p.DB, another connection   *)
(* than the transaction's, which has just locked that row (packet.go:918 and  *)
(* 926): the job waits for itself.                                            *)
(***************************************************************************)
IsFailed(rec) == rec.cols.status \in {Fail, Refund}

WaitsForItself(batch) == \E i \in DOMAIN batch : IsFailed(batch[i])

(* The rows, by direction, that an update locks before it ends or waits. *)
RowsLocked(batch) ==
  {Direction(batch[i].pkt) :
     i \in {i \in DOMAIN batch : \A j \in 1 .. i - 1 : ~IsFailed(batch[j])}}

-----------------------------------------------------------------------------
CountingStages == {"none", "asking", "fill", "filling", "update", "updating", "waiting"}

Nothing == [stage |-> "none", batch |-> <<>>, rows |-> NoRows, seen |-> 0]

AtCount(c, stage) == counting[c].stage = stage
ToStage(c, stage) == counting' = [counting EXCEPT ![c].stage = stage]
Done(c) == counting' = [counting EXCEPT ![c] = Nothing]

MInit ==
  /\ Init
  /\ metrics = IF Filled THEN FillAll(NoRows) ELSE <<>>
  /\ counting = [c \in Chains |-> Nothing]

(* The packets are stored; the tick goes on with their records. *)
StoreThenCount(c) ==
  /\ Commit(c)
  /\ counting' = [counting EXCEPT ![c] =
                    [Nothing EXCEPT !.stage = "asking", !.batch = job[c].batch]]
  /\ UNCHANGED metrics

AskMetricsOfOwn(c) ==
  /\ AtCount(c, "asking")
  /\ ToStage(c, IF \E i \in DOMAIN metrics : metrics[i].pktAmt > 0 THEN "update" ELSE "fill")
  /\ UNCHANGED <<vars, metrics>>

(* Last(&SingleDirectionBridgeMetrics{}): is the table empty? *)
AskMetrics(c) ==
  /\ AtCount(c, "asking")
  /\ ToStage(c, IF metrics = <<>> THEN "fill" ELSE "update")
  /\ UNCHANGED <<vars, metrics>>

(* The transactions' first reads, which fix what they see. *)
BeginFill(c) ==
  /\ AtCount(c, "fill")
  /\ counting' = [counting EXCEPT ![c] = [@ EXCEPT !.stage = "filling", !.rows = row]]
  /\ UNCHANGED <<vars, metrics>>

BeginUpdate(c) ==
  /\ AtCount(c, "update")
  /\ counting' = [counting EXCEPT ![c] =
                    [@ EXCEPT !.stage = "updating", !.seen = Len(metrics)]]
  /\ UNCHANGED <<vars, metrics>>

Fill(c) ==
  /\ AtCount(c, "filling")
  /\ metrics' = metrics \o FillAll(counting[c].rows)
  /\ Done(c)
  /\ UNCHANGED vars

(* No other job that waits holds the lock of a row this update needs. *)
Unlocked(c) ==
  \A other \in Chains \ {c} :
    AtCount(other, "waiting") =>
      RowsLocked(counting[other].batch) \cap RowsLocked(counting[c].batch) = {}

Update(c) ==
  /\ AtCount(c, "updating")
  /\ Unlocked(c)
  /\ ~WaitsForItself(counting[c].batch)
  /\ metrics' = CountAll(counting[c].seen, counting[c].batch)
  /\ Done(c)
  /\ UNCHANGED vars

UpdateWaits(c) ==
  /\ AtCount(c, "updating")
  /\ Unlocked(c)
  /\ WaitsForItself(counting[c].batch)
  /\ ToStage(c, "waiting")
  /\ UNCHANGED <<vars, metrics>>

LockWaitForEver(c) == AtCount(c, "waiting") /\ UNCHANGED <<vars, mvars>>

(* innodb_lock_wait_timeout: the update fails, the transaction is rolled back. *)
LockWaitTimeout(c) ==
  /\ AtCount(c, "waiting")
  /\ Done(c)
  /\ UNCHANGED <<vars, metrics>>

(* A query of the metrics fails: the records will not be counted. *)
MetricsFail(c) ==
  /\ counting[c].stage \notin {"none", "waiting"}
  /\ failures < MaxFailures
  /\ failures' = failures + 1
  /\ Done(c)
  /\ UNCHANGED <<chain, height, row, job, base, unread, crashes, metrics>>

CountRecords(c) ==
  \/ AskMetrics(c)
  \/ BeginFill(c) \/ Fill(c)
  \/ BeginUpdate(c) \/ Update(c) \/ UpdateWaits(c) \/ LockWaitTimeout(c)

(* The steps of PacketTable; the next tick waits for the end of this one. *)
TableWork(c) ==
  /\ \/ AtCount(c, "none") /\ (ChooseRange(c) \/ TickTooEarly(c))
     \/ Fetch(c) \/ ReadRow(c) \/ Panic(c)
     \/ BeginTx(c) \/ DuplicateKey(c)
  /\ UNCHANGED mvars

MWork(c) == TableWork(c) \/ StoreThenCount(c) \/ CountRecords(c)

MCrash ==
  /\ Crash
  /\ counting' = [c \in Chains |-> Nothing]
  /\ UNCHANGED metrics

MNext ==
  \/ (Environment \/ Boot \/ \E c \in Chains : JobFails(c)) /\ UNCHANGED mvars
  \/ \E c \in Chains : MWork(c) \/ MetricsFail(c)
  \/ MCrash

MSpec == MInit /\ [][MNext]_<<vars, mvars>>

(* As in PacketTable; counting is part of the job. *)
MFairSpec ==
  /\ MSpec
  /\ WF_<<vars, mvars>>(Boot /\ UNCHANGED mvars)
  /\ \A c \in Chains :
       /\ WF_<<vars, mvars>>(Mine(c) /\ UNCHANGED mvars)
       /\ WF_<<vars, mvars>>(MWork(c))

-----------------------------------------------------------------------------
(* Properties *)

Total(amounts) ==
  LET sum[n \in 0 .. Len(amounts)] == IF n = 0 THEN 0 ELSE sum[n - 1] + amounts[n]
  IN  sum[Len(amounts)]

ValueOf(table, d) ==
  Total([i \in DOMAIN table |->
           IF table[i].dir = d THEN table[i].named + table[i].nameless ELSE 0])
Value(d) == ValueOf(metrics, d)
FailedAmt(d) ==
  Total([i \in DOMAIN metrics |-> IF metrics[i].dir = d THEN metrics[i].failedAmt ELSE 0])
Carried(d) == {p \in Packets : Direction(p) = d /\ row[p].amount}

(***************************************************************************)
(* A packet's amount is counted at most once, whatever is read again after a  *)
(* RevisedHeight, rolled back or retried: only the record that brings the     *)
(* amount into the packet's row carries it (packet.go:236), and counting      *)
(* never repeats (packet.go:368-384).  For metrics that were filled before    *)
(* the service starts; see FilledOncePerJob for what filling may do.          *)
(***************************************************************************)
ValueAtMostOnce ==
  Filled => \A d \in Directions : Value(d) <= Cardinality(Carried(d))

Quiet == \A c \in Chains : AtCount(c, "none")

(***************************************************************************)
(* "if tx is failed then failed_amt +1" (packet.go:923): when no job is       *)
(* counting and nothing has failed or died, a failed packet of the table is   *)
(* in its direction's counter.                                                *)
(***************************************************************************)
FailedIsCounted ==
  Quiet /\ crashes = 0 /\ failures = 0 =>
    \A p \in Packets :
      row[p].status \in {Fail, Refund} => FailedAmt(Direction(p)) > 0

(***************************************************************************)
(* "if it is empty then init otherwise update it" (packet.go:683): jobs that   *)
(* find the metrics empty at the same time each fill them, but whoever comes   *)
(* later does not: a direction never has more rows than there are jobs.        *)
(***************************************************************************)
FilledOncePerJob ==
  \A d \in Directions :
    Cardinality({i \in DOMAIN metrics : metrics[i].dir = d}) <= Cardinality(Chains)

=============================================================================
