------------------------ MODULE BridgeMetricsProofs ------------------------
(***************************************************************************)
(* Proofs about BridgeMetrics.  Every step of MNext is a step of the packet   *)
(* table or leaves its variables but failures alone (MNextSteps), so that the *)
(* invariant Inv of PacketTableProofs carries over.  To it come               *)
(*  - FillInv: once there are rows, each direction has one, an update sees    *)
(*    one of each, and the rows of a direction and the jobs that are still to *)
(*    fill are together no more than the chains.  FilledOncePerJob alone is   *)
(*    not inductive: it does not count the jobs that are about to append.     *)
(*  - ValueInv: an amount in a batch is that of a packet of the job's own     *)
(*    chain whose row has none, and of one record only; and the value of a    *)
(*    direction plus what its chain's job has stored and not counted is at    *)
(*    most what the table carries.  ValueAtMostOnce alone is not inductive:   *)
(*    it does not say what an update is about to add.                         *)
(* Sums and sequences of records are walked with the induction of            *)
(* InductionLemmas.  The theorems assume LongerThanBatch, for Inv, and, with  *)
(* FiniteOK, that chains and packets are finitely many.                       *)
(***************************************************************************)
EXTENDS BridgeMetrics, PacketTableProofs, FiniteSetTheorems

-----------------------------------------------------------------------------
(* The packet table, while the jobs count *)

Uncounted == UNCHANGED <<chain, height, row, job, base, unread>>

(* What a job does after its commit leaves the table alone. *)
LEMMA MNextSteps == [MNext]_<<vars, mvars>> => [Next]_vars \/ Uncounted
<1> SUFFICES ASSUME [MNext]_<<vars, mvars>> PROVE [Next]_vars \/ Uncounted
  OBVIOUS
<1>1. CASE UNCHANGED <<vars, mvars>>
  BY <1>1
<1>2. CASE Environment \/ Boot \/ \E c \in Chains : JobFails(c)
  BY <1>2 DEF Next
<1>3. CASE MCrash
  BY <1>3 DEF MCrash, Next
<1>4. ASSUME NEW c \in Chains, MWork(c) \/ MetricsFail(c)
      PROVE  [Next]_vars \/ Uncounted
  <2>1. CASE TableWork(c) \/ StoreThenCount(c)
    BY <2>1 DEF TableWork, StoreThenCount, Work, Next
  <2>2. CASE CountRecords(c) \/ MetricsFail(c)
    BY <2>2 DEF CountRecords, AskMetrics, BeginFill, Fill, BeginUpdate, Update, UpdateWaits,
                LockWaitTimeout, MetricsFail, Uncounted, vars
  <2> QED BY <1>4, <2>1, <2>2 DEF MWork
<1> QED BY <1>1, <1>2, <1>3, <1>4 DEF MNext

LEMMA UncountedKeeps == Inv /\ Uncounted => Inv'
BY StutterKeeps DEF Uncounted

LEMMA MNextInv == LongerThanBatch /\ Inv /\ [MNext]_<<vars, mvars>> => Inv'
BY MNextSteps, NextInv, UncountedKeeps

LEMMA MSpecInv == ASSUME LongerThanBatch PROVE MSpec => []Inv
<1>1. LongerThanBatch
  OBVIOUS
<1>2. MInit => Inv
  BY <1>1, InitInv DEF MInit
<1>3. Inv /\ [MNext]_<<vars, mvars>> => Inv'
  BY <1>1, MNextInv
<1> QED BY <1>2, <1>3, PTL DEF MSpec

(***************************************************************************)
(* Nothing the cursors have passed is missing from the table although the     *)
(* jobs also count, wait for locks and fail after their commits               *)
(* (packet.go:368-384 follows the transaction of packet.go:545-613).          *)
(***************************************************************************)
THEOREM NothingIsMissedCounting == ASSUME LongerThanBatch PROVE MSpec => []NothingMissed
BY MSpecInv, InvNothingMissed, PTL

(***************************************************************************)
(* Counting wipes no height column of the table either (packet.go:682, 894).  *)
(***************************************************************************)
THEOREM ColumnsAreKeptCounting == ASSUME LongerThanBatch PROVE MSpec => ColumnsStay
<1>1. LongerThanBatch
  OBVIOUS
<1>2. Inv /\ [MNext]_<<vars, mvars>> => [ColumnsKept]_vars
  <2>1. Uncounted => ColumnsKept
    BY DEF Uncounted, ColumnsKept
  <2> QED BY <2>1, MNextSteps, NextKeepsColumns
<1> QED BY <1>1, <1>2, MSpecInv, PTL DEF MSpec, ColumnsStay, ColumnsKept

-----------------------------------------------------------------------------
(* The rows that filling the metrics appends *)

MetricRows == [dir : Chains \X Chains, pktAmt : Nat, failedAmt : Nat, named : Nat, nameless : Nat]

LEMMA DirectionsOK ==
  /\ Directions \subseteq Chains \X Chains /\ IsFiniteSet(Directions)
  /\ \A p \in Packets : Direction(p) \in Chains \X Chains
<1>1. Directions \subseteq Chains \X Chains
  BY AdjListOK DEF Directions
<1>2. IsFiniteSet(Chains \X Chains)
  BY FiniteOK, FS_Product
<1> QED BY <1>1, <1>2, FS_Subset, BridgesOK DEF Direction

LEMMA PacketsCounted == \A S \in SUBSET Packets : IsFiniteSet(S) /\ Cardinality(S) \in Nat
BY FiniteOK, FS_Subset, FS_CardinalityType

LEMMA FilledRow ==
  ASSUME NEW rows, NEW d \in Chains \X Chains
  PROVE  FilledMetrics(rows, d) \in MetricRows /\ FilledMetrics(rows, d).dir = d
<1> DEFINE of == {p \in Packets : Direction(p) = d /\ Found(rows[p])}
           pkts == Cardinality(of)
           failed == Cardinality({p \in of : rows[p].status \in {Fail, Refund}})
           named == Cardinality({p \in of : rows[p].token /\ rows[p].amount})
<1>1. pkts \in Nat /\ failed \in Nat /\ named \in Nat
  BY PacketsCounted
<1>2. FilledMetrics(rows, d) =
        [NewMetrics(d) EXCEPT !.pktAmt = pkts, !.failedAmt = failed, !.named = named]
  BY DEF FilledMetrics
<1> HIDE DEF pkts, failed, named
<1>3. NewMetrics(d) \in MetricRows /\ NewMetrics(d).dir = d
  BY DEF NewMetrics, MetricRows
<1>4. \A r \in MetricRows :
        LET new == [r EXCEPT !.pktAmt = pkts, !.failedAmt = failed, !.named = named]
        IN  new \in MetricRows /\ new.dir = r.dir
  BY <1>1 DEF MetricRows
<1> QED BY <1>2, <1>3, <1>4

(* FillAll is a sequence of one row for each direction. *)
LEMMA FillAllShape ==
  ASSUME NEW rows
  PROVE  /\ FillAll(rows) \in Seq(MetricRows)
         /\ \A i \in 1 .. Len(FillAll(rows)) :
              \E d \in Directions : FillAll(rows)[i] = FilledMetrics(rows, d)
         /\ \A d \in Directions : \E j \in 1 .. Len(FillAll(rows)) :
              \A i \in 1 .. Len(FillAll(rows)) : FillAll(rows)[i].dir = d <=> i = j
<1> DEFINE S == {FilledMetrics(rows, d) : d \in Directions}
           n == Cardinality(S)
           f == FillAll(rows)
           row_of == [d \in Directions |-> FilledMetrics(rows, d)]
<1>1. IsFiniteSet(S)
  <2>1. row_of \in Surjection(Directions, S)
    BY DEF Surjection
  <2> HIDE DEF row_of, S
  <2> QED BY <2>1, DirectionsOK, FS_Surjection
<1>2. n \in Nat /\ Bijection(1 .. n, S) # {}
  <2> HIDE DEF S
  <2> QED BY <1>1, FS_CardinalityType DEF ExistsBijection
<1>3. f \in [1 .. n -> S] /\ IsInjective(f)
  <2>1. \E g : g \in [1 .. n -> S] /\ IsInjective(g)
    <3> HIDE DEF S, n
    <3> QED BY <1>2 DEF Bijection, Injection
  <2>2. f = CHOOSE g \in [1 .. n -> S] : IsInjective(g)
    BY DEF FillAll, SetToSeq
  <2> HIDE DEF f, n, S
  <2> QED BY <2>1, <2>2
<1>4. f \in Surjection(1 .. n, S)
  <2> HIDE DEF f, S
  <2>1. f \in Injection(1 .. n, S)
    BY <1>3 DEF Injection
  <2>2. Cardinality(1 .. n) = n
    BY <1>2, FS_Interval
  <2> QED BY <1>1, <2>1, <2>2, FS_Injection
<1>5. S \subseteq MetricRows
  BY FilledRow, DirectionsOK
<1>6. f \in Seq(MetricRows) /\ Len(f) = n /\ DOMAIN f = 1 .. n
  <2> HIDE DEF f, n, S
  <2> QED BY <1>2, <1>3, <1>5
<1> HIDE DEF f, n
<1>7. \A i \in 1 .. n : \E d \in Directions : f[i] = FilledMetrics(rows, d)
  BY <1>3
<1>8. ASSUME NEW d \in Directions
      PROVE  \E j \in 1 .. n : \A i \in 1 .. n : f[i].dir = d <=> i = j
  <2>1. PICK j \in 1 .. n : f[j] = FilledMetrics(rows, d)
    BY <1>4 DEF Surjection
  <2>2. \A i \in 1 .. n : f[i].dir = d => f[i] = f[j]
    BY <1>7, <2>1, FilledRow, DirectionsOK
  <2>3. f[j].dir = d
    BY <2>1, FilledRow, DirectionsOK
  <2> QED BY <1>3, <1>6, <2>2, <2>3 DEF IsInjective
<1> QED BY <1>6, <1>7, <1>8 DEF f

-----------------------------------------------------------------------------
(* What an update does to the rows *)

(***************************************************************************)
(* A relation between the number of records counted and the table that holds  *)
(* at the beginning of an update, and that every record preserves, holds at   *)
(* its end.                                                                   *)
(***************************************************************************)
LEMMA CountInduct ==
  ASSUME NEW seen, NEW batch, Len(batch) \in Nat, NEW T,
         <<0, metrics>> \in T,
         \A n \in 0 .. Len(batch) - 1 : \A t :
           <<n, t>> \in T => <<n + 1, Count(seen, Len(metrics), t, batch[n + 1])>> \in T
  PROVE  <<Len(batch), CountAll(seen, batch)>> \in T
<1> DEFINE N == Len(batch)
           Step(t, n) == Count(seen, Len(metrics), t, batch[n])
           Folds(m, g) ==
             g = [n \in 0 .. m |-> IF n = 0 THEN metrics ELSE Step(g[n - 1], n)]
           U == {m \in Nat : \E g : Folds(m, g)}
<1>0. CountAll(seen, batch) =
        LET table[n \in 0 .. N] == IF n = 0 THEN metrics ELSE Step(table[n - 1], n)
        IN  table[N]
  BY DEF CountAll
<1>s. \A n \in 0 .. N - 1 : \A t : <<n, t>> \in T => <<n + 1, Step(t, n + 1)>> \in T
  OBVIOUS
<1> HIDE DEF Step
<1>1. 0 \in U
  <2>1. Folds(0, [n \in 0 .. 0 |-> metrics])
    OBVIOUS
  <2> QED BY <2>1
<1>2. ASSUME NEW m \in Nat, m \in U PROVE m + 1 \in U
  <2>1. PICK g : Folds(m, g)
    BY <1>2
  <2> DEFINE h == [n \in 0 .. m + 1 |-> IF n = m + 1 THEN Step(g[m], m + 1) ELSE g[n]]
  <2>2. ASSUME NEW n \in 0 .. m + 1
        PROVE  h[n] = IF n = 0 THEN metrics ELSE Step(h[n - 1], n)
    <3>1. CASE n = m + 1
      BY <3>1
    <3>2. CASE n # m + 1
      <4>1. n \in 0 .. m
        BY <3>2
      <4>2. g[n] = IF n = 0 THEN metrics ELSE Step(g[n - 1], n)
        BY <2>1, <4>1
      <4> QED BY <4>1, <4>2
    <3> QED BY <3>1, <3>2
  <2>3. Folds(m + 1, h)
    BY <2>2
  <2>4. m + 1 \in Nat
    OBVIOUS
  <2> HIDE DEF Folds, h
  <2> QED BY <2>3, <2>4
<1>3. \E g : Folds(N, g)
  <2> HIDE DEF U
  <2>1. Nat \subseteq U
    BY <1>1, <1>2, Induct
  <2> QED BY <2>1 DEF U
<1> DEFINE table == CHOOSE g : Folds(N, g)
<1>4. table = [n \in 0 .. N |-> IF n = 0 THEN metrics ELSE Step(table[n - 1], n)]
  BY <1>3
<1>5. CountAll(seen, batch) = table[N]
  BY <1>0
<1> DEFINE V == {n \in 0 .. N : <<n, table[n]>> \in T}
<1> HIDE DEF table
<1>6. 0 \in V
  BY <1>4
<1>7. ASSUME NEW n \in 0 .. N - 1, n \in V PROVE n + 1 \in V
  BY <1>4, <1>7, <1>s
<1>8. 0 .. N \subseteq V
  <2> HIDE DEF V
  <2> QED BY <1>6, <1>7, InductTo
<1> QED BY <1>5, <1>8

(* The value of a row, and of a record. *)
Amount(r) == r.named + r.nameless
Units(rec) == IF rec.cols.amount THEN 1 ELSE 0

LEMMA AmountType == \A r \in MetricRows : Amount(r) \in Nat
BY DEF Amount, MetricRows

LEMMA AddToRow ==
  ASSUME NEW r \in MetricRows, NEW a \in Nat, NEW b \in Nat
  PROVE  LET new == [r EXCEPT !.pktAmt = @ + 1, !.named = @ + a, !.nameless = @ + b]
         IN  new \in MetricRows /\ new.dir = r.dir /\ Amount(new) = Amount(r) + a + b
<1> DEFINE new == [r EXCEPT !.pktAmt = @ + 1, !.named = @ + a, !.nameless = @ + b]
<1> DEFINE r1 == [r EXCEPT !.pktAmt = r.pktAmt + 1]
           r2 == [r1 EXCEPT !.named = r1.named + a]
           r3 == [r2 EXCEPT !.nameless = r2.nameless + b]
<1>0. new = r3
  BY Zenon
<1>1. /\ new.dir = r.dir /\ new.named = r.named + a /\ new.nameless = r.nameless + b
      /\ new \in MetricRows
  <2>1. r1 \in MetricRows /\ r1.dir = r.dir /\ r1.named = r.named /\ r1.nameless = r.nameless
    BY DEF MetricRows
  <2> HIDE DEF r1
  <2>2. r2 \in MetricRows /\ r2.dir = r.dir /\ r2.named = r.named + a /\ r2.nameless = r.nameless
    BY <2>1 DEF MetricRows
  <2> HIDE DEF r2
  <2>3. r3 \in MetricRows /\ r3.dir = r.dir /\ r3.named = r.named + a
        /\ r3.nameless = r.nameless + b
    BY <2>2 DEF MetricRows
  <2> HIDE DEF r3, new
  <2> QED BY <1>0, <2>3
<1>2. r.named \in Nat /\ r.nameless \in Nat
  BY DEF MetricRows
<1> QED BY <1>1, <1>2 DEF Amount

(* One record is counted in a row of its direction, or makes a new one. *)
CountsIn(seen, committed, table, rec, next) ==
  LET d == Direction(rec.pkt)
  IN  \/ /\ \A i \in 1 .. Len(table) : table[i].dir = d => i > seen /\ i <= committed
         /\ \E r \in MetricRows :
              r.dir = d /\ Amount(r) = Units(rec) /\ next = Append(table, r)
      \/ \E i \in 1 .. Len(table), r \in MetricRows :
           /\ table[i].dir = d /\ r.dir = d
           /\ Amount(r) = Amount(table[i]) + Units(rec)
           /\ next = [table EXCEPT ![i] = r]

LEMMA CountShape ==
  ASSUME NEW table \in Seq(MetricRows), NEW rec \in Recs, NEW seen \in Nat, NEW committed \in Nat
  PROVE  CountsIn(seen, committed, table, rec, Count(seen, committed, table, rec))
<1> DEFINE d == Direction(rec.pkt)
           rows == {i \in DOMAIN table : table[i].dir = d /\ (i <= seen \/ i > committed)}
           at == IF rows = {} THEN Len(table) + 1 ELSE Min(rows)
           old == IF rows = {} THEN NewMetrics(d) ELSE table[at]
           units == IF rec.cols.amount THEN 1 ELSE 0
           plus == IF rec.cols.token THEN units ELSE 0
           rest == IF rec.cols.token THEN 0 ELSE units
           new == [old EXCEPT !.pktAmt = @ + 1, !.named = @ + plus, !.nameless = @ + rest]
<1>1. Count(seen, committed, table, rec) =
        IF rows = {} THEN Append(table, new) ELSE [table EXCEPT ![at] = new]
  BY DEF Count
<1>2. d \in Chains \X Chains
  BY DirectionsOK DEF Recs
<1>3. plus \in Nat /\ rest \in Nat /\ plus + rest = Units(rec)
  BY DEF Units
<1>4. rows # {} => at \in rows /\ at \in 1 .. Len(table)
  <2> SUFFICES ASSUME rows # {} PROVE at \in rows /\ at \in 1 .. Len(table)
    OBVIOUS
  <2>1. rows \in SUBSET Nat /\ rows \subseteq 1 .. Len(table)
    OBVIOUS
  <2> HIDE DEF rows
  <2>2. \E m \in rows : \A k \in rows : m <= k
    BY <2>1, LeastElement
  <2> QED BY <2>1, <2>2 DEF Min
<1>5. /\ old \in MetricRows /\ old.dir = d
      /\ rows = {} => Amount(old) = 0
      /\ rows # {} => old = table[at]
  <2>1. CASE rows = {}
    BY <1>2, <2>1 DEF NewMetrics, MetricRows, Amount
  <2>2. CASE rows # {}
    BY <1>4, <2>2
  <2> QED BY <2>1, <2>2
<1> HIDE DEF plus, rest
<1>6. new \in MetricRows /\ new.dir = d /\ Amount(new) = Amount(old) + Units(rec)
  <2> HIDE DEF old
  <2>1. new \in MetricRows /\ new.dir = old.dir /\ Amount(new) = Amount(old) + plus + rest
    BY <1>3, <1>5, AddToRow
  <2>2. Amount(old) \in Nat
    BY <1>5, AmountType
  <2> QED BY <1>3, <1>5, <2>1, <2>2
<1> HIDE DEF new, old, at
<1>7. CASE rows = {}
  <2>1. \A i \in 1 .. Len(table) : table[i].dir = d => i > seen /\ i <= committed
    BY <1>7
  <2>2. Amount(new) = Units(rec)
    BY <1>5, <1>6, <1>7 DEF Units
  <2> QED BY <1>1, <1>6, <1>7, <2>1, <2>2 DEF CountsIn
<1>8. CASE rows # {}
  <2>1. table[at].dir = d
    BY <1>4, <1>8
  <2> QED BY <1>1, <1>4, <1>5, <1>6, <1>8, <2>1 DEF CountsIn
<1> QED BY <1>7, <1>8

(***************************************************************************)
(* An update that sees a row of each direction makes no row for any of them.  *)
(***************************************************************************)
LEMMA CountAllRows ==
  ASSUME metrics \in Seq(MetricRows), NEW batch \in Seq(Recs), NEW seen \in 0 .. Len(metrics),
         \A d \in Directions : \E i \in 1 .. seen : metrics[i].dir = d
  PROVE  LET next == CountAll(seen, batch)
         IN  /\ next \in Seq(MetricRows) /\ Len(next) >= Len(metrics)
             /\ \A i \in 1 .. Len(metrics) : next[i].dir = metrics[i].dir
             /\ \A i \in Len(metrics) + 1 .. Len(next) : next[i].dir \notin Directions
<1> DEFINE Good(t) == /\ Len(t) >= Len(metrics)
                      /\ \A i \in 1 .. Len(metrics) : t[i].dir = metrics[i].dir
                      /\ \A i \in Len(metrics) + 1 .. Len(t) : t[i].dir \notin Directions
           T == {x \in (0 .. Len(batch)) \X Seq(MetricRows) : Good(x[2])}
<1>1. <<0, metrics>> \in T
  OBVIOUS
<1>2. ASSUME NEW n \in 0 .. Len(batch) - 1, NEW t, <<n, t>> \in T
      PROVE  <<n + 1, Count(seen, Len(metrics), t, batch[n + 1])>> \in T
  <2> DEFINE rec == batch[n + 1]
             next == Count(seen, Len(metrics), t, rec)
  <2>1. t \in Seq(MetricRows) /\ Good(t) /\ rec \in Recs /\ n + 1 \in 0 .. Len(batch)
        /\ Len(metrics) \in Nat /\ seen \in Nat
    BY <1>2
  <2> HIDE DEF rec
  <2>2. next \in Seq(MetricRows) /\ Good(next)
    <3>1. CASE \E i \in 1 .. Len(t), r \in MetricRows :
                 t[i].dir = r.dir /\ next = [t EXCEPT ![i] = r]
      <4>1. PICK i \in 1 .. Len(t), r \in MetricRows :
              t[i].dir = r.dir /\ next = [t EXCEPT ![i] = r]
        BY <3>1
      <4>2. next \in Seq(MetricRows) /\ Len(next) = Len(t)
            /\ \A j \in 1 .. Len(t) : next[j].dir = t[j].dir
        BY <2>1, <4>1
      <4> HIDE DEF next
      <4> QED BY <2>1, <4>2
    <3>2. CASE /\ \A i \in 1 .. Len(t) :
                    t[i].dir = Direction(rec.pkt) => i > seen /\ i <= Len(metrics)
               /\ \E r \in MetricRows : r.dir = Direction(rec.pkt) /\ next = Append(t, r)
      <4>1. PICK r \in MetricRows : r.dir = Direction(rec.pkt) /\ next = Append(t, r)
        BY <3>2
      <4>2. r.dir \notin Directions
        <5>1. \A i \in 1 .. seen : t[i].dir = metrics[i].dir /\ i \in 1 .. Len(t)
          BY <2>1
        <5> QED BY <3>2, <4>1, <5>1
      <4>3. next \in Seq(MetricRows) /\ Len(next) = Len(t) + 1 /\ next[Len(t) + 1] = r
            /\ \A j \in 1 .. Len(t) : next[j] = t[j]
        BY <2>1, <4>1
      <4> HIDE DEF next
      <4>4. \A i \in Len(metrics) + 1 .. Len(next) : i \in Len(metrics) + 1 .. Len(t) \/ i = Len(t) + 1
        BY <2>1, <4>3
      <4>5. \A i \in Len(metrics) + 1 .. Len(t) : next[i] = t[i]
        BY <2>1, <4>3
      <4>6. \A i \in 1 .. Len(metrics) : next[i] = t[i]
        BY <2>1, <4>3
      <4>7. Len(next) >= Len(metrics)
        BY <2>1, <4>3
      <4> QED BY <2>1, <4>1, <4>2, <4>3, <4>4, <4>5, <4>6, <4>7
    <3>3. CountsIn(seen, Len(metrics), t, rec, next)
      BY <2>1, CountShape
    <3> HIDE DEF next, Good
    <3> QED BY <3>1, <3>2, <3>3 DEF CountsIn
  <2> QED BY <2>1, <2>2 DEF rec
<1>3. <<Len(batch), CountAll(seen, batch)>> \in T
  <2>1. Len(batch) \in Nat
    OBVIOUS
  <2> HIDE DEF T
  <2> QED BY <1>1, <1>2, <2>1, CountInduct, Zenon
<1> QED BY <1>3

-----------------------------------------------------------------------------
(* The invariant of filling *)

Counts == [stage : CountingStages, batch : Seq(Recs), rows : [Packets -> Rows], seen : Nat]

CountTypes == metrics \in Seq(MetricRows) /\ counting \in [Chains -> Counts]

RowsOf(d) == {i \in DOMAIN metrics : metrics[i].dir = d}
Fillers == {c \in Chains : counting[c].stage \in {"fill", "filling"}}

(* The first n rows have one of each direction. *)
HasAll(n) == \A d \in Directions : \E i \in 1 .. n : metrics[i].dir = d

(* Only metrics that have been filled are updated. *)
UpdatesFilled(c) ==
  /\ counting[c].stage \in {"update", "updating", "waiting"} => metrics # <<>>
  /\ counting[c].stage = "updating" => counting[c].seen \in 0 .. Len(metrics) /\ HasAll(counting[c].seen)

FillInv ==
  /\ metrics # <<>> => HasAll(Len(metrics))
  /\ \A c \in Chains : UpdatesFilled(c)
  /\ \A d \in Directions : Cardinality(RowsOf(d)) + Cardinality(Fillers) <= Cardinality(Chains)

LEMMA Cardinalities ==
  /\ Cardinality(Chains) \in Nat /\ IsFiniteSet(Fillers)
  /\ Cardinality(Fillers) \in Nat /\ Cardinality(Fillers) <= Cardinality(Chains)
  /\ CountTypes => \A d : IsFiniteSet(RowsOf(d)) /\ Cardinality(RowsOf(d)) \in Nat
<1>1. IsFiniteSet(Fillers) /\ Cardinality(Fillers) <= Cardinality(Chains)
  BY FiniteOK, FS_Subset DEF Fillers
<1>2. CountTypes => \A d : IsFiniteSet(RowsOf(d))
  <2> SUFFICES ASSUME CountTypes, NEW d PROVE IsFiniteSet(RowsOf(d))
    OBVIOUS
  <2>1. Len(metrics) \in Nat /\ RowsOf(d) \subseteq 1 .. Len(metrics)
    BY DEF CountTypes, RowsOf
  <2>2. IsFiniteSet(1 .. Len(metrics))
    BY <2>1, FS_Interval
  <2> QED BY <2>1, <2>2, FS_Subset
<1> QED BY <1>1, <1>2, FiniteOK, FS_CardinalityType

(* A step of one job that leaves the metrics alone and does not begin to fill. *)
LEMMA CountsOn ==
  ASSUME CountTypes, FillInv, metrics' = metrics, NEW c \in Chains, NEW e \in Counts,
         counting' = [counting EXCEPT ![c] = e],
         e.stage \in {"fill", "filling"} => counting[c].stage \in {"fill", "filling"},
         e.stage \in {"update", "updating", "waiting"} => metrics # <<>>,
         e.stage = "updating" => e.seen \in 0 .. Len(metrics) /\ HasAll(e.seen)
  PROVE  CountTypes' /\ FillInv'
<1>1. CountTypes'
  BY DEF CountTypes
<1>2. \A x \in Chains : counting'[x] = IF x = c THEN e ELSE counting[x]
  BY DEF CountTypes
<1>3. \A n : HasAll(n)' = HasAll(n)
  BY DEF HasAll
<1>4. \A x \in Chains : UpdatesFilled(x)'
  BY <1>2, <1>3 DEF FillInv, UpdatesFilled
<1>5. Fillers' \subseteq Fillers
  BY <1>2 DEF Fillers
<1>6. Cardinality(Fillers') <= Cardinality(Fillers) /\ Cardinality(Fillers') \in Nat
  BY <1>5, Cardinalities, FS_Subset, FS_CardinalityType
<1>7. \A d : RowsOf(d)' = RowsOf(d)
  BY DEF RowsOf
<1>8. \A d \in Directions : Cardinality(RowsOf(d)') + Cardinality(Fillers') <= Cardinality(Chains)
  BY <1>6, <1>7, Cardinalities DEF FillInv
<1> QED BY <1>1, <1>3, <1>4, <1>8 DEF FillInv

LEMMA NothingIsCount == Nothing \in Counts /\ Nothing.stage = "none" /\ Nothing.batch = <<>>
<1>1. Nothing.stage = "none" /\ Nothing.batch = <<>> /\ Nothing.rows = NoRows /\ Nothing.seen = 0
  BY DEF Nothing
<1>2. NoRows \in [Packets -> Rows] /\ "none" \in CountingStages /\ <<>> \in Seq(Recs)
  BY NoRowIsRow DEF NoRows, CountingStages
<1> QED BY <1>1, <1>2 DEF Nothing, Counts

LEMMA ToStageShape ==
  ASSUME CountTypes, NEW c \in Chains, NEW stage \in CountingStages, ToStage(c, stage)
  PROVE  \E e \in Counts :
           /\ counting' = [counting EXCEPT ![c] = e]
           /\ e.stage = stage /\ e.batch = counting[c].batch /\ e.seen = counting[c].seen
<1> DEFINE e == [counting[c] EXCEPT !.stage = stage]
<1>1. e \in Counts /\ e.stage = stage /\ e.batch = counting[c].batch /\ e.seen = counting[c].seen
  BY DEF CountTypes, Counts
<1>2. counting' = [counting EXCEPT ![c] = e]
  BY DEF ToStage, CountTypes
<1> HIDE DEF e
<1> QED BY <1>1, <1>2

(* The job of c has nothing more to count. *)
LEMMA DoneKeeps ==
  ASSUME CountTypes, FillInv, metrics' = metrics, NEW c \in Chains, Done(c)
  PROVE  CountTypes' /\ FillInv'
<1>1. counting' = [counting EXCEPT ![c] = Nothing]
  BY DEF Done
<1> QED BY <1>1, NothingIsCount, CountsOn

(* A job that finds the metrics empty becomes one more that fills them. *)
LEMMA AskMetricsKeeps ==
  ASSUME CountTypes, FillInv, NEW c \in Chains, AskMetrics(c)
  PROVE  CountTypes' /\ FillInv'
<1>1. metrics' = metrics /\ counting[c].stage = "asking"
      /\ ToStage(c, IF metrics = <<>> THEN "fill" ELSE "update")
  BY DEF AskMetrics, AtCount
<1>2. CASE metrics # <<>>
  <2>1. \E e \in Counts : counting' = [counting EXCEPT ![c] = e] /\ e.stage = "update"
    BY <1>1, <1>2, ToStageShape DEF CountingStages
  <2> QED BY <1>1, <1>2, <2>1, CountsOn
<1>3. CASE metrics = <<>>
  <2>1. PICK e \in Counts : counting' = [counting EXCEPT ![c] = e] /\ e.stage = "fill"
    BY <1>1, <1>3, ToStageShape DEF CountingStages
  <2>2. CountTypes'
    BY <1>1, <2>1 DEF CountTypes
  <2>3. \A x \in Chains : UpdatesFilled(x)'
    BY <1>1, <2>1 DEF FillInv, UpdatesFilled, CountTypes, HasAll
  <2>4. \A d : RowsOf(d)' = {}
    BY <1>1, <1>3 DEF RowsOf
  <2>5. Cardinality(Fillers') <= Cardinality(Chains) /\ Cardinality(Fillers') \in Nat
    BY FiniteOK, FS_Subset, FS_CardinalityType DEF Fillers
  <2>6. \A d \in Directions : Cardinality(RowsOf(d)') + Cardinality(Fillers') <= Cardinality(Chains)
    BY <2>4, <2>5, FS_EmptySet, Cardinalities
  <2> QED BY <1>1, <1>3, <2>2, <2>3, <2>6 DEF FillInv
<1> QED BY <1>2, <1>3

(* Filling appends one row for each direction, and ends the job's filling. *)
LEMMA FillKeeps ==
  ASSUME CountTypes, FillInv, NEW c \in Chains, Fill(c)
  PROVE  CountTypes' /\ FillInv'
<1> DEFINE new == FillAll(counting[c].rows)
<1>1. /\ counting[c].stage = "filling" /\ metrics' = metrics \o new
      /\ counting' = [counting EXCEPT ![c] = Nothing]
  BY DEF Fill, AtCount, Done
<1>2. /\ new \in Seq(MetricRows)
      /\ \A d \in Directions : \E j \in 1 .. Len(new) :
           \A i \in 1 .. Len(new) : new[i].dir = d <=> i = j
  BY FillAllShape
<1> HIDE DEF new
<1>3. /\ metrics \in Seq(MetricRows) /\ Len(metrics) \in Nat /\ Len(new) \in Nat
      /\ metrics' \in Seq(MetricRows) /\ Len(metrics') = Len(metrics) + Len(new)
      /\ \A i \in 1 .. Len(metrics) : metrics'[i] = metrics[i]
      /\ \A i \in 1 .. Len(new) : metrics'[Len(metrics) + i] = new[i]
  BY <1>1, <1>2 DEF CountTypes
<1>4. CountTypes'
  BY <1>1, <1>3, NothingIsCount DEF CountTypes
<1>5. \A x \in Chains : counting'[x] = IF x = c THEN Nothing ELSE counting[x]
  BY <1>1 DEF CountTypes
<1>6. HasAll(Len(metrics))'
  <2> SUFFICES ASSUME NEW d \in Directions
               PROVE  \E i \in 1 .. Len(metrics') : metrics'[i].dir = d
    BY DEF HasAll
  <2>1. PICK j \in 1 .. Len(new) : new[j].dir = d
    BY <1>2
  <2>2. Len(metrics) + j \in 1 .. Len(metrics') /\ metrics'[Len(metrics) + j].dir = d
    BY <1>3, <2>1
  <2> QED BY <2>2
<1>7. ASSUME NEW x \in Chains PROVE UpdatesFilled(x)'
  <2>1. CASE x = c
    BY <1>5, <2>1, NothingIsCount DEF UpdatesFilled
  <2>2. CASE x # c
    <3>1. counting'[x] = counting[x] /\ UpdatesFilled(x)
      BY <1>5, <2>2 DEF FillInv
    <3>2. metrics # <<>> => metrics' # <<>>
      BY <1>3
    <3>3. ASSUME counting[x].stage = "updating"
          PROVE  /\ counting[x].seen \in 0 .. Len(metrics')
                 /\ \A d \in Directions : \E i \in 1 .. counting[x].seen : metrics'[i].dir = d
      <4>1. counting[x].seen \in 0 .. Len(metrics) /\ HasAll(counting[x].seen)
        BY <3>1, <3>3 DEF UpdatesFilled
      <4>2. \A i \in 1 .. counting[x].seen : metrics'[i] = metrics[i]
        BY <1>3, <4>1
      <4> QED BY <1>3, <4>1, <4>2, SMTT(60) DEF HasAll
    <3> QED BY <3>1, <3>2, <3>3 DEF UpdatesFilled, HasAll
  <2> QED BY <2>1, <2>2
<1>8. Fillers' = Fillers \ {c} /\ c \in Fillers
  BY <1>1, <1>5, NothingIsCount DEF Fillers
<1>9. Cardinality(Fillers') = Cardinality(Fillers) - 1
  BY <1>8, Cardinalities, FS_RemoveElement
<1>10. ASSUME NEW d \in Directions
       PROVE  Cardinality(RowsOf(d)') + Cardinality(Fillers') <= Cardinality(Chains)
  <2>1. PICK j \in 1 .. Len(new) : \A i \in 1 .. Len(new) : new[i].dir = d <=> i = j
    BY <1>2
  <2>2. RowsOf(d)' = RowsOf(d) \cup {Len(metrics) + j}
    <3>1. DOMAIN metrics' = 1 .. Len(metrics) + Len(new) /\ DOMAIN metrics = 1 .. Len(metrics)
      BY <1>3
    <3>2. \A i \in 1 .. Len(metrics) + Len(new) :
            i \in 1 .. Len(metrics) \/ \E k \in 1 .. Len(new) : i = Len(metrics) + k
      <4> SUFFICES ASSUME NEW i \in 1 .. Len(metrics) + Len(new), ~(i \in 1 .. Len(metrics))
                   PROVE  \E k \in 1 .. Len(new) : i = Len(metrics) + k
        OBVIOUS
      <4>1. i - Len(metrics) \in 1 .. Len(new) /\ i = Len(metrics) + (i - Len(metrics))
        BY <1>3
      <4> QED BY <4>1
    <3>3. Len(metrics) + j \in 1 .. Len(metrics) + Len(new)
      BY <1>3
    <3>4. \A k \in 1 .. Len(new) : metrics'[Len(metrics) + k].dir = d <=> k = j
      BY <1>3, <2>1
    <3>5. \A i \in 1 .. Len(metrics) : i \in 1 .. Len(metrics) + Len(new)
      BY <1>3
    <3>6. RowsOf(d)' = {i \in 1 .. Len(metrics) + Len(new) : metrics'[i].dir = d}
      BY <3>1 DEF RowsOf
    <3>7. RowsOf(d) = {i \in 1 .. Len(metrics) : metrics[i].dir = d}
      BY <3>1 DEF RowsOf
    <3>8. ASSUME NEW i \in RowsOf(d)' PROVE i \in RowsOf(d) \cup {Len(metrics) + j}
      <4>1. i \in 1 .. Len(metrics) + Len(new) /\ metrics'[i].dir = d
        BY <3>6
      <4>2. CASE i \in 1 .. Len(metrics)
        BY <1>3, <3>7, <4>1, <4>2
      <4>3. ASSUME NEW k \in 1 .. Len(new), i = Len(metrics) + k
            PROVE  i = Len(metrics) + j
        BY <3>4, <4>1, <4>3
      <4> QED BY <3>2, <4>1, <4>2, <4>3
    <3>9. RowsOf(d) \subseteq RowsOf(d)'
      BY <1>3, <3>5, <3>6, <3>7
    <3>10. Len(metrics) + j \in RowsOf(d)'
      BY <3>3, <3>4, <3>6
    <3> QED BY <3>8, <3>9, <3>10
  <2>3. Cardinality(RowsOf(d)') <= Cardinality(RowsOf(d)) + 1 /\ Cardinality(RowsOf(d)') \in Nat
    <3>1. IsFiniteSet(RowsOf(d)) /\ Cardinality(RowsOf(d)) \in Nat
      BY Cardinalities
    <3>2. Cardinality(RowsOf(d) \cup {Len(metrics) + j}) =
            IF Len(metrics) + j \in RowsOf(d) THEN Cardinality(RowsOf(d))
            ELSE Cardinality(RowsOf(d)) + 1
      BY <3>1, FS_AddElement
    <3> QED BY <2>2, <3>1, <3>2
  <2>4. Cardinality(RowsOf(d)) + Cardinality(Fillers) <= Cardinality(Chains)
        /\ Cardinality(RowsOf(d)) \in Nat /\ Cardinality(Fillers) \in Nat
        /\ Cardinality(Chains) \in Nat
    BY Cardinalities DEF FillInv
  <2> QED BY <1>9, <2>3, <2>4
<1> QED BY <1>4, <1>6, <1>7, <1>10 DEF FillInv

(* An update appends no row of any direction. *)
LEMMA UpdateKeeps ==
  ASSUME CountTypes, FillInv, NEW c \in Chains, Update(c)
  PROVE  CountTypes' /\ FillInv'
<1> DEFINE batch == counting[c].batch
           seen == counting[c].seen
<1>1. /\ counting[c].stage = "updating" /\ metrics' = CountAll(seen, batch)
      /\ counting' = [counting EXCEPT ![c] = Nothing]
  BY DEF Update, AtCount, Done
<1>2. /\ metrics \in Seq(MetricRows) /\ batch \in Seq(Recs) /\ Len(metrics) \in Nat
      /\ metrics # <<>> /\ HasAll(Len(metrics))
      /\ seen \in 0 .. Len(metrics) /\ HasAll(seen)
  BY <1>1 DEF CountTypes, Counts, FillInv, UpdatesFilled
<1>3. /\ metrics' \in Seq(MetricRows) /\ Len(metrics') >= Len(metrics) /\ Len(metrics') \in Nat
      /\ \A i \in 1 .. Len(metrics) : metrics'[i].dir = metrics[i].dir
      /\ \A i \in Len(metrics) + 1 .. Len(metrics') : metrics'[i].dir \notin Directions
  <2> HIDE DEF batch, seen
  <2>1. \A d \in Directions : \E i \in 1 .. seen : metrics[i].dir = d
    BY <1>2 DEF HasAll
  <2>2. /\ CountAll(seen, batch) \in Seq(MetricRows)
        /\ Len(CountAll(seen, batch)) >= Len(metrics)
        /\ \A i \in 1 .. Len(metrics) : CountAll(seen, batch)[i].dir = metrics[i].dir
        /\ \A i \in Len(metrics) + 1 .. Len(CountAll(seen, batch)) :
             CountAll(seen, batch)[i].dir \notin Directions
    BY <1>2, <2>1, CountAllRows
  <2> QED BY <1>1, <2>2
<1>4. CountTypes'
  BY <1>1, <1>3, NothingIsCount DEF CountTypes
<1>5. \A x \in Chains : counting'[x] = IF x = c THEN Nothing ELSE counting[x]
  BY <1>1 DEF CountTypes
<1>6. \A n \in 0 .. Len(metrics) : HasAll(n) =>
        \A d \in Directions : \E i \in 1 .. n : metrics'[i].dir = d
  <2>1. \A n \in 0 .. Len(metrics) : \A i \in 1 .. n : metrics'[i].dir = metrics[i].dir
    BY <1>2, <1>3
  <2> QED BY <2>1 DEF HasAll
<1>7. HasAll(Len(metrics))'
  <2>1. \A i \in 1 .. Len(metrics) : i \in 1 .. Len(metrics')
    BY <1>2, <1>3
  <2>2. \A d \in Directions : \E i \in 1 .. Len(metrics) : metrics'[i].dir = d
    BY <1>2, <1>6
  <2> QED BY <2>1, <2>2 DEF HasAll
<1>8. metrics' # <<>>
  BY <1>2, <1>3
<1>9. ASSUME NEW x \in Chains PROVE UpdatesFilled(x)'
  <2>1. CASE x = c
    BY <1>5, <2>1, NothingIsCount DEF UpdatesFilled
  <2>2. CASE x # c
    <3>1. counting'[x] = counting[x] /\ UpdatesFilled(x)
      BY <1>5, <2>2 DEF FillInv
    <3>2. ASSUME counting[x].stage = "updating"
          PROVE  /\ counting[x].seen \in 0 .. Len(metrics')
                 /\ \A d \in Directions : \E i \in 1 .. counting[x].seen : metrics'[i].dir = d
      <4>1. counting[x].seen \in 0 .. Len(metrics) /\ HasAll(counting[x].seen)
        BY <3>1, <3>2 DEF UpdatesFilled
      <4>2. counting[x].seen \in 0 .. Len(metrics')
        BY <1>2, <1>3, <4>1
      <4> QED BY <1>6, <4>1, <4>2
    <3> QED BY <1>8, <3>1, <3>2 DEF UpdatesFilled, HasAll
  <2> QED BY <2>1, <2>2
<1>10. Fillers' = Fillers
  BY <1>1, <1>5, NothingIsCount DEF Fillers
<1>11. ASSUME NEW d \in Directions PROVE RowsOf(d)' = RowsOf(d)
  <2>1. /\ RowsOf(d)' = {i \in 1 .. Len(metrics') : metrics'[i].dir = d}
        /\ RowsOf(d) = {i \in 1 .. Len(metrics) : metrics[i].dir = d}
    BY <1>2, <1>3 DEF RowsOf
  <2>2. \A i \in 1 .. Len(metrics') :
          i \in 1 .. Len(metrics) \/ i \in Len(metrics) + 1 .. Len(metrics')
    BY <1>2, <1>3
  <2>3. \A i \in 1 .. Len(metrics) : i \in 1 .. Len(metrics')
    BY <1>2, <1>3
  <2> QED BY <1>3, <2>1, <2>2, <2>3
<1> QED BY <1>4, <1>7, <1>9, <1>10, <1>11 DEF FillInv

LEMMA FillNext ==
  ASSUME Inv, CountTypes, FillInv, [MNext]_<<vars, mvars>>
  PROVE  CountTypes' /\ FillInv'
<1>1. CASE UNCHANGED mvars
  BY <1>1 DEF mvars, CountTypes, FillInv, UpdatesFilled, HasAll, RowsOf, Fillers
<1>2. CASE MCrash
  <2>1. metrics' = metrics /\ counting' = [c \in Chains |-> Nothing]
    BY <1>2 DEF MCrash
  <2>2. CountTypes'
    BY <2>1, NothingIsCount DEF CountTypes
  <2>3. \A c \in Chains : counting'[c] = Nothing
    BY <2>1
  <2>4. Fillers' = {} /\ \A c \in Chains : UpdatesFilled(c)'
    BY <2>3, NothingIsCount DEF Fillers, UpdatesFilled
  <2>5. \A d : RowsOf(d)' = RowsOf(d)
    BY <2>1 DEF RowsOf
  <2>6. ASSUME NEW d \in Directions
        PROVE  Cardinality(RowsOf(d)') + Cardinality(Fillers') <= Cardinality(Chains)
    <3>1. Cardinality(RowsOf(d)) + Cardinality(Fillers) <= Cardinality(Chains)
          /\ Cardinality(RowsOf(d)) \in Nat /\ Cardinality(Fillers) \in Nat
          /\ Cardinality(Chains) \in Nat /\ Cardinality(Fillers') = 0
      BY <2>4, FS_EmptySet, Cardinalities DEF FillInv
    <3> QED BY <2>5, <3>1
  <2> QED BY <2>1, <2>2, <2>4, <2>6 DEF FillInv, HasAll
<1>3. ASSUME NEW c \in Chains, MWork(c) \/ MetricsFail(c)
      PROVE  CountTypes' /\ FillInv'
  <2>1. counting[c] \in Counts
    BY DEF CountTypes
  <2>2. CASE TableWork(c)
    BY <1>1, <2>2 DEF TableWork
  <2>3. CASE StoreThenCount(c)
    <3> DEFINE e == [Nothing EXCEPT !.stage = "asking", !.batch = job[c].batch]
    <3>1. counting' = [counting EXCEPT ![c] = e] /\ metrics' = metrics
      BY <2>3 DEF StoreThenCount
    <3>2. job[c].batch \in Seq(Recs)
      BY DEF Inv, Types, Jobs
    <3>3. e \in Counts /\ e.stage = "asking"
      BY <3>2, NothingIsCount DEF Counts, CountingStages
    <3> HIDE DEF e
    <3> QED BY <3>1, <3>3, CountsOn
  <2>4. CASE AskMetrics(c)
    BY <2>4, AskMetricsKeeps
  <2>5. CASE BeginFill(c)
    <3> DEFINE e == [counting[c] EXCEPT !.stage = "filling", !.rows = row]
    <3>1. counting' = [counting EXCEPT ![c] = e] /\ metrics' = metrics
          /\ counting[c].stage = "fill"
      BY <2>5 DEF BeginFill, AtCount, CountTypes
    <3>2. row \in [Packets -> Rows]
      BY DEF Inv, Types
    <3>3. e \in Counts /\ e.stage = "filling"
      BY <2>1, <3>2 DEF Counts, CountingStages
    <3> HIDE DEF e
    <3> QED BY <3>1, <3>3, CountsOn
  <2>6. CASE Fill(c)
    BY <2>6, FillKeeps
  <2>7. CASE BeginUpdate(c)
    <3> DEFINE e == [counting[c] EXCEPT !.stage = "updating", !.seen = Len(metrics)]
    <3>1. counting' = [counting EXCEPT ![c] = e] /\ metrics' = metrics
          /\ counting[c].stage = "update"
      BY <2>7 DEF BeginUpdate, AtCount, CountTypes
    <3>2. Len(metrics) \in Nat
      BY DEF CountTypes
    <3>3. e \in Counts /\ e.stage = "updating" /\ e.seen = Len(metrics)
      BY <2>1, <3>2 DEF Counts, CountingStages
    <3>4. metrics # <<>> /\ HasAll(Len(metrics))
      BY <3>1 DEF FillInv, UpdatesFilled
    <3> HIDE DEF e
    <3>5. e.seen \in 0 .. Len(metrics) /\ HasAll(e.seen)
      BY <3>2, <3>3, <3>4
    <3> QED BY <3>1, <3>3, <3>4, <3>5, CountsOn
  <2>8. CASE Update(c)
    BY <2>8, UpdateKeeps
  <2>9. CASE UpdateWaits(c)
    <3>1. metrics' = metrics /\ counting[c].stage = "updating" /\ ToStage(c, "waiting")
      BY <2>9 DEF UpdateWaits, AtCount
    <3>2. \E e \in Counts : counting' = [counting EXCEPT ![c] = e] /\ e.stage = "waiting"
      BY <3>1, ToStageShape DEF CountingStages
    <3>3. metrics # <<>>
      BY <3>1 DEF FillInv, UpdatesFilled
    <3> QED BY <3>1, <3>2, <3>3, CountsOn
  <2>10. CASE LockWaitTimeout(c) \/ MetricsFail(c)
    <3>1. metrics' = metrics /\ Done(c)
      BY <2>10 DEF LockWaitTimeout, MetricsFail
    <3> QED BY <3>1, DoneKeeps
  <2> QED BY <1>3, <2>2, <2>3, <2>4, <2>5, <2>6, <2>7, <2>8, <2>9, <2>10 DEF MWork, CountRecords
<1> QED BY <1>1, <1>2, <1>3 DEF MNext

LEMMA FillInit == MInit => CountTypes /\ FillInv
<1> SUFFICES ASSUME MInit PROVE CountTypes /\ FillInv
  OBVIOUS
<1>1. /\ metrics = IF Filled THEN FillAll(NoRows) ELSE <<>>
      /\ counting = [c \in Chains |-> Nothing]
  BY DEF MInit
<1>2. CountTypes
  BY <1>1, FillAllShape, NothingIsCount DEF CountTypes
<1>3. \A c \in Chains : counting[c] = Nothing
  BY <1>1
<1>4. Fillers = {} /\ \A c \in Chains : UpdatesFilled(c)
  BY <1>3, NothingIsCount DEF Fillers, UpdatesFilled
<1>5. ASSUME metrics # <<>>, NEW d \in Directions
      PROVE  \E j \in 1 .. Len(metrics) : RowsOf(d) = {j}
  <2>1. metrics = FillAll(NoRows)
    BY <1>1, <1>5
  <2>2. PICK j \in 1 .. Len(metrics) : \A i \in 1 .. Len(metrics) : metrics[i].dir = d <=> i = j
    <3>1. PICK rows : rows = NoRows
      OBVIOUS
    <3>2. \E j \in 1 .. Len(FillAll(rows)) :
            \A i \in 1 .. Len(FillAll(rows)) : FillAll(rows)[i].dir = d <=> i = j
      BY FillAllShape
    <3> QED BY <2>1, <3>1, <3>2
  <2>3. DOMAIN metrics = 1 .. Len(metrics)
    BY <1>2 DEF CountTypes
  <2> QED BY <2>2, <2>3 DEF RowsOf
<1>6. metrics # <<>> => HasAll(Len(metrics))
  BY <1>5 DEF HasAll, RowsOf
<1>7. ASSUME NEW d \in Directions
      PROVE  Cardinality(RowsOf(d)) + Cardinality(Fillers) <= Cardinality(Chains)
  <2>1. Cardinality(RowsOf(d)) <= 1 /\ Cardinality(RowsOf(d)) \in Nat
    <3>1. CASE metrics = <<>>
      BY <3>1, FS_EmptySet DEF RowsOf
    <3>2. CASE metrics # <<>>
      <4>1. \E j : RowsOf(d) = {j}
        BY <1>5, <3>2
      <4>2. Cardinality(RowsOf(d)) = 1
        BY <4>1, FS_Singleton, Zenon
      <4> QED BY <4>2
    <3> QED BY <3>1, <3>2
  <2>2. Cardinality(Chains) >= 1
    <3>1. Chains # {}
      BY DirectionsOK
    <3> QED BY <3>1, FiniteOK, FS_EmptySet, Cardinalities
  <2>3. Cardinality(Fillers) = 0
    BY <1>4, FS_EmptySet
  <2> QED BY <2>1, <2>2, <2>3, Cardinalities
<1> QED BY <1>2, <1>4, <1>6, <1>7 DEF FillInv

(***************************************************************************)
(* Jobs that find the metrics empty at the same time fill them once each      *)
(* (packet.go:683), and no update adds a row of a bridge's direction: the     *)
(* rows of a direction and the jobs that are still to fill are together no    *)
(* more than the chains.                                                      *)
(***************************************************************************)
THEOREM FilledOnce == ASSUME LongerThanBatch PROVE MSpec => []FilledOncePerJob
<1>1. Inv /\ CountTypes /\ FillInv /\ [MNext]_<<vars, mvars>> => CountTypes' /\ FillInv'
  BY FillNext
<1>2. CountTypes /\ FillInv => FilledOncePerJob
  <2> SUFFICES ASSUME CountTypes, FillInv, NEW d \in Directions
               PROVE  Cardinality(RowsOf(d)) <= Cardinality(Chains)
    BY Zenon DEF FilledOncePerJob, RowsOf
  <2>1. /\ Cardinality(RowsOf(d)) + Cardinality(Fillers) <= Cardinality(Chains)
        /\ Cardinality(RowsOf(d)) \in Nat /\ Cardinality(Fillers) \in Nat
        /\ Cardinality(Chains) \in Nat
    BY Cardinalities DEF FillInv
  <2> QED BY <2>1
<1> QED BY <1>1, <1>2, FillInit, MSpecInv, PTL DEF MSpec

-----------------------------------------------------------------------------
(* Sums over the rows *)

(* Total is the last of the partial sums. *)
IsSums(f, s) ==
  /\ f \in [0 .. Len(s) -> Nat] /\ f[0] = 0 /\ f[Len(s)] = Total(s)
  /\ \A n \in 1 .. Len(s) : f[n] = f[n - 1] + s[n]

LEMMA PartialSums ==
  ASSUME NEW s \in Seq(Nat)
  PROVE  \E f : IsSums(f, s)
<1> DEFINE N == Len(s)
           Sums(m, g) == g = [n \in 0 .. m |-> IF n = 0 THEN 0 ELSE g[n - 1] + s[n]]
           U == {m \in Nat : \E g : Sums(m, g)}
<1>1. 0 \in U
  <2>1. Sums(0, [n \in 0 .. 0 |-> 0])
    OBVIOUS
  <2> QED BY <2>1
<1>2. ASSUME NEW m \in Nat, m \in U PROVE m + 1 \in U
  <2>1. PICK g : Sums(m, g)
    BY <1>2
  <2> DEFINE h == [n \in 0 .. m + 1 |-> IF n = m + 1 THEN g[m] + s[m + 1] ELSE g[n]]
  <2>2. ASSUME NEW n \in 0 .. m + 1
        PROVE  h[n] = IF n = 0 THEN 0 ELSE h[n - 1] + s[n]
    <3>1. CASE n = m + 1
      BY <3>1
    <3>2. CASE n # m + 1
      <4>1. n \in 0 .. m
        BY <3>2
      <4>2. g[n] = IF n = 0 THEN 0 ELSE g[n - 1] + s[n]
        BY <2>1, <4>1
      <4> QED BY <4>1, <4>2
    <3> QED BY <3>1, <3>2
  <2>3. Sums(m + 1, h)
    BY <2>2
  <2>4. m + 1 \in Nat
    OBVIOUS
  <2> HIDE DEF Sums, h
  <2> QED BY <2>3, <2>4
<1>3. \E g : Sums(N, g)
  <2>1. N \in Nat
    OBVIOUS
  <2> HIDE DEF U
  <2>2. Nat \subseteq U
    BY <1>1, <1>2, Induct
  <2> QED BY <2>1, <2>2 DEF U
<1> DEFINE f == CHOOSE g : Sums(N, g)
<1>4. f = [n \in 0 .. N |-> IF n = 0 THEN 0 ELSE f[n - 1] + s[n]]
  BY <1>3
<1>5. Total(s) = f[N]
  BY DEF Total
<1>6. N \in Nat /\ \A n \in 1 .. N : s[n] \in Nat
  OBVIOUS
<1> HIDE DEF f
<1> DEFINE V == {n \in 0 .. N : f[n] \in Nat}
<1>7. 0 \in V
  BY <1>4, <1>6
<1>8. ASSUME NEW n \in 0 .. N - 1, n \in V PROVE n + 1 \in V
  BY <1>4, <1>6, <1>8
<1>9. 0 .. N \subseteq V
  <2> HIDE DEF V
  <2> QED BY <1>6, <1>7, <1>8, InductTo
<1>10. f \in [0 .. N -> Nat]
  BY <1>4, <1>9
<1>11. f[0] = 0 /\ \A n \in 1 .. N : f[n] = f[n - 1] + s[n]
  BY <1>4, <1>6
<1> QED BY <1>5, <1>10, <1>11 DEF IsSums

(* A total grows by what one of the amounts grows by. *)
LEMMA TotalChanged ==
  ASSUME NEW s \in Seq(Nat), NEW t \in Seq(Nat), Len(t) = Len(s),
         NEW i \in 1 .. Len(s), NEW u \in Nat,
         t[i] = s[i] + u, \A n \in 1 .. Len(s) : n # i => t[n] = s[n]
  PROVE  Total(t) = Total(s) + u
<1> DEFINE N == Len(s)
<1>1. PICK f : IsSums(f, s)
  BY PartialSums
<1>2. PICK g : IsSums(g, t)
  BY PartialSums
<1>3. N \in Nat /\ Len(t) = N /\ i \in 1 .. N /\ \A n \in 1 .. N : s[n] \in Nat
  OBVIOUS
<1> HIDE DEF N
<1> DEFINE V == {n \in 0 .. N : g[n] = f[n] + (IF i <= n THEN u ELSE 0)}
<1>4. 0 \in V
  BY <1>1, <1>2, <1>3 DEF IsSums
<1>5. ASSUME NEW n \in 0 .. N - 1, n \in V PROVE n + 1 \in V
  <2>1. n + 1 \in 1 .. N /\ n \in 0 .. N /\ (n + 1) - 1 = n
    BY <1>3
  <2>2. f[n] \in Nat /\ f[n + 1] = f[n] + s[n + 1]
    BY <1>1, <2>1 DEF IsSums, N
  <2>3. g[n + 1] = g[n] + t[n + 1]
    BY <1>2, <1>3, <2>1 DEF IsSums
  <2>4. t[n + 1] = s[n + 1] + (IF i = n + 1 THEN u ELSE 0) /\ s[n + 1] \in Nat
    BY <1>3, <2>1, SMTT(60) DEF N
  <2>5. g[n] = f[n] + (IF i <= n THEN u ELSE 0)
    BY <1>5
  <2>6. g[n + 1] = f[n + 1] + (IF i <= n + 1 THEN u ELSE 0)
    BY <1>3, <2>1, <2>2, <2>3, <2>4, <2>5, SMTT(60)
  <2> QED BY <2>1, <2>6
<1>6. 0 .. N \subseteq V
  <2> HIDE DEF V
  <2> QED BY <1>3, <1>4, <1>5, InductTo
<1>7. g[N] = f[N] + u
  BY <1>3, <1>6
<1> QED BY <1>1, <1>2, <1>3, <1>7 DEF IsSums, N

(* ... and by an amount that is appended. *)
LEMMA TotalAppended ==
  ASSUME NEW s \in Seq(Nat), NEW u \in Nat
  PROVE  Total(Append(s, u)) = Total(s) + u
<1> DEFINE N == Len(s)
           t == Append(s, u)
<1>1. PICK f : IsSums(f, s)
  BY PartialSums
<1>2. N \in Nat /\ t \in Seq(Nat) /\ Len(t) = N + 1 /\ t[N + 1] = u
      /\ \A n \in 1 .. N : t[n] = s[n]
  OBVIOUS
<1> HIDE DEF t, N
<1>3. PICK g : IsSums(g, t)
  BY <1>2, PartialSums
<1> DEFINE V == {n \in 0 .. N : g[n] = f[n]}
<1>4. 0 \in V
  BY <1>1, <1>2, <1>3 DEF IsSums
<1>5. ASSUME NEW n \in 0 .. N - 1, n \in V PROVE n + 1 \in V
  <2>1. n + 1 \in 1 .. N /\ n + 1 \in 1 .. N + 1 /\ (n + 1) - 1 = n
    BY <1>2
  <2>2. f[n + 1] = f[n] + s[n + 1]
    BY <1>1, <2>1 DEF IsSums, N
  <2>3. g[n + 1] = g[n] + t[n + 1] /\ t[n + 1] = s[n + 1]
    BY <1>2, <1>3, <2>1 DEF IsSums
  <2> QED BY <1>5, <2>1, <2>2, <2>3
<1>6. 0 .. N \subseteq V
  <2> HIDE DEF V
  <2> QED BY <1>2, <1>4, <1>5, InductTo
<1>7. g[N] = f[N] /\ N + 1 \in 1 .. N + 1 /\ (N + 1) - 1 = N
  <2>1. N \in 0 .. N /\ N + 1 \in 1 .. N + 1 /\ (N + 1) - 1 = N
    BY <1>2
  <2> QED BY <1>6, <2>1
<1>8. g[N + 1] = g[N] + u
  BY <1>2, <1>3, <1>7 DEF IsSums
<1> QED BY <1>1, <1>2, <1>3, <1>7, <1>8 DEF IsSums, t, N

(* The total of nothing is 0. *)
LEMMA TotalOfZeros ==
  ASSUME NEW s \in Seq(Nat), \A n \in 1 .. Len(s) : s[n] = 0
  PROVE  Total(s) = 0
<1> DEFINE N == Len(s)
<1>1. PICK f : IsSums(f, s)
  BY PartialSums
<1>2. N \in Nat
  OBVIOUS
<1> DEFINE V == {n \in 0 .. N : f[n] = 0}
<1>3. 0 \in V
  BY <1>1, <1>2 DEF IsSums
<1>4. ASSUME NEW n \in 0 .. N - 1, n \in V PROVE n + 1 \in V
  BY <1>1, <1>2, <1>4 DEF IsSums
<1>5. 0 .. N \subseteq V
  <2> HIDE DEF V
  <2> QED BY <1>2, <1>3, <1>4, InductTo
<1> QED BY <1>1, <1>2, <1>5 DEF IsSums

-----------------------------------------------------------------------------
(* The value an update adds *)

Amounts(table, d) == [i \in DOMAIN table |-> IF table[i].dir = d THEN Amount(table[i]) ELSE 0]

LEMMA ValueIsTotal ==
  ASSUME NEW table \in Seq(MetricRows), NEW d
  PROVE  /\ ValueOf(table, d) = Total(Amounts(table, d)) /\ ValueOf(table, d) \in Nat
         /\ Amounts(table, d) \in Seq(Nat) /\ Len(Amounts(table, d)) = Len(table)
         /\ \A i \in 1 .. Len(table) :
              Amounts(table, d)[i] = IF table[i].dir = d THEN Amount(table[i]) ELSE 0
<1>1. ValueOf(table, d) = Total(Amounts(table, d))
  BY DEF ValueOf, Amounts, Amount
<1>2. \A i \in 1 .. Len(table) : Amount(table[i]) \in Nat
  BY AmountType
<1>3. /\ Amounts(table, d) \in Seq(Nat) /\ Len(Amounts(table, d)) = Len(table)
      /\ \A i \in 1 .. Len(table) :
           Amounts(table, d)[i] = IF table[i].dir = d THEN Amount(table[i]) ELSE 0
  BY <1>2 DEF Amounts
<1>4. \A s \in Seq(Nat) : Total(s) \in Nat
  <2> SUFFICES ASSUME NEW s \in Seq(Nat) PROVE Total(s) \in Nat
    OBVIOUS
  <2>1. \E f : IsSums(f, s)
    BY PartialSums
  <2>2. Len(s) \in 0 .. Len(s)
    OBVIOUS
  <2> QED BY <2>1, <2>2 DEF IsSums
<1> QED BY <1>1, <1>3, <1>4

LEMMA ValueCounts ==
  ASSUME NEW table \in Seq(MetricRows), NEW rec \in Recs, NEW seen, NEW committed, NEW next,
         CountsIn(seen, committed, table, rec, next), NEW d
  PROVE  /\ next \in Seq(MetricRows)
         /\ ValueOf(next, d) =
              ValueOf(table, d) + (IF Direction(rec.pkt) = d THEN Units(rec) ELSE 0)
<1> DEFINE u == IF Direction(rec.pkt) = d THEN Units(rec) ELSE 0
           s == Amounts(table, d)
           t == Amounts(next, d)
<1>1. u \in Nat
  BY DEF Units
<1>2. /\ s \in Seq(Nat) /\ Len(s) = Len(table) /\ ValueOf(table, d) = Total(s)
      /\ \A i \in 1 .. Len(table) : s[i] = IF table[i].dir = d THEN Amount(table[i]) ELSE 0
  BY ValueIsTotal
<1>3. ASSUME next \in Seq(MetricRows)
      PROVE  /\ t \in Seq(Nat) /\ Len(t) = Len(next) /\ ValueOf(next, d) = Total(t)
             /\ \A i \in 1 .. Len(next) : t[i] = IF next[i].dir = d THEN Amount(next[i]) ELSE 0
  BY <1>3, ValueIsTotal
<1>4. CASE \E r \in MetricRows :
             r.dir = Direction(rec.pkt) /\ Amount(r) = Units(rec) /\ next = Append(table, r)
  <2>1. PICK r \in MetricRows :
          r.dir = Direction(rec.pkt) /\ Amount(r) = Units(rec) /\ next = Append(table, r)
    BY <1>4
  <2>2. /\ next \in Seq(MetricRows) /\ Len(next) = Len(table) + 1 /\ next[Len(table) + 1] = r
        /\ \A i \in 1 .. Len(table) : next[i] = table[i]
    BY <2>1
  <2>3. t = Append(s, u)
    <3>1. Len(t) = Len(s) + 1 /\ t \in Seq(Nat) /\ s \in Seq(Nat)
      <4>1. Len(t) = Len(next) /\ t \in Seq(Nat)
        BY <1>3, <2>2
      <4> HIDE DEF s, t
      <4> QED BY <1>2, <2>2, <4>1
    <3>2. t[Len(s) + 1] = u
      BY <1>2, <1>3, <2>1, <2>2
    <3>3. \A i \in 1 .. Len(s) : t[i] = s[i]
      <4> SUFFICES ASSUME NEW i \in 1 .. Len(table) PROVE t[i] = s[i]
        BY <1>2
      <4>1. i \in 1 .. Len(next) /\ next[i] = table[i]
        BY <2>2
      <4>2. t[i] = IF next[i].dir = d THEN Amount(next[i]) ELSE 0
        BY <1>3, <2>2, <4>1
      <4>3. s[i] = IF table[i].dir = d THEN Amount(table[i]) ELSE 0
        BY <1>2
      <4> HIDE DEF s, t
      <4> QED BY <4>1, <4>2, <4>3
    <3> HIDE DEF s, t, u
    <3> QED BY <1>1, <3>1, <3>2, <3>3
  <2> HIDE DEF s, t, u
  <2>4. Total(t) = Total(s) + u
    BY <1>1, <1>2, <2>3, TotalAppended
  <2> QED BY <1>2, <1>3, <2>2, <2>4 DEF u
<1>5. CASE \E i \in 1 .. Len(table), r \in MetricRows :
             /\ table[i].dir = Direction(rec.pkt) /\ r.dir = Direction(rec.pkt)
             /\ Amount(r) = Amount(table[i]) + Units(rec)
             /\ next = [table EXCEPT ![i] = r]
  <2>1. PICK i \in 1 .. Len(table), r \in MetricRows :
          /\ table[i].dir = Direction(rec.pkt) /\ r.dir = Direction(rec.pkt)
          /\ Amount(r) = Amount(table[i]) + Units(rec)
          /\ next = [table EXCEPT ![i] = r]
    BY <1>5
  <2>2. /\ next \in Seq(MetricRows) /\ Len(next) = Len(table) /\ next[i] = r
        /\ \A n \in 1 .. Len(table) : n # i => next[n] = table[n]
    BY <2>1
  <2>3. t[i] = s[i] + u
    <3>1. Amount(table[i]) \in Nat /\ i \in 1 .. Len(next)
      BY <2>2, AmountType
    <3>2. s[i] = IF table[i].dir = d THEN Amount(table[i]) ELSE 0
      BY <1>2
    <3>3. t[i] = IF r.dir = d THEN Amount(r) ELSE 0
      BY <1>3, <2>2, <3>1
    <3> HIDE DEF s, t
    <3> QED BY <2>1, <3>1, <3>2, <3>3
  <2>4. \A n \in 1 .. Len(s) : n # i => t[n] = s[n]
    BY <1>2, <1>3, <2>2
  <2> HIDE DEF s, t, u
  <2>5. Total(t) = Total(s) + u
    BY <1>1, <1>2, <1>3, <2>2, <2>3, <2>4, TotalChanged
  <2> QED BY <1>2, <1>3, <2>2, <2>5 DEF u
<1> HIDE DEF s, t, u
<1> QED BY <1>4, <1>5 DEF CountsIn

(* The records of direction d, among the first n, that carry an amount. *)
UnitsAt(batch, n, d) == {i \in 1 .. n : Direction(batch[i].pkt) = d /\ batch[i].cols.amount}

LEMMA UnitsAtStep ==
  ASSUME NEW batch, NEW n \in Nat, NEW d
  PROVE  /\ IsFiniteSet(UnitsAt(batch, n, d)) /\ Cardinality(UnitsAt(batch, n, d)) \in Nat
         /\ Cardinality(UnitsAt(batch, n + 1, d)) =
              Cardinality(UnitsAt(batch, n, d))
                + (IF Direction(batch[n + 1].pkt) = d THEN Units(batch[n + 1]) ELSE 0)
<1> DEFINE rec == batch[n + 1]
           S == UnitsAt(batch, n, d)
<1>1. IsFiniteSet(S) /\ Cardinality(S) \in Nat
  <2>1. S \subseteq 1 .. n /\ IsFiniteSet(1 .. n)
    BY FS_Interval DEF UnitsAt
  <2> QED BY <2>1, FS_Subset, FS_CardinalityType
<1>2. CASE Direction(rec.pkt) = d /\ rec.cols.amount
  <2>1. UnitsAt(batch, n + 1, d) = S \cup {n + 1} /\ n + 1 \notin S
    BY <1>2 DEF UnitsAt
  <2> HIDE DEF S
  <2>2. Cardinality(UnitsAt(batch, n + 1, d)) = Cardinality(S) + 1
    BY <1>1, <2>1, FS_AddElement
  <2> QED BY <1>1, <1>2, <2>2 DEF Units, S
<1>3. CASE ~(Direction(rec.pkt) = d /\ rec.cols.amount)
  <2>1. UnitsAt(batch, n + 1, d) = S
    BY <1>3 DEF UnitsAt
  <2> QED BY <1>1, <1>3, <2>1 DEF Units
<1> QED BY <1>1, <1>2, <1>3

(* An update adds the records' amounts, wherever its rows are. *)
LEMMA ValueOfCountAll ==
  ASSUME metrics \in Seq(MetricRows), NEW batch \in Seq(Recs), NEW seen \in Nat, NEW d
  PROVE  ValueOf(CountAll(seen, batch), d) =
           Value(d) + Cardinality(UnitsAt(batch, Len(batch), d))
<1> DEFINE Good(n, t) == ValueOf(t, d) = Value(d) + Cardinality(UnitsAt(batch, n, d))
           T == {x \in (0 .. Len(batch)) \X Seq(MetricRows) : Good(x[1], x[2])}
<1>0. Len(batch) \in Nat /\ Len(metrics) \in Nat /\ Value(d) \in Nat
  BY ValueIsTotal DEF Value
<1>1. <<0, metrics>> \in T
  <2>1. UnitsAt(batch, 0, d) = {}
    BY DEF UnitsAt
  <2>2. Good(0, metrics)
    <3>1. Cardinality(UnitsAt(batch, 0, d)) = 0
      BY <2>1, FS_EmptySet
    <3> QED BY <1>0, <3>1 DEF Value
  <2> QED BY <1>0, <2>2
<1>2. ASSUME NEW n \in 0 .. Len(batch) - 1, NEW t, <<n, t>> \in T
      PROVE  <<n + 1, Count(seen, Len(metrics), t, batch[n + 1])>> \in T
  <2> DEFINE rec == batch[n + 1]
             next == Count(seen, Len(metrics), t, rec)
             u == IF Direction(rec.pkt) = d THEN Units(rec) ELSE 0
  <2>1. t \in Seq(MetricRows) /\ Good(n, t) /\ rec \in Recs /\ n + 1 \in 0 .. Len(batch)
        /\ n \in Nat
    BY <1>2
  <2>2. CountsIn(seen, Len(metrics), t, rec, next)
    BY <1>0, <2>1, CountShape
  <2>3. next \in Seq(MetricRows) /\ ValueOf(next, d) = ValueOf(t, d) + u
    BY <2>1, <2>2, ValueCounts
  <2>4. Cardinality(UnitsAt(batch, n + 1, d)) = Cardinality(UnitsAt(batch, n, d)) + u
        /\ Cardinality(UnitsAt(batch, n, d)) \in Nat
    BY <2>1, UnitsAtStep
  <2>5. u \in Nat
    BY DEF Units
  <2> HIDE DEF next, u, rec
  <2>6. Good(n + 1, next)
    BY <1>0, <2>1, <2>3, <2>4, <2>5
  <2> QED BY <2>1, <2>3, <2>6 DEF next, rec
<1>3. <<Len(batch), CountAll(seen, batch)>> \in T
  <2> HIDE DEF T
  <2> QED BY <1>0, <1>1, <1>2, CountInduct, Zenon
<1> QED BY <1>3

-----------------------------------------------------------------------------
(* The invariant of the value *)

(***************************************************************************)
(* A record that carries an amount is a send's, and the only one of its       *)
(* packet; the row has no amount yet and no other job can bring it.           *)
(***************************************************************************)
Brings(c, rec) ==
  Src[rec.pkt] = c /\ ~row[rec.pkt].amount /\ ~InTodo(c, "send", rec.pkt)

BringsInv(c) ==
  LET batch == job[c].batch
  IN  /\ job[c].stage = "fetching" => batch = <<>>
      /\ \A i \in 1 .. Len(batch) : batch[i].cols.amount =>
           /\ Brings(c, batch[i])
           /\ \A j \in 1 .. Len(batch) :
                batch[j].cols.amount /\ batch[j].pkt = batch[i].pkt => j = i

(* What a job counts are the packets of its chain. *)
CountedInv(c) ==
  \A i \in 1 .. Len(counting[c].batch) :
    counting[c].batch[i].cols.amount => Src[counting[c].batch[i].pkt] = c

(* The amounts of direction d that are in the table but not counted yet. *)
ToCount(d) ==
  LET batch == counting[d[1]].batch
  IN  Cardinality(UnitsAt(batch, Len(batch), d))

ValueInv ==
  /\ \A c \in Chains : BringsInv(c) /\ CountedInv(c)
  /\ Filled => \A d \in Directions :
       /\ metrics # <<>> /\ Fillers = {}
       /\ Value(d) + ToCount(d) <= Cardinality(Carried(d))

(* Only the record of a send can carry an amount, and only if the row has none. *)
LEMMA AmountOfSend ==
  ASSUME NEW r \in Rows, NEW e \in Events, NEW b, Record(r, e, b).cols.amount
  PROVE  e.kind = "send" /\ ~r.amount
<1>1. e.kind \in Kinds /\ ~NoRow.amount
  BY DEF Events, NoRow
<1>2. /\ e.kind = "send" => Record(r, e, b).cols = SendRecord(r, b)
      /\ e.kind = "ack" => Record(r, e, b).cols = AckRecord(r, e, b)
      /\ e.kind = "receivedAck" => Record(r, e, b).cols = RefundRecord(b)
  <2>1. /\ e.kind = "send" => Record(r, e, b) = [pkt |-> e.pkt, cols |-> SendRecord(r, b)]
        /\ e.kind = "ack" => Record(r, e, b) = [pkt |-> e.pkt, cols |-> AckRecord(r, e, b)]
        /\ e.kind = "receivedAck" => Record(r, e, b) = [pkt |-> e.pkt, cols |-> RefundRecord(b)]
    BY Zenon DEF Record
  <2> QED BY <2>1
<1>3. SendRecord(r, b).amount = ~r.amount
  BY RecordColumns, Zenon DEF SendRecord, NoRow
<1>4. ~AckRecord(r, e, b).amount /\ ~RefundRecord(b).amount
  BY DEF AckRecord, RefundRecord, NoRow
<1> QED BY <1>1, <1>2, <1>3, <1>4, Zenon DEF Kinds

(* An amount in the table was there before, or a record has brought it. *)
AmountsFrom(batch, n, table) ==
  \A p \in Packets : table[p].amount =>
    row[p].amount \/ \E i \in 1 .. n : batch[i].pkt = p /\ batch[i].cols.amount

LEMMA TransactionAmounts ==
  ASSUME Types, NoEmptyRows(row), NEW snapshot \in [Packets -> Rows], NEW batch \in Seq(Recs)
  PROVE  AmountsFrom(batch, Len(batch), Transaction(snapshot, batch).table)
<1> DEFINE Good(n, tx) == /\ tx \in TxStates
                          /\ Applied(batch, n, tx.table)
                          /\ tx.duplicate \/ Complete(batch, n, tx.table)
                          /\ AmountsFrom(batch, n, tx.table)
           T == {x \in (0 .. Len(batch)) \X TxStates : Good(x[1], x[2])}
<1>1. <<0, Begin(snapshot)>> \in T
  <2>1. /\ Begin(snapshot) \in TxStates
        /\ Begin(snapshot).table = row
    BY DEF Begin, TxStates, Types
  <2>2. Applied(batch, 0, row) /\ Complete(batch, 0, row) /\ AmountsFrom(batch, 0, row)
    BY DEF Applied, Complete, AmountsFrom
  <2> QED BY <2>1, <2>2
<1>2. ASSUME NEW n \in 0 .. Len(batch) - 1, NEW tx, <<n, tx>> \in T
      PROVE  <<n + 1, Store(tx, batch[n + 1])>> \in T
  <2> DEFINE rec == batch[n + 1]
             q == rec.pkt
             new == Updates(tx.table[q], KeepStatus(rec.cols, tx.view[q]))
             next == Store(tx, rec)
  <2>1. Good(n, tx) /\ n + 1 \in 0 .. Len(batch) /\ rec \in Recs
    BY <1>2
  <2>2. /\ next \in TxStates /\ Applied(batch, n + 1, next.table)
        /\ next.duplicate \/ Complete(batch, n + 1, next.table)
    BY <2>1, StoreApplies, Zenon
  <2>3. \/ next = [view |-> tx.view, table |-> tx.table, duplicate |-> TRUE]
        \/ next = [view |-> [tx.view EXCEPT ![q] = new],
                   table |-> [tx.table EXCEPT ![q] = new],
                   duplicate |-> tx.duplicate]
    BY <2>1, StoreStep, Zenon DEF Applied, NoEmptyRows
  <2>4. q \in Packets /\ rec.cols \in Rows /\ Found(rec.cols)
        /\ tx.view[q] \in Rows /\ tx.table[q] \in Rows /\ tx.table \in [Packets -> Rows]
    BY <2>1 DEF Recs, TxStates
  <2>5. new.amount = (tx.table[q].amount \/ rec.cols.amount)
    BY <2>4, UpdatesRow, Zenon
  <2> HIDE DEF new, next
  <2>6. next.table = tx.table \/ next.table = [tx.table EXCEPT ![q] = new]
    BY <2>3
  <2>7. ASSUME NEW p \in Packets, next.table[p].amount
        PROVE  row[p].amount \/ \E i \in 1 .. n + 1 : batch[i].pkt = p /\ batch[i].cols.amount
    <3>1. CASE p = q /\ rec.cols.amount
      BY <3>1
    <3>2. CASE ~(p = q /\ rec.cols.amount)
      <4>1. tx.table[p].amount
        <5>1. p # q => next.table[p] = tx.table[p]
          BY <2>4, <2>6
        <5>2. p = q => next.table[p] = tx.table[q] \/ next.table[p] = new
          BY <2>4, <2>6
        <5> QED BY <2>5, <2>7, <3>2, <5>1, <5>2, Zenon
      <4>2. row[p].amount \/ \E i \in 1 .. n : batch[i].pkt = p /\ batch[i].cols.amount
        BY <2>1, <4>1 DEF AmountsFrom
      <4> QED BY <4>2
    <3> QED BY <3>1, <3>2
  <2>8. AmountsFrom(batch, n + 1, next.table)
    BY <2>7, Zenon DEF AmountsFrom
  <2> QED BY <2>1, <2>2, <2>8 DEF next
<1>3. <<Len(batch), Transaction(snapshot, batch)>> \in T
  <2> HIDE DEF T
  <2> QED BY <1>1, <1>2, TransactionInduct
<1> QED BY <1>3

LEMMA CommitAmounts ==
  ASSUME Inv, NEW c \in Chains, Commit(c)
  PROVE  AmountsFrom(job[c].batch, Len(job[c].batch), row')
<1>1. /\ Types /\ NoEmptyRows(row)
      /\ job[c].snapshot \in [Packets -> Rows] /\ job[c].batch \in Seq(Recs)
  BY DEF Inv, RowsInv, Types, Jobs
<1>2. row' = Transaction(job[c].snapshot, job[c].batch).table
  BY DEF Commit
<1> QED BY <1>1, <1>2, TransactionAmounts

(* A job whose batch is as it was, and whose packets' rows have no more amounts. *)
LEMMA BringsStays ==
  ASSUME NEW c \in Chains, BringsInv(c), job[c] \in Jobs, job'[c].batch = job[c].batch,
         job'[c].stage = "fetching" => job[c].batch = <<>>,
         job'[c].todo \subseteq job[c].todo \/ job[c].batch = <<>>,
         \A p \in Packets : Src[p] = c /\ row'[p].amount => row[p].amount
  PROVE  BringsInv(c)'
<1> DEFINE batch == job[c].batch
<1>1. batch \in Seq(Recs)
  BY DEF Jobs
<1>2. ASSUME NEW i \in 1 .. Len(batch), batch[i].cols.amount
      PROVE  /\ Src[batch[i].pkt] = c /\ ~row'[batch[i].pkt].amount
             /\ ~InTodo(c, "send", batch[i].pkt)'
             /\ \A j \in 1 .. Len(batch) :
                  batch[j].cols.amount /\ batch[j].pkt = batch[i].pkt => j = i
  <2>1. /\ Src[batch[i].pkt] = c /\ ~row[batch[i].pkt].amount
        /\ ~InTodo(c, "send", batch[i].pkt)
        /\ \A j \in 1 .. Len(batch) :
             batch[j].cols.amount /\ batch[j].pkt = batch[i].pkt => j = i
    BY <1>2 DEF BringsInv, Brings
  <2>2. batch[i].pkt \in Packets
    <3>1. batch[i] \in Recs
      BY <1>1
    <3> QED BY <3>1 DEF Recs
  <2>3. job'[c].todo \subseteq job[c].todo
    BY <1>2
  <2> HIDE DEF batch
  <2>4. ~InTodo(c, "send", batch[i].pkt)'
    <3>1. ~\E x \in job'[c].todo : IsEvent(x.event, "send", batch[i].pkt)
      BY <2>1, <2>3 DEF InTodo
    <3> QED BY <3>1 DEF InTodo, batch
  <2>5. ~row'[batch[i].pkt].amount
    BY <2>1, <2>2
  <2> QED BY <2>1, <2>4, <2>5
<1> QED BY <1>2 DEF BringsInv, Brings

(* A job that has no records. *)
LEMMA BringsNothing ==
  ASSUME NEW c \in Chains, job'[c].batch = <<>>
  PROVE  BringsInv(c)'
BY DEF BringsInv

LEMMA ReadRowBrings ==
  ASSUME Inv, NEW c \in Chains, ReadRow(c), BringsInv(c)
  PROVE  BringsInv(c)'
<1>1. PICK x \in job[c].todo :
        /\ First(c, x)
        /\ SetJob(c, [job[c] EXCEPT
             !.todo = @ \ {x},
             !.batch = IF Keeps(c, x.event)
                       THEN Append(@, Record(row[x.event.pkt], x.event, x.height))
                       ELSE @])
  BY DEF ReadRow
<1> DEFINE rec == Record(row[x.event.pkt], x.event, x.height)
           old == job[c].batch
           batch == IF Keeps(c, x.event) THEN Append(old, rec) ELSE old
           new == [job[c] EXCEPT !.todo = job[c].todo \ {x}, !.batch = batch]
<1>2. /\ job[c].stage = "reading" /\ job' = [job EXCEPT ![c] = new] /\ row' = row
  BY <1>1 DEF ReadRow, SetJob, At
<1>3. job[c] \in Jobs /\ old \in Seq(Recs) /\ c \in DOMAIN job /\ Len(old) \in Nat
  BY DEF Inv, Types, Jobs
<1>4. x \in Items /\ x.event \in Events /\ x.event.pkt \in Packets /\ x.event.kind \in Kinds
      /\ row[x.event.pkt] \in Rows
  BY <1>3 DEF Jobs, Items, Events, Inv, Types
<1>5. rec.pkt = x.event.pkt
  BY Zenon DEF Record
<1>6. rec.cols.amount => x.event.kind = "send" /\ ~row[x.event.pkt].amount
  BY <1>4, AmountOfSend
<1> HIDE DEF rec
<1>7. \/ /\ Keeps(c, x.event) /\ Len(batch) = Len(old) + 1 /\ batch[Len(old) + 1] = rec
         /\ \A i \in 1 .. Len(old) : batch[i] = old[i]
      \/ batch = old
  BY <1>3
<1> HIDE DEF batch
<1>8. job'[c].stage = "reading" /\ job'[c].todo = job[c].todo \ {x} /\ job'[c].batch = batch
  BY <1>2, <1>3 DEF Jobs
<1>9. CASE batch = old
  BY <1>2, <1>3, <1>8, <1>9, BringsStays
<1>10. CASE /\ Len(batch) = Len(old) + 1 /\ batch[Len(old) + 1] = rec
            /\ \A i \in 1 .. Len(old) : batch[i] = old[i]
  <2>1. \A y \in job[c].todo : IsEvent(y.event, "send", x.event.pkt) /\ x.event.kind = "send" => y = x
    <3> SUFFICES ASSUME NEW y \in job[c].todo, y # x, IsEvent(y.event, "send", x.event.pkt),
                        x.event.kind = "send"
                 PROVE  FALSE
      OBVIOUS
    <3>1. y.height = x.height /\ y.event.kind = "send"
      BY DEF Inv, JobInv, TodoInv, IsEvent
    <3>2. y.height \in Nat /\ x.height \in Nat
      BY <1>3 DEF Jobs, Items
    <3>3. Before(c, x, y)
      BY <1>1 DEF First
    <3> QED BY <3>1, <3>2, <3>3 DEF Before, Rank
  <2>2. \A i \in 1 .. Len(old) : old[i].cols.amount =>
          /\ Src[old[i].pkt] = c /\ ~row[old[i].pkt].amount /\ ~InTodo(c, "send", old[i].pkt)
          /\ \A j \in 1 .. Len(old) : old[j].cols.amount /\ old[j].pkt = old[i].pkt => j = i
    BY DEF BringsInv, Brings
  <2>3. rec.cols.amount =>
          /\ Src[rec.pkt] = c /\ ~row[rec.pkt].amount
          /\ InTodo(c, "send", rec.pkt)
          /\ \A y \in job[c].todo \ {x} : ~IsEvent(y.event, "send", rec.pkt)
    <3>1. x.event.kind = "send" => Src[x.event.pkt] = c
      BY DEF Inv, JobInv, TodoInv, InRange, Home
    <3>2. x.event.kind = "send" => InTodo(c, "send", x.event.pkt)
      BY DEF InTodo, IsEvent
    <3> QED BY <1>5, <1>6, <2>1, <3>1, <3>2
  <2>4. \A i \in 1 .. Len(batch) : i \in 1 .. Len(old) \/ i = Len(old) + 1
    BY <1>3, <1>10
  <2> HIDE DEF old
  <2>5. ASSUME NEW i \in 1 .. Len(batch), batch[i].cols.amount
        PROVE  /\ Src[batch[i].pkt] = c /\ ~row[batch[i].pkt].amount
               /\ \A y \in job[c].todo \ {x} : ~IsEvent(y.event, "send", batch[i].pkt)
               /\ \A j \in 1 .. Len(batch) :
                    batch[j].cols.amount /\ batch[j].pkt = batch[i].pkt => j = i
    <3>1. CASE i \in 1 .. Len(old)
      <4>1. batch[i] = old[i]
        BY <1>10, <3>1
      <4>2. \A y \in job[c].todo : ~IsEvent(y.event, "send", batch[i].pkt)
        BY <2>2, <2>5, <3>1, <4>1 DEF InTodo
      <4>3. ASSUME NEW j \in 1 .. Len(batch), batch[j].cols.amount, batch[j].pkt = batch[i].pkt
            PROVE  j = i
        <5>1. CASE j \in 1 .. Len(old)
          BY <1>10, <2>2, <2>5, <3>1, <4>1, <4>3, <5>1
        <5>2. CASE j = Len(old) + 1
          BY <1>10, <2>2, <2>3, <2>5, <3>1, <4>1, <4>3, <5>2
        <5> QED BY <2>4, <5>1, <5>2
      <4> QED BY <2>2, <2>5, <3>1, <4>1, <4>2, <4>3
    <3>2. CASE i = Len(old) + 1
      <4>1. batch[i] = rec
        BY <1>10, <3>2
      <4>2. ASSUME NEW j \in 1 .. Len(batch), batch[j].cols.amount, batch[j].pkt = batch[i].pkt,
                   j \in 1 .. Len(old)
            PROVE  FALSE
        BY <1>10, <2>2, <2>3, <2>5, <4>1, <4>2
      <4> QED BY <2>3, <2>4, <2>5, <3>2, <4>1, <4>2
    <3> QED BY <2>4, <3>1, <3>2
  <2>6. \A p : InTodo(c, "send", p)' <=> \E y \in job[c].todo \ {x} : IsEvent(y.event, "send", p)
    BY <1>8 DEF InTodo
  <2> QED BY <1>2, <1>8, <2>5, <2>6 DEF BringsInv, Brings
<1> QED BY <1>7, <1>9, <1>10

LEMMA BringsNext ==
  ASSUME Inv, [Next]_vars \/ Uncounted, \A c \in Chains : BringsInv(c)
  PROVE  \A c \in Chains : BringsInv(c)'
<1> SUFFICES ASSUME NEW c \in Chains PROVE BringsInv(c)'
  OBVIOUS
<1>0. job[c] \in Jobs /\ BringsInv(c) /\ DOMAIN job = Chains
  BY DEF Inv, Types
<1>1. ASSUME row' = row, job'[c] = job[c] PROVE BringsInv(c)'
  <2>1. job[c].stage = "fetching" => job[c].batch = <<>>
    BY <1>0 DEF BringsInv
  <2> QED BY <1>0, <1>1, <2>1, BringsStays
<1>2. ASSUME job'[c] = Idle \/ job'[c] = Down PROVE BringsInv(c)'
  BY <1>2, BringsNothing DEF Idle, Down
<1>3. CASE Environment
  <2>1. row' = row /\ job' = job
    BY <1>3 DEF Environment, Mine, SendPacket, WriteAck, AcknowledgePacket, Append1
  <2> QED BY <1>1, <2>1
<1>4. CASE Boot \/ Crash
  BY <1>2, <1>4 DEF Boot, Crash
<1>5. CASE UNCHANGED vars \/ Uncounted
  BY <1>1, <1>5 DEF vars, Uncounted
<1>6. ASSUME NEW d \in Chains, d # c, Work(d) \/ JobFails(d)
      PROVE  BringsInv(c)'
  <2>1. job'[c] = job[c]
    BY <1>0, <1>6 DEF SetJob, Work, JobFails, ChooseRange, TickTooEarly, Fetch, ReadRow, Panic,
                      BeginTx, Commit, DuplicateKey, vars
  <2>2. CASE Commit(d)
    <3>1. AmountsFrom(job[d].batch, Len(job[d].batch), row')
      BY <2>2, CommitAmounts
    <3>2. \A i \in 1 .. Len(job[d].batch) :
            job[d].batch[i].cols.amount => Src[job[d].batch[i].pkt] = d
      BY DEF BringsInv, Brings
    <3>3. \A p \in Packets : Src[p] = c /\ row'[p].amount => row[p].amount
      BY <1>6, <3>1, <3>2 DEF AmountsFrom
    <3>4. job[c].stage = "fetching" => job[c].batch = <<>>
      BY <1>0 DEF BringsInv
    <3> QED BY <1>0, <2>1, <3>3, <3>4, BringsStays
  <2>3. CASE ~Commit(d)
    <3>1. row' = row
      BY <1>6, <2>3 DEF Work, JobFails, ChooseRange, TickTooEarly, Fetch, ReadRow, Panic,
                        BeginTx, DuplicateKey, vars
    <3> QED BY <1>1, <2>1, <3>1
  <2> QED BY <2>2, <2>3
<1>7. CASE Work(c) \/ JobFails(c)
  <2>1. CASE ChooseRange(c)
    <3>1. \E a, b, e : job'[c] = [Idle EXCEPT !.stage = "fetching", !.from = a, !.to = b, !.next = e]
      BY <1>0, <2>1 DEF ChooseRange, SetJob
    <3> QED BY <3>1, BringsNothing DEF Idle
  <2>2. CASE TickTooEarly(c)
    BY <1>1, <2>2 DEF TickTooEarly, vars
  <2>3. CASE Fetch(c)
    <3>1. \E a : job'[c] = [job[c] EXCEPT !.stage = "reading", !.todo = a]
      BY <1>0, <2>3 DEF Fetch, SetJob
    <3>2. job[c].batch = <<>>
      BY <1>0, <2>3 DEF Fetch, At, BringsInv
    <3>3. job'[c].batch = <<>>
      BY <1>0, <3>1, <3>2 DEF Jobs
    <3> QED BY <3>3, BringsNothing
  <2>4. CASE ReadRow(c)
    BY <1>0, <2>4, ReadRowBrings
  <2>5. CASE BeginTx(c)
    <3>1. \E a : job'[c] = [job[c] EXCEPT !.stage = "storing", !.snapshot = a]
      BY <1>0, <2>5 DEF BeginTx, SetJob
    <3>2. job'[c].stage = "storing" /\ job'[c].batch = job[c].batch /\ job'[c].todo = job[c].todo
      BY <1>0, <3>1 DEF Jobs
    <3>3. row' = row
      BY <2>5 DEF BeginTx
    <3> QED BY <1>0, <3>2, <3>3, BringsStays
  <2>6. CASE Panic(c) \/ Commit(c) \/ DuplicateKey(c) \/ JobFails(c)
    <3>1. job'[c] = Idle
      BY <1>0, <2>6 DEF Panic, Commit, DuplicateKey, JobFails, SetJob
    <3> QED BY <1>2, <3>1
  <2> QED BY <1>7, <2>1, <2>2, <2>3, <2>4, <2>5, <2>6 DEF Work
<1> QED BY <1>3, <1>4, <1>5, <1>6, <1>7 DEF Next

(* The amounts the table carries. *)
LEMMA CarriedCounted == \A d : IsFiniteSet(Carried(d)) /\ Cardinality(Carried(d)) \in Nat
BY PacketsCounted DEF Carried

LEMMA CarriedGrows ==
  ASSUME \A p \in Packets : row[p].amount => row'[p].amount, NEW d
  PROVE  Cardinality(Carried(d)) <= Cardinality(Carried(d)')
<1>1. Carried(d) \subseteq Carried(d)'
  BY DEF Carried
<1>2. IsFiniteSet(Carried(d)')
  BY PacketsCounted DEF Carried
<1> QED BY <1>1, <1>2, FS_Subset

(* A commit carries one more for each amount of its records. *)
LEMMA CommitCarries ==
  ASSUME Inv, NEW c \in Chains, Commit(c), BringsInv(c), NEW d
  PROVE  Cardinality(Carried(d)) + Cardinality(UnitsAt(job[c].batch, Len(job[c].batch), d))
           <= Cardinality(Carried(d)')
<1> DEFINE batch == job[c].batch
           I == UnitsAt(batch, Len(batch), d)
           P == {batch[i].pkt : i \in I}
           f == [i \in I |-> batch[i].pkt]
<1>1. batch \in Seq(Recs) /\ Len(batch) \in Nat
  BY DEF Inv, Types, Jobs
<1>2. I \subseteq 1 .. Len(batch) /\ \A i \in I : batch[i].cols.amount /\ Direction(batch[i].pkt) = d
  BY DEF UnitsAt
<1>3. /\ \A i \in I : ~row[batch[i].pkt].amount /\ batch[i].pkt \in Packets
      /\ \A i, j \in I : batch[i].pkt = batch[j].pkt => i = j
  <2>1. \A i \in 1 .. Len(batch) : batch[i] \in Recs
    BY <1>1
  <2> QED BY <1>2, <2>1 DEF BringsInv, Brings, Recs
<1>4. \A i \in I : row'[batch[i].pkt].amount
  BY <1>2, CommitColumns DEF Complete
<1>5. \A p \in Packets : row[p].amount => row'[p].amount
  BY CommitColumns
<1>6. P \subseteq Packets /\ IsFiniteSet(P) /\ Cardinality(P) \in Nat
  <2>1. P \in SUBSET Packets
    BY <1>3
  <2> QED BY <2>1, PacketsCounted
<1> HIDE DEF batch, I
<1>7. Cardinality(I) <= Cardinality(P)
  <2>1. f \in Injection(I, P)
    BY <1>3 DEF Injection, IsInjective
  <2> HIDE DEF f, P
  <2> QED BY <1>6, <2>1, FS_Injection
<1>8. Carried(d) \cap P = {} /\ Carried(d) \cup P \subseteq Carried(d)'
  BY <1>2, <1>3, <1>4, <1>5 DEF Carried
<1>9. Cardinality(Carried(d) \cup P) = Cardinality(Carried(d)) + Cardinality(P)
  <2>1. Cardinality(Carried(d) \cup P) =
          Cardinality(Carried(d)) + Cardinality(P) - Cardinality(Carried(d) \cap P)
    <3> HIDE DEF P
    <3> QED BY <1>6, CarriedCounted, FS_Union
  <2>2. Cardinality(Carried(d) \cap P) = 0
    BY <1>8, FS_EmptySet
  <2> HIDE DEF P
  <2> QED BY <1>6, <2>1, <2>2, CarriedCounted
<1>10. Cardinality(Carried(d) \cup P) <= Cardinality(Carried(d)')
  <2>1. IsFiniteSet(Carried(d)')
    BY PacketsCounted DEF Carried
  <2> HIDE DEF P
  <2> QED BY <1>8, <2>1, FS_Subset
<1>11. Cardinality(I) \in Nat
  BY <1>1, UnitsAtStep DEF I
<1>12. Cardinality(Carried(d)') \in Nat /\ Cardinality(Carried(d)) \in Nat
  BY PacketsCounted DEF Carried
<1> HIDE DEF P
<1>13. Cardinality(Carried(d)) + Cardinality(I) <= Cardinality(Carried(d)')
  BY <1>6, <1>7, <1>9, <1>10, <1>11, <1>12
<1> QED BY <1>13 DEF I, batch

(* What one job counts, after a step. *)
LEMMA CountingStep ==
  ASSUME CountTypes, [MNext]_<<vars, mvars>>, NEW c \in Chains
  PROVE  \/ counting'[c].batch = counting[c].batch /\ metrics' = metrics
         \/ counting'[c].batch = <<>> /\ metrics' = metrics
         \/ StoreThenCount(c) /\ counting'[c].batch = job[c].batch /\ metrics' = metrics
         \/ Fill(c)
         \/ Update(c) /\ counting'[c].batch = <<>>
         \/ \E other \in Chains \ {c} :
              (Fill(other) \/ Update(other)) /\ counting'[c].batch = counting[c].batch
<1>0. counting[c] \in Counts /\ DOMAIN counting = Chains
  BY DEF CountTypes
<1>1. CASE UNCHANGED mvars
  BY <1>1 DEF mvars
<1>2. CASE MCrash
  BY <1>2, NothingIsCount DEF MCrash
<1>3. ASSUME NEW d \in Chains \ {c}, MWork(d) \/ MetricsFail(d)
      PROVE  /\ counting'[c] = counting[c]
             /\ metrics' = metrics \/ Fill(d) \/ Update(d)
  BY <1>0, <1>3 DEF MWork, TableWork, StoreThenCount, CountRecords, AskMetrics, BeginFill, Fill,
                    BeginUpdate, Update, UpdateWaits, LockWaitTimeout, MetricsFail, ToStage, Done, mvars
<1>4. ASSUME MWork(c) \/ MetricsFail(c)
      PROVE  \/ counting'[c].batch = counting[c].batch /\ metrics' = metrics
             \/ counting'[c].batch = <<>> /\ metrics' = metrics
             \/ StoreThenCount(c) /\ counting'[c].batch = job[c].batch /\ metrics' = metrics
             \/ Fill(c)
             \/ Update(c) /\ counting'[c].batch = <<>>
  <2>1. CASE TableWork(c)
    BY <2>1 DEF TableWork, mvars
  <2>2. CASE StoreThenCount(c)
    <3>1. counting'[c] = [Nothing EXCEPT !.stage = "asking", !.batch = job[c].batch]
          /\ metrics' = metrics
      BY <1>0, <2>2 DEF StoreThenCount
    <3>2. counting'[c].batch = job[c].batch
      BY <3>1 DEF Nothing
    <3> QED BY <2>2, <3>1, <3>2
  <2>3. CASE AskMetrics(c)
    <3>1. metrics' = metrics /\ ToStage(c, IF metrics = <<>> THEN "fill" ELSE "update")
      BY <2>3 DEF AskMetrics
    <3>2. (IF metrics = <<>> THEN "fill" ELSE "update") \in CountingStages
      BY DEF CountingStages
    <3>3. \E e : counting' = [counting EXCEPT ![c] = e] /\ e.batch = counting[c].batch
      BY <3>1, <3>2, ToStageShape
    <3> QED BY <1>0, <3>1, <3>3
  <2>4. CASE BeginFill(c)
    <3>1. counting'[c] = [counting[c] EXCEPT !.stage = "filling", !.rows = row]
          /\ metrics' = metrics
      BY <1>0, <2>4 DEF BeginFill
    <3>2. counting'[c].batch = counting[c].batch
      BY <1>0, <3>1 DEF Counts
    <3> QED BY <3>1, <3>2
  <2>5. CASE Fill(c)
    BY <2>5
  <2>6. CASE BeginUpdate(c)
    <3>1. counting'[c] = [counting[c] EXCEPT !.stage = "updating", !.seen = Len(metrics)]
          /\ metrics' = metrics
      BY <1>0, <2>6 DEF BeginUpdate
    <3>2. counting'[c].batch = counting[c].batch
      BY <1>0, <3>1 DEF Counts
    <3> QED BY <3>1, <3>2
  <2>7. CASE Update(c)
    BY <1>0, <2>7, NothingIsCount DEF Update, Done
  <2>8. CASE UpdateWaits(c)
    <3>1. metrics' = metrics /\ ToStage(c, "waiting") /\ "waiting" \in CountingStages
      BY <2>8 DEF UpdateWaits, CountingStages
    <3>2. \E e : counting' = [counting EXCEPT ![c] = e] /\ e.batch = counting[c].batch
      BY <3>1, ToStageShape
    <3> QED BY <1>0, <3>1, <3>2
  <2>9. CASE LockWaitTimeout(c) \/ MetricsFail(c)
    BY <1>0, <2>9, NothingIsCount DEF LockWaitTimeout, MetricsFail, Done
  <2> QED BY <1>4, <2>1, <2>2, <2>3, <2>4, <2>5, <2>6, <2>7, <2>8, <2>9 DEF MWork, CountRecords
<1> QED BY <1>1, <1>2, <1>3, <1>4 DEF MNext

LEMMA ToCountType == ASSUME CountTypes, NEW d \in Directions PROVE ToCount(d) \in Nat
<1>1. counting[d[1]].batch \in Seq(Recs)
  BY DirectionsOK DEF CountTypes, Counts
<1>2. Len(counting[d[1]].batch) \in Nat
  BY <1>1
<1> QED BY <1>2, UnitsAtStep DEF ToCount

LEMMA ToCountNothing ==
  ASSUME NEW d, counting'[d[1]].batch = <<>>
  PROVE  ToCount(d)' = 0
<1>1. UnitsAt(<<>>, 0, d) = {} /\ Len(<<>>) = 0
  BY DEF UnitsAt
<1>2. ToCount(d)' = Cardinality(UnitsAt(<<>>, Len(<<>>), d))
  BY DEF ToCount
<1> QED BY <1>1, <1>2, FS_EmptySet

(* No step of the table takes an amount away. *)
LEMMA AmountsKept ==
  ASSUME Inv, [Next]_vars \/ Uncounted
  PROVE  \A p \in Packets : row[p].amount => row'[p].amount
<1>1. CASE \E c \in Chains : Commit(c)
  BY <1>1, CommitColumns
<1>2. CASE Next /\ ~\E c \in Chains : Commit(c)
  BY <1>2, OnlyCommitsWrite
<1>3. CASE UNCHANGED vars \/ Uncounted
  BY <1>3 DEF vars, Uncounted
<1> QED BY <1>1, <1>2, <1>3

LEMMA UpdateNotEmpty ==
  ASSUME CountTypes, FillInv, NEW c \in Chains, Update(c)
  PROVE  metrics' # <<>>
<1> DEFINE batch == counting[c].batch
           seen == counting[c].seen
<1>1. counting[c].stage = "updating" /\ metrics' = CountAll(seen, batch)
  BY DEF Update, AtCount
<1>2. /\ metrics \in Seq(MetricRows) /\ batch \in Seq(Recs)
      /\ metrics # <<>> /\ seen \in 0 .. Len(metrics) /\ HasAll(seen)
  BY <1>1 DEF CountTypes, Counts, FillInv, UpdatesFilled
<1> HIDE DEF batch, seen
<1>3. \A d \in Directions : \E i \in 1 .. seen : metrics[i].dir = d
  BY <1>2 DEF HasAll
<1>4. Len(metrics') >= Len(metrics) /\ metrics' \in Seq(MetricRows)
  BY <1>1, <1>2, <1>3, CountAllRows
<1> QED BY <1>2, <1>4

(* Once there are metrics, they stay, and no job fills them any more. *)
LEMMA FilledStays ==
  ASSUME CountTypes, FillInv, [MNext]_<<vars, mvars>>, metrics # <<>>, Fillers = {}
  PROVE  metrics' # <<>> /\ Fillers' = {}
<1>0. \A c \in Chains : counting[c].stage \notin {"fill", "filling"}
  BY DEF Fillers
<1>1. CASE UNCHANGED mvars
  BY <1>1 DEF mvars, Fillers
<1>2. CASE MCrash
  BY <1>2, NothingIsCount DEF MCrash, Fillers
<1>3. ASSUME NEW c \in Chains, MWork(c) \/ MetricsFail(c)
      PROVE  metrics' # <<>> /\ Fillers' = {}
  <2>1. \A e : counting' = [counting EXCEPT ![c] = e] /\ e.stage \notin {"fill", "filling"}
                 => Fillers' = {}
    <3> SUFFICES ASSUME NEW e, counting' = [counting EXCEPT ![c] = e],
                        e.stage \notin {"fill", "filling"}
                 PROVE  \A x \in Chains : counting'[x].stage \notin {"fill", "filling"}
      BY DEF Fillers
    <3> QED BY <1>0 DEF CountTypes
  <2>2. CASE TableWork(c)
    BY <1>1, <2>2 DEF TableWork
  <2>3. CASE StoreThenCount(c)
    <3> DEFINE e == [Nothing EXCEPT !.stage = "asking", !.batch = job[c].batch]
    <3>1. counting' = [counting EXCEPT ![c] = e] /\ metrics' = metrics
      BY <2>3 DEF StoreThenCount
    <3>2. e.stage = "asking"
      BY DEF Nothing
    <3> HIDE DEF e
    <3> QED BY <2>1, <3>1, <3>2
  <2>4. CASE AskMetrics(c)
    <3>1. metrics' = metrics /\ ToStage(c, "update")
      BY <2>4 DEF AskMetrics
    <3>2. \E e : counting' = [counting EXCEPT ![c] = e] /\ e.stage = "update"
      BY <3>1, ToStageShape DEF CountingStages
    <3> QED BY <2>1, <3>1, <3>2
  <2>5. CASE BeginFill(c) \/ Fill(c)
    BY <1>0, <2>5 DEF BeginFill, Fill, AtCount
  <2>6. CASE BeginUpdate(c)
    <3> DEFINE e == [counting[c] EXCEPT !.stage = "updating", !.seen = Len(metrics)]
    <3>1. counting' = [counting EXCEPT ![c] = e] /\ metrics' = metrics
      BY <2>6 DEF BeginUpdate, CountTypes
    <3>2. e.stage = "updating"
      BY DEF CountTypes, Counts
    <3> HIDE DEF e
    <3> QED BY <2>1, <3>1, <3>2
  <2>7. CASE Update(c)
    <3>1. counting' = [counting EXCEPT ![c] = Nothing]
      BY <2>7 DEF Update, Done
    <3>2. metrics' # <<>>
      BY <2>7, UpdateNotEmpty
    <3> QED BY <2>1, <3>1, <3>2, NothingIsCount
  <2>8. CASE UpdateWaits(c)
    <3>1. metrics' = metrics /\ ToStage(c, "waiting")
      BY <2>8 DEF UpdateWaits
    <3>2. \E e : counting' = [counting EXCEPT ![c] = e] /\ e.stage = "waiting"
      BY <3>1, ToStageShape DEF CountingStages
    <3> QED BY <2>1, <3>1, <3>2
  <2>9. CASE LockWaitTimeout(c) \/ MetricsFail(c)
    <3>1. counting' = [counting EXCEPT ![c] = Nothing] /\ metrics' = metrics
      BY <2>9 DEF LockWaitTimeout, MetricsFail, Done
    <3> QED BY <2>1, <3>1, NothingIsCount
  <2> QED BY <1>3, <2>2, <2>3, <2>4, <2>5, <2>6, <2>7, <2>8, <2>9 DEF MWork, CountRecords
<1> QED BY <1>1, <1>2, <1>3 DEF MNext

LEMMA ValueOfUpdate ==
  ASSUME CountTypes, NEW c \in Chains, Update(c), NEW d
  PROVE  LET batch == counting[c].batch
         IN  Value(d)' = Value(d) + Cardinality(UnitsAt(batch, Len(batch), d))
<1> DEFINE batch == counting[c].batch
           seen == counting[c].seen
<1>1. metrics \in Seq(MetricRows) /\ batch \in Seq(Recs) /\ seen \in Nat
  BY DEF CountTypes, Counts
<1>2. metrics' = CountAll(seen, batch)
  BY DEF Update
<1>3. Value(d)' = ValueOf(metrics', d)
  BY DEF Value
<1> HIDE DEF batch, seen
<1>4. ValueOf(CountAll(seen, batch), d) = Value(d) + Cardinality(UnitsAt(batch, Len(batch), d))
  BY <1>1, ValueOfCountAll
<1> QED BY <1>2, <1>3, <1>4 DEF batch

(* What a job counts stays of its own chain. *)
LEMMA CountedNext ==
  ASSUME Inv, CountTypes, ValueInv, [MNext]_<<vars, mvars>>, NEW c \in Chains
  PROVE  CountedInv(c)'
<1>1. BringsInv(c) /\ CountedInv(c)
  BY DEF ValueInv
<1>2. CASE counting'[c].batch = counting[c].batch
  BY <1>1, <1>2 DEF CountedInv
<1>3. CASE counting'[c].batch = <<>>
  BY <1>3 DEF CountedInv
<1>4. CASE counting'[c].batch = job[c].batch
  <2>1. \A i \in 1 .. Len(job[c].batch) :
          job[c].batch[i].cols.amount => Src[job[c].batch[i].pkt] = c
    BY <1>1 DEF BringsInv, Brings
  <2> QED BY <1>4, <2>1 DEF CountedInv
<1>5. CASE Fill(c)
  <2>1. counting'[c] = Nothing
    BY <1>5 DEF Fill, Done, CountTypes
  <2> QED BY <1>3, <2>1, NothingIsCount
<1> QED BY <1>2, <1>3, <1>4, <1>5, CountingStep

(* The value of a direction and what is still to count never exceed what the table carries. *)
LEMMA ValueStep ==
  ASSUME Inv, CountTypes, CountTypes', FillInv, ValueInv, [MNext]_<<vars, mvars>>,
         Filled, NEW d \in Directions
  PROVE  Value(d)' + ToCount(d)' <= Cardinality(Carried(d)')
<1> DEFINE c == d[1]
<1>1. c \in Chains
  BY DirectionsOK
<1>2. /\ Value(d) \in Nat /\ ToCount(d) \in Nat /\ Cardinality(Carried(d)) \in Nat
      /\ Value(d)' \in Nat /\ ToCount(d)' \in Nat /\ Cardinality(Carried(d)') \in Nat
  <2>1. Value(d) \in Nat /\ Value(d)' \in Nat
    <3>1. metrics \in Seq(MetricRows) /\ metrics' \in Seq(MetricRows)
      BY DEF CountTypes
    <3>2. \A table \in Seq(MetricRows) : ValueOf(table, d) \in Nat
      BY ValueIsTotal
    <3> QED BY <3>1, <3>2 DEF Value
  <2>2. ToCount(d) \in Nat
    BY ToCountType
  <2>3. ToCount(d)' \in Nat
    <3>1. counting'[c].batch \in Seq(Recs)
      BY <1>1 DEF CountTypes, Counts
    <3>2. Len(counting'[c].batch) \in Nat
      BY <3>1
    <3> QED BY <3>2, UnitsAtStep DEF ToCount
  <2>4. Cardinality(Carried(d)) \in Nat /\ Cardinality(Carried(d)') \in Nat
    BY PacketsCounted DEF Carried
  <2> QED BY <2>1, <2>2, <2>3, <2>4
<1>3. Value(d) + ToCount(d) <= Cardinality(Carried(d))
      /\ metrics # <<>> /\ Fillers = {} /\ BringsInv(c)
  BY <1>1 DEF ValueInv
<1>4. Cardinality(Carried(d)) <= Cardinality(Carried(d)')
  BY MNextSteps, AmountsKept, CarriedGrows
<1>5. \A x \in Chains : ~Fill(x)
  BY <1>3 DEF Fill, AtCount, Fillers
<1>6. metrics' = metrics => Value(d)' = Value(d)
  BY DEF Value
<1>7. counting'[c].batch = counting[c].batch => ToCount(d)' = ToCount(d)
  BY DEF ToCount
<1>8. counting'[c].batch = <<>> => ToCount(d)' = 0
  BY ToCountNothing
<1>9. CASE (counting'[c].batch = counting[c].batch \/ counting'[c].batch = <<>>) /\ metrics' = metrics
  <2>1. Value(d)' = Value(d) /\ ToCount(d)' <= ToCount(d)
    BY <1>2, <1>6, <1>7, <1>8, <1>9
  <2> QED BY <1>2, <1>3, <1>4, <2>1
<1>10. CASE StoreThenCount(c) /\ counting'[c].batch = job[c].batch /\ metrics' = metrics
  <2>1. ToCount(d)' = Cardinality(UnitsAt(job[c].batch, Len(job[c].batch), d))
    BY <1>10 DEF ToCount
  <2>2. Commit(c)
    BY <1>10 DEF StoreThenCount
  <2>3. Cardinality(Carried(d)) + ToCount(d)' <= Cardinality(Carried(d)')
    BY <1>1, <1>3, <2>1, <2>2, CommitCarries
  <2> QED BY <1>2, <1>3, <1>6, <1>10, <2>3
<1>11. CASE Update(c) /\ counting'[c].batch = <<>>
  <2>1. Value(d)' = Value(d) + ToCount(d)
    BY <1>1, <1>11, ValueOfUpdate DEF ToCount
  <2> QED BY <1>2, <1>3, <1>4, <1>8, <1>11, <2>1
<1>12. ASSUME NEW other \in Chains \ {c}, Update(other), counting'[c].batch = counting[c].batch
       PROVE  Value(d)' + ToCount(d)' <= Cardinality(Carried(d)')
  <2> DEFINE batch == counting[other].batch
  <2>1. UnitsAt(batch, Len(batch), d) = {}
    <3>1. \A p : Direction(p) = d => Src[p] = c
      BY DEF Direction
    <3>2. CountedInv(other)
      BY DEF ValueInv
    <3> QED BY <3>1, <3>2 DEF UnitsAt, CountedInv
  <2>2. Value(d)' = Value(d) + Cardinality(UnitsAt(batch, Len(batch), d))
    BY <1>12, ValueOfUpdate
  <2>3. Cardinality(UnitsAt(batch, Len(batch), d)) = 0
    BY <2>1, FS_EmptySet
  <2> HIDE DEF batch
  <2> QED BY <1>2, <1>3, <1>4, <1>7, <1>12, <2>2, <2>3
<1> QED BY <1>1, <1>5, <1>9, <1>10, <1>11, <1>12, CountingStep

LEMMA ValueNext ==
  ASSUME Inv, CountTypes, FillInv, ValueInv, [MNext]_<<vars, mvars>>
  PROVE  ValueInv'
<1>1. \A c \in Chains : BringsInv(c)'
  BY MNextSteps, BringsNext DEF ValueInv
<1>2. \A c \in Chains : CountedInv(c)'
  BY CountedNext
<1>3. ASSUME Filled, NEW d \in Directions
      PROVE  /\ metrics' # <<>> /\ Fillers' = {}
             /\ Value(d)' + ToCount(d)' <= Cardinality(Carried(d)')
  <2>1. metrics # <<>> /\ Fillers = {}
    BY <1>3 DEF ValueInv
  <2>2. CountTypes'
    BY FillNext
  <2> QED BY <1>3, <2>1, <2>2, FilledStays, ValueStep
<1> QED BY <1>1, <1>2, <1>3 DEF ValueInv

LEMMA ValueInit == MInit => ValueInv
<1> SUFFICES ASSUME MInit PROVE ValueInv
  OBVIOUS
<1>1. /\ metrics = IF Filled THEN FillAll(NoRows) ELSE <<>>
      /\ \A c \in Chains : counting[c] = Nothing /\ job[c] = Down
      /\ CountTypes
  BY FillInit DEF MInit, Init
<1>2. \A c \in Chains : counting[c].batch = <<>> /\ job[c].batch = <<>>
  BY <1>1, NothingIsCount DEF Down, Idle
<1>3. ASSUME NEW c \in Chains PROVE BringsInv(c) /\ CountedInv(c)
  <2>1. counting[c].batch = <<>> /\ job[c].batch = <<>>
    BY <1>2
  <2>2. BringsInv(c)
    BY <2>1 DEF BringsInv
  <2>3. CountedInv(c)
    BY <2>1 DEF CountedInv
  <2> QED BY <2>2, <2>3
<1>4. ASSUME Filled, NEW d \in Directions
      PROVE  /\ metrics # <<>> /\ Fillers = {}
             /\ Value(d) + ToCount(d) <= Cardinality(Carried(d))
  <2>1. PICK rows : rows = NoRows
    OBVIOUS
  <2>2. metrics = FillAll(rows)
    BY <1>1, <1>4, <2>1
  <2>3. \A i \in 1 .. Len(FillAll(rows)) :
          \E e \in Directions : FillAll(rows)[i] = FilledMetrics(rows, e)
    BY FillAllShape
  <2>4. metrics \in Seq(MetricRows) /\ metrics # <<>>
    <3>1. \E j \in 1 .. Len(FillAll(rows)) :
            \A i \in 1 .. Len(FillAll(rows)) : FillAll(rows)[i].dir = d <=> i = j
      BY FillAllShape
    <3>2. metrics \in Seq(MetricRows)
      BY <1>1 DEF CountTypes
    <3> QED BY <2>2, <3>1, <3>2
  <2>5. Fillers = {}
    BY <1>1, NothingIsCount DEF Fillers
  <2>6. \A e \in Directions : Amount(FilledMetrics(rows, e)) = 0
    <3> SUFFICES ASSUME NEW e \in Directions PROVE Amount(FilledMetrics(rows, e)) = 0
      OBVIOUS
    <3>1. \A p \in Packets : ~Found(rows[p])
      BY <2>1 DEF NoRows, Found, NoRow
    <3>2. PICK of : of = {p \in Packets : Direction(p) = e /\ Found(rows[p])}
      OBVIOUS
    <3>3. of = {} /\ {p \in of : rows[p].token /\ rows[p].amount} = {}
      BY <3>1, <3>2
    <3>4. Cardinality({p \in of : rows[p].token /\ rows[p].amount}) = 0
      BY <3>3, FS_EmptySet
    <3>5. FilledMetrics(rows, e).named = 0 /\ FilledMetrics(rows, e).nameless = 0
      BY <3>2, <3>4 DEF FilledMetrics, NewMetrics
    <3> QED BY <3>5 DEF Amount
  <2>7. Value(d) = 0
    <3>1. \A i \in 1 .. Len(metrics) : Amount(metrics[i]) = 0
      BY <2>2, <2>3, <2>6
    <3>2. /\ ValueOf(metrics, d) = Total(Amounts(metrics, d)) /\ Amounts(metrics, d) \in Seq(Nat)
          /\ Len(Amounts(metrics, d)) = Len(metrics)
          /\ \A i \in 1 .. Len(metrics) :
               Amounts(metrics, d)[i] = IF metrics[i].dir = d THEN Amount(metrics[i]) ELSE 0
      BY <2>4, ValueIsTotal
    <3>3. \A i \in 1 .. Len(Amounts(metrics, d)) : Amounts(metrics, d)[i] = 0
      BY <3>1, <3>2
    <3> QED BY <3>2, <3>3, TotalOfZeros DEF Value
  <2>8. ToCount(d) = 0
    <3>1. counting[d[1]].batch = <<>>
      BY <1>2, DirectionsOK
    <3>2. UnitsAt(<<>>, Len(<<>>), d) = {}
      BY DEF UnitsAt
    <3> QED BY <3>1, <3>2, FS_EmptySet DEF ToCount
  <2> QED BY <2>4, <2>5, <2>7, <2>8, CarriedCounted
<1> QED BY <1>3, <1>4 DEF ValueInv

(***************************************************************************)
(* A direction's value is at most what the packets of that direction carry    *)
(* in the table: whatever is read again, rolled back, retried or counted by   *)
(* jobs that run at the same time, no amount is counted twice (packet.go:236  *)
(* and 368-384).  For metrics that were filled before the service starts.     *)
(***************************************************************************)
THEOREM CountedOnce == ASSUME LongerThanBatch PROVE MSpec => []ValueAtMostOnce
<1>1. /\ Inv /\ CountTypes /\ FillInv /\ [MNext]_<<vars, mvars>> => CountTypes' /\ FillInv'
      /\ Inv /\ CountTypes /\ FillInv /\ ValueInv /\ [MNext]_<<vars, mvars>> => ValueInv'
  BY FillNext, ValueNext
<1>2. CountTypes /\ ValueInv => ValueAtMostOnce
  <2> SUFFICES ASSUME CountTypes, ValueInv, Filled, NEW d \in Directions
               PROVE  Value(d) <= Cardinality(Carried(d))
    BY DEF ValueAtMostOnce
  <2>1. Value(d) + ToCount(d) <= Cardinality(Carried(d))
    BY DEF ValueInv
  <2>2. Value(d) \in Nat
    BY ValueIsTotal DEF CountTypes, Value
  <2> QED BY <2>1, <2>2, ToCountType, CarriedCounted
<1> QED BY <1>1, <1>2, FillInit, ValueInit, MSpecInv, PTL DEF MSpec

=============================================================================
