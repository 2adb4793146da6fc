-------------------------- MODULE ReconcileProofs --------------------------
(*****************************************************************************)
(* Proofs about Reconcile, for any packets and bounds.                       *)
(*                                                                           *)
(* The two sums are exact for every cut below the cursors (SumsExact), and no *)
(* stored acknowledgement is forgotten (NoneForgotten).  Exact is what a row's *)
(* heights say; the invariant ties them to the chains (Columns), the status to *)
(* the heights (RowFits), and a transaction's snapshot to the row it will    *)
(* write (Snap).                                                             *)
(*                                                                           *)
(* The result tells a loss (ResultTellsLoss), although its two sums are read *)
(* at two moments: what a sum holds stays right since no step changes what is *)
(* below the cursors (PastStays, ResultInv), and then the sums and the two   *)
(* balances are sums over the same packets, each in one of them (InvTells).  *)
(*****************************************************************************)
EXTENDS Reconcile, InductionLemmas

(* A chain's events happen in their order and in blocks that exist. *)
ChainFits(p) ==
  /\ sent[p] <= head[Src(p)]
  /\ acked[p] # 0 => sent[p] # 0
  /\ acked[p] = 0 <=> code[p] = 0
  /\ refunded[p] # 0 => code[p] = Fail /\ sent[p] <= refunded[p]

(* The jobs stay below the open block. *)
JobFits(c) ==
  /\ cursor[c] < head[c]
  /\ job[c].stage = "tx" => cursor[c] < job[c].upto /\ job[c].upto < head[c]

(* A row's columns are the events below the cursors. *)
Columns(p) ==
  /\ row[p].src = IF By(sent[p], cursor[Src(p)]) THEN sent[p] ELSE 0
  /\ row[p].refund = IF By(refunded[p], cursor[Src(p)]) THEN refunded[p] ELSE 0
  /\ row[p].dest # 0 => row[p].dest = acked[p] /\ By(acked[p], cursor[Dst(p)])

(* The status of a row r of p says which of the heights are there. *)
RowFits(r, p) ==
  /\ ~Found(r) => r = NoRow
  /\ r.status = Pending => r.src # 0
  /\ r.status = Success => code[p] = Success /\ r.dest # 0
  /\ r.status = Fail => code[p] = Fail /\ r.dest # 0
  /\ r.status = Refund => r.refund # 0
  /\ r.dest # 0 => acked[p] # 0 /\ r.status \in {code[p], Refund}
  /\ r.refund # 0 => refunded[p] # 0 /\ r.status \in {Fail, Refund}

(* What a transaction read long ago is still right about its own columns. *)
Snap(c, p) ==
  LET s == job[c].snapshot[p]
  IN  /\ RowFits(s, p)
      /\ Found(s) => Found(row[p])
      /\ s.dest # 0 => row[p].dest = s.dest
      /\ s.refund # 0 => row[p].refund = s.refund
      /\ Src(p) = c => s.src = row[p].src /\ s.refund = row[p].refund
      /\ Dst(p) = c => s.dest = row[p].dest

Inv ==
  /\ TypeOK
  /\ \A c \in Chains : JobFits(c)
  /\ \A p \in Packets : ChainFits(p) /\ Columns(p) /\ RowFits(row[p], p)
  /\ \A c \in Chains, p \in Packets : job[c].stage = "tx" => Snap(c, p)

LEMMA Ends == \A p \in Packets : Src(p) \in Chains /\ Dst(p) \in Chains /\ Src(p) # Dst(p)
BY DEF Src, Dst, Chains

-----------------------------------------------------------------------------
(* Types *)

LEMMA InitType == Init => TypeOK
<1> SUFFICES ASSUME Init PROVE TypeOK
  OBVIOUS
<1>1. NoRow \in Heights
  BY DEF NoRow, Heights, Refund
<1>2. Idle \in JobRecord
  BY <1>1 DEF Idle, JobRecord
<1>3. Nothing \in CurRecord /\ NoResult \in ResultRecord
  BY DEF Nothing, CurRecord, NoResult, ResultRecord
<1> QED
  BY <1>1, <1>2, <1>3 DEF Init, TypeOK, Success, Fail

LEMMA StepType == TypeOK /\ [Next]_vars => TypeOK'
<1> SUFFICES ASSUME TypeOK, [Next]_vars PROVE TypeOK'
  OBVIOUS
<1> USE DEF TypeOK
<1>i. Idle \in JobRecord /\ Nothing \in CurRecord
  <2>1. NoRow \in Heights
    BY DEF NoRow, Heights, Refund
  <2> QED
    BY <2>1 DEF Idle, JobRecord, Nothing, CurRecord
<1>1. ASSUME NEW c \in Chains, Mine(c) PROVE TypeOK'
  BY <1>1 DEF Mine, serviceVars, queueVars
<1>2. ASSUME NEW p \in Packets, Send(p) \/ Ack(p) \/ GiveBack(p) PROVE TypeOK'
  <2>1. head[Src(p)] \in Nat /\ head[Dst(p)] \in Nat
    BY Ends
  <2> QED
    BY <1>2, <2>1 DEF Send, Ack, GiveBack, serviceVars, queueVars
<1>3. ASSUME NEW c \in Chains, BeginTx(c) PROVE TypeOK'
  <2>1. PICK n \in cursor[c] + 1 .. head[c] - 1 :
          job' = [job EXCEPT ![c] = [stage |-> "tx", upto |-> n, snapshot |-> row]]
    BY <1>3 DEF BeginTx
  <2>2. [stage |-> "tx", upto |-> n, snapshot |-> row] \in JobRecord
    BY DEF JobRecord
  <2> QED
    BY <1>3, <2>1, <2>2 DEF BeginTx, chainVars, queueVars
<1>4. ASSUME NEW c \in Chains, Commit(c) PROVE TypeOK'
  <2>1. ASSUME NEW p \in Packets PROVE NewRow(c, p) \in Heights
    <3>1. job[c].snapshot[p] \in Heights
      BY DEF JobRecord
    <3>2. Higher(job[c].snapshot[p].status,
                 IF HasRefund(c, p) THEN Refund
                 ELSE IF HasAck(c, p) THEN code[p] ELSE Pending) \in 0 .. Refund
      BY <3>1 DEF Higher, Heights, Refund, Pending, Success, Fail
    <3> QED
      BY <3>2 DEF NewRow, Heights
  <2>2. row' \in [Packets -> Heights]
    BY <1>4, <2>1 DEF Commit
  <2>3. [Idle EXCEPT !.stage = IF c = "A" THEN "reconcile" ELSE "idle"] \in JobRecord
    BY <1>i DEF JobRecord
  <2>4. cursor' \in [Chains -> Nat]
    BY <1>4 DEF Commit, JobRecord
  <2>5. queue' \subseteq In
    BY <1>4 DEF Commit
  <2> QED
    BY <1>4, <2>2, <2>3, <2>4, <2>5 DEF Commit, chainVars
<1>5. ASSUME NEW c \in Chains, DuplicateKey(c) \/ TxFails(c) PROVE TypeOK'
  BY <1>i, <1>5 DEF DuplicateKey, TxFails, chainVars, queueVars
<1>6. ASSUME ReadRow PROVE TypeOK'
  <2>1. PICK p \in queue :
          IF row[p].src # 0
          THEN /\ cur' = [Nothing EXCEPT !.stage = "sumA", !.of = {p},
                                         !.hA = row[p].dest, !.hB = row[p].src]
               /\ UNCHANGED <<queue, late>>
          ELSE /\ queue' = queue \ {p} /\ late' = late \cup {p}
               /\ UNCHANGED cur
    BY <1>6 DEF ReadRow
  <2>2. p \in In /\ row[p] \in Heights
    BY DEF Packets
  <2>3. cur' \in CurRecord
    <3>1. CASE row[p].src # 0
      <4>1. cur' = [stage |-> "sumA", of |-> {p}, hA |-> row[p].dest, hB |-> row[p].src,
                    sumA |-> {}, sumB |-> {}]
        BY <2>1, <3>1 DEF Nothing
      <4>2. row[p].dest \in Nat /\ row[p].src \in Nat
        BY <2>2 DEF Heights
      <4> QED
        BY <2>2, <4>1, <4>2 DEF CurRecord
    <3>2. CASE row[p].src = 0
      BY <2>1, <3>2
    <3> QED
      BY <3>1, <3>2
  <2> QED
    BY <1>6, <2>1, <2>2, <2>3 DEF ReadRow, chainVars
<1>7. ASSUME SumA \/ SumB PROVE TypeOK'
  <2>1. cur' \in CurRecord
    <3>1. {p \in Out : Counted(p, cur.hA, cur.hB)} \in SUBSET Out
      OBVIOUS
    <3>2. {p \in In : Counted(p, cur.hB, cur.hA)} \in SUBSET In
      OBVIOUS
    <3> QED
      BY <1>7, <3>1, <3>2 DEF SumA, SumB, CurRecord
  <2> QED
    BY <1>7, <2>1 DEF SumA, SumB, chainVars
<1>8. ASSUME WriteResult PROVE TypeOK'
  <2>1. [done |-> TRUE, sumA |-> cur.sumA, sumB |-> cur.sumB] \in ResultRecord
    BY DEF CurRecord, ResultRecord
  <2>2. result' \in [Packets -> ResultRecord]
    BY <1>8, <2>1 DEF WriteResult
  <2> QED
    BY <1>i, <1>8, <2>2 DEF WriteResult, chainVars
<1>9. ASSUME Finish \/ ReconcileFails PROVE TypeOK'
  BY <1>i, <1>9 DEF Finish, ReconcileFails, chainVars, queueVars, Chains
<1>10. CASE UNCHANGED vars
  BY <1>10 DEF vars, chainVars, serviceVars, queueVars
<1> QED
  BY <1>1, <1>2, <1>3, <1>4, <1>5, <1>6, <1>7, <1>8, <1>9, <1>10 DEF Next

-----------------------------------------------------------------------------
(* Every step keeps Inv *)

LEMMA InitInv == Init => Inv
<1> SUFFICES ASSUME Init PROVE Inv
  OBVIOUS
<1>1. TypeOK
  BY InitType
<1>2. \A c \in Chains : JobFits(c) /\ job[c].stage # "tx"
  BY DEF Init, JobFits, Idle
<1>3. ASSUME NEW p \in Packets
      PROVE  ChainFits(p) /\ Columns(p) /\ RowFits(row[p], p)
  BY Ends DEF Init, ChainFits, Columns, RowFits, NoRow, Found, By, Pending, Success, Fail, Refund
<1> QED
  BY <1>1, <1>2, <1>3 DEF Inv

(* What the chains do lies above the cursors and changes no stored event. *)
LEMMA ChainStep ==
  ASSUME Inv,
         \/ \E c \in Chains : Mine(c)
         \/ \E p \in Packets : Send(p) \/ Ack(p) \/ GiveBack(p)
  PROVE  /\ \A c \in Chains : JobFits(c)'
         /\ \A p \in Packets : ChainFits(p)' /\ Columns(p)' /\ RowFits(row[p], p)'
         /\ \A c \in Chains, p \in Packets : (job[c].stage = "tx" => Snap(c, p))'
<1>t. TypeOK
  BY DEF Inv
<1>s. UNCHANGED <<cursor, row, job>>
  BY DEF Mine, Send, Ack, GiveBack, serviceVars
<1>h. /\ head' \in [Chains -> Nat]
      /\ \A c \in Chains : head[c] <= head'[c]
  BY <1>t DEF TypeOK, Mine, Send, Ack, GiveBack
<1>1. \A c \in Chains : JobFits(c)'
  BY <1>t, <1>s, <1>h DEF Inv, JobFits, TypeOK, JobRecord
<1>2. ASSUME NEW p \in Packets
      PROVE  /\ ChainFits(p)' /\ Columns(p)'
             /\ acked[p] # 0 => acked'[p] = acked[p] /\ code'[p] = code[p]
             /\ refunded[p] # 0 => refunded'[p] = refunded[p]
             /\ code[p] # 0 => code'[p] = code[p]
  <2>t. /\ Src(p) \in Chains /\ Dst(p) \in Chains /\ Src(p) # Dst(p)
        /\ sent[p] \in Nat /\ acked[p] \in Nat /\ refunded[p] \in Nat
        /\ code[p] \in {0, Success, Fail}
        /\ head[Src(p)] \in Nat /\ head[Dst(p)] \in Nat
        /\ cursor[Src(p)] \in Nat /\ cursor[Dst(p)] \in Nat
        /\ cursor[Src(p)] < head[Src(p)] /\ cursor[Dst(p)] < head[Dst(p)]
        /\ ChainFits(p) /\ Columns(p) /\ row[p] \in Heights
    BY <1>t, Ends DEF TypeOK, Inv, JobFits
  <2>1. CASE UNCHANGED <<sent, acked, code, refunded>>
    BY <1>s, <1>h, <2>t, <2>1 DEF ChainFits, Columns, By
  <2>2. ASSUME NEW q \in Packets, Send(q) PROVE <1>2!2
    <3>1. CASE p = q
      <4>1. /\ sent[p] = 0 /\ sent'[p] = head[Src(p)]
            /\ UNCHANGED <<head, acked, code, refunded, cursor, row>>
        BY <1>s, <1>t, <2>2, <3>1 DEF Send, TypeOK
      <4>2. acked[p] = 0 /\ code[p] = 0 /\ refunded[p] = 0
        BY <2>t, <4>1 DEF ChainFits, Fail
      <4>3. ChainFits(p)'
        BY <2>t, <4>1, <4>2 DEF ChainFits
      <4>4. Columns(p)'
        BY <2>t, <4>1, <4>2 DEF Columns, By
      <4> QED
        BY <4>1, <4>2, <4>3, <4>4
    <3>2. CASE p # q
      BY <1>s, <1>t, <2>t, <2>2, <3>2 DEF Send, ChainFits, Columns, By, TypeOK
    <3> QED
      BY <3>1, <3>2
  <2>3. ASSUME NEW q \in Packets, Ack(q) PROVE <1>2!2
    <3>1. CASE p = q
      BY <1>s, <1>t, <2>t, <2>3, <3>1
         DEF Ack, ChainFits, Columns, By, TypeOK, Heights, Success, Fail
    <3>2. CASE p # q
      BY <1>s, <1>t, <2>t, <2>3, <3>2 DEF Ack, ChainFits, Columns, By, TypeOK
    <3> QED
      BY <3>1, <3>2
  <2>4. ASSUME NEW q \in Packets, GiveBack(q) PROVE <1>2!2
    <3>1. CASE p = q
      BY <1>s, <1>t, <2>t, <2>4, <3>1 DEF GiveBack, ChainFits, Columns, By, TypeOK, Heights
    <3>2. CASE p # q
      BY <1>s, <1>t, <2>t, <2>4, <3>2 DEF GiveBack, ChainFits, Columns, By, TypeOK
    <3> QED
      BY <3>1, <3>2
  <2> QED
    BY <2>1, <2>2, <2>3, <2>4 DEF Mine
<1>3. ASSUME NEW p \in Packets, NEW r, RowFits(r, p)
      PROVE  RowFits(r, p)'
  <2>1. /\ acked[p] # 0 => acked'[p] = acked[p] /\ code'[p] = code[p]
        /\ refunded[p] # 0 => refunded'[p] = refunded[p]
        /\ code[p] # 0 => code'[p] = code[p]
    BY <1>2
  <2> QED
    BY <1>3, <2>1 DEF RowFits, Success, Fail
<1>4. ASSUME NEW p \in Packets PROVE RowFits(row[p], p)'
  BY <1>3, <1>s DEF Inv, RowFits
<1>5. ASSUME NEW c \in Chains, NEW p \in Packets, (job[c].stage = "tx")'
      PROVE  Snap(c, p)'
  <2>1. Snap(c, p)
    BY <1>s, <1>5 DEF Inv
  <2>2. RowFits(job[c].snapshot[p], p) /\ job' = job /\ row' = row
    BY <1>s, <2>1 DEF Snap
  <2>3. RowFits(job[c].snapshot[p], p)'
    BY <1>2, <2>2 DEF RowFits, Success, Fail
  <2> QED
    BY <2>1, <2>2, <2>3 DEF Snap
<1> QED
  BY <1>1, <1>2, <1>4, <1>5

(* A transaction's commit: the rows of its chain's events, then the cursor. *)
LEMMA CommitStep ==
  ASSUME Inv, NEW c \in Chains, Commit(c)
  PROVE  /\ \A d \in Chains : JobFits(d)'
         /\ \A p \in Packets : ChainFits(p)' /\ Columns(p)' /\ RowFits(row[p], p)'
         /\ \A d \in Chains, p \in Packets : (job[d].stage = "tx" => Snap(d, p))'
<1>t. TypeOK
  BY DEF Inv
<1>s. /\ UNCHANGED <<head, sent, acked, code, refunded>>
      /\ job[c].stage = "tx" /\ ~Duplicate(c)
      /\ row' = [p \in Packets |-> IF Touches(c, p) THEN NewRow(c, p) ELSE row[p]]
      /\ cursor' = [cursor EXCEPT ![c] = job[c].upto]
      /\ \A d \in Chains \ {c} : job'[d] = job[d]
      /\ job'[c].stage # "tx"
  BY <1>t DEF Commit, chainVars, TypeOK, Idle
<1>u. /\ cursor[c] \in Nat /\ job[c].upto \in Nat /\ head[c] \in Nat
      /\ cursor[c] < job[c].upto /\ job[c].upto < head[c]
      /\ cursor'[c] = job[c].upto
      /\ \A d \in Chains \ {c} : cursor'[d] = cursor[d]
  BY <1>t, <1>s DEF Inv, JobFits, TypeOK, JobRecord
<1>1. \A d \in Chains : JobFits(d)'
  BY <1>s, <1>u DEF Inv, JobFits
<1>2. ASSUME NEW p \in Packets PROVE ChainFits(p)'
  BY <1>s DEF Inv, ChainFits
(* The packet's facts, one by one. *)
<1>f. ASSUME NEW p \in Packets
      PROVE  /\ Src(p) \in Chains /\ Dst(p) \in Chains /\ Src(p) # Dst(p)
             /\ sent[p] \in Nat /\ acked[p] \in Nat /\ refunded[p] \in Nat
             /\ code[p] \in {0, Success, Fail}
             /\ cursor[Src(p)] \in Nat /\ cursor[Dst(p)] \in Nat
             /\ ChainFits(p) /\ Columns(p) /\ RowFits(row[p], p) /\ Snap(c, p)
             /\ row[p] \in Heights /\ job[c].snapshot[p] \in Heights
  BY <1>t, <1>s, Ends DEF Inv, TypeOK, JobRecord
<1>3. ASSUME NEW p \in Packets, ~Touches(c, p)
      PROVE  Columns(p)' /\ RowFits(row[p], p)'
  <2>1. row'[p] = row[p]
    BY <1>s, <1>3
  <2>2. RowFits(row[p], p)'
    BY <1>s, <1>f, <2>1 DEF RowFits
  <2>3. CASE Src(p) = c
    <3>1. ~Fresh(c, sent[p]) /\ ~Fresh(c, refunded[p])
      BY <1>3, <2>3 DEF Touches, HasSend, HasRefund
    <3> QED
      BY <1>s, <1>u, <1>f, <2>1, <2>2, <2>3, <3>1 DEF Columns, By, Fresh
  <2>4. CASE Dst(p) = c
    BY <1>s, <1>u, <1>f, <2>1, <2>2, <2>4 DEF Columns, By
  <2>5. CASE Src(p) # c /\ Dst(p) # c
    BY <1>f, <2>5 DEF Chains
  <2> QED
    BY <2>3, <2>4, <2>5
<1>4. ASSUME NEW p \in Packets, Src(p) = c, Touches(c, p)
      PROVE  Columns(p)' /\ RowFits(row[p], p)'
  <2> DEFINE s == job[c].snapshot[p]
             r == row[p]
             st == Higher(s.status, IF HasRefund(c, p) THEN Refund ELSE Pending)
  <2>1. ~HasAck(c, p) /\ (HasSend(c, p) \/ HasRefund(c, p))
    BY <1>4, <1>f DEF HasAck, Touches
  <2>2. /\ row'[p].src = IF HasSend(c, p) THEN sent[p] ELSE r.src
        /\ row'[p].dest = r.dest
        /\ row'[p].refund = IF HasRefund(c, p) THEN refunded[p] ELSE r.refund
        /\ row'[p].status = st
    BY <1>s, <1>4, <2>1 DEF NewRow
  <2>3. /\ HasSend(c, p) <=> Fresh(c, sent[p])
        /\ HasRefund(c, p) <=> Fresh(c, refunded[p])
    BY <1>4 DEF HasSend, HasRefund
  <2>4. Columns(p)'
    BY <1>s, <1>u, <1>f, <1>4, <2>2, <2>3 DEF Columns, By, Fresh
  <2>5. s.src = r.src /\ s.refund = r.refund /\ (Found(r) => Found(s))
    BY <1>f, <1>s, <1>4 DEF Snap, Duplicate
  <2>6. s.status \in 0 .. Refund /\ r.status \in 0 .. Refund
    BY <1>f DEF Heights
  <2>7. CASE HasRefund(c, p)
    <3>1. st = Refund
      BY <2>6, <2>7 DEF Higher, Refund
    <3>2. refunded[p] # 0 /\ row'[p].refund # 0
      BY <1>u, <1>f, <2>2, <2>3, <2>7 DEF Fresh
    <3>3. r.dest # 0 => acked[p] # 0
      BY <1>f DEF RowFits
    <3> QED
      BY <1>s, <2>2, <2>4, <3>1, <3>2, <3>3
         DEF RowFits, Found, Pending, Success, Fail, Refund
  <2>8. CASE ~HasRefund(c, p)
    <3>1. HasSend(c, p) /\ sent[p] # 0 /\ cursor[c] < sent[p]
      BY <1>u, <1>f, <2>1, <2>3, <2>8 DEF Fresh
    <3>2. r.src = 0 /\ r.refund = 0
      BY <1>u, <1>f, <1>4, <3>1 DEF Columns, ChainFits, By
    <3>3. s.status \in {0, Success, Fail}
      BY <1>f, <2>5, <2>6, <3>2 DEF Snap, RowFits, Pending, Success, Fail, Refund
    <3>4. st = (IF s.status = 0 THEN Pending ELSE s.status)
      BY <2>8, <3>3 DEF Higher, Pending, Success, Fail
    <3>5. s.status # 0 => s.dest # 0 /\ r.dest = s.dest /\ code[p] = s.status
      BY <1>f, <3>3 DEF Snap, RowFits, Success, Fail
    <3>6. s.status = 0 => r.dest = 0
      <4>1. s.status = 0 => ~Found(r)
        BY <2>5 DEF Found
      <4> QED
        BY <1>f, <4>1 DEF RowFits, NoRow
    <3>7. r.dest # 0 => acked[p] # 0
      BY <1>f DEF RowFits
    <3> QED
      BY <1>s, <2>2, <2>4, <2>8, <3>1, <3>2, <3>3, <3>4, <3>5, <3>6, <3>7
         DEF RowFits, Found, Pending, Success, Fail, Refund
  <2> QED
    BY <2>7, <2>8
<1>5. ASSUME NEW p \in Packets, Dst(p) = c, Touches(c, p)
      PROVE  Columns(p)' /\ RowFits(row[p], p)'
  <2> DEFINE s == job[c].snapshot[p]
             r == row[p]
             st == Higher(s.status, code[p])
  <2>1. HasAck(c, p) /\ ~HasSend(c, p) /\ ~HasRefund(c, p)
    BY <1>5, <1>f DEF HasSend, HasRefund, Touches
  <2>2. /\ row'[p].src = r.src /\ row'[p].dest = acked[p]
        /\ row'[p].refund = r.refund /\ row'[p].status = st
    BY <1>s, <1>5, <2>1 DEF NewRow
  <2>3. cursor[c] < acked[p] /\ acked[p] <= cursor'[c] /\ acked[p] # 0
    BY <1>u, <1>f, <2>1 DEF HasAck, Fresh
  <2>4. Columns(p)'
    BY <1>s, <1>u, <1>f, <1>5, <2>2, <2>3 DEF Columns, By
  <2>5. r.dest = 0 /\ s.dest = 0
    BY <1>f, <1>u, <1>5, <2>3 DEF Columns, By, Snap
  <2>6. code[p] \in {Success, Fail}
    BY <1>f, <2>3 DEF ChainFits
  <2>7. s.status \in {0, Pending, Refund}
    BY <1>f, <2>5 DEF Snap, RowFits, Heights, Pending, Success, Fail, Refund
  <2>8. s.status = Refund => r.refund # 0
    BY <1>f, <2>7 DEF Snap, RowFits
  <2>9. r.refund # 0 => refunded[p] # 0 /\ code[p] = Fail
    BY <1>f DEF RowFits, ChainFits
  <2>10. st = (IF s.status = Refund THEN Refund ELSE code[p])
    BY <2>6, <2>7 DEF Higher, Pending, Success, Fail, Refund
  <2> QED
    BY <1>s, <2>2, <2>3, <2>4, <2>6, <2>8, <2>9, <2>10
       DEF RowFits, Found, Pending, Success, Fail, Refund
<1>6. ASSUME NEW p \in Packets PROVE Columns(p)' /\ RowFits(row[p], p)'
  <2>1. Src(p) = c \/ Dst(p) = c
    BY <1>f DEF Chains
  <2> QED
    BY <1>3, <1>4, <1>5, <2>1
(* The other chain's transaction reads only columns that are not its own. *)
<1>7. ASSUME NEW d \in Chains, NEW p \in Packets, (job[d].stage = "tx")'
      PROVE  Snap(d, p)'
  <2>1. d # c /\ job'[d] = job[d] /\ Snap(d, p)
    BY <1>s, <1>7 DEF Inv
  <2>2. RowFits(job[d].snapshot[p], p)'
    BY <1>s, <2>1 DEF Snap, RowFits
  <2>3. CASE ~Touches(c, p)
    <3>1. row'[p] = row[p]
      BY <1>s, <2>3
    <3> QED
      BY <2>1, <2>2, <3>1 DEF Snap
  <2>4. CASE Touches(c, p)
    <3>1. row'[p] = NewRow(c, p)
      BY <1>s, <2>4
    <3>2. Found(row'[p])
      BY <1>f, <1>6, <1>s, <3>1, <2>4
         DEF NewRow, Found, Higher, Pending, Refund, Success, Fail, Heights, HasAck, ChainFits,
             Fresh
    <3>3. CASE Src(p) = c
      <4>1. Dst(p) = d /\ ~HasAck(c, p)
        BY <1>f, <2>1, <3>3 DEF Chains, HasAck
      <4>2. row'[p].dest = row[p].dest
        BY <3>1, <4>1 DEF NewRow
      <4>3. row[p].refund # 0 => row'[p].refund = row[p].refund
        BY <1>u, <1>f, <3>1, <3>3 DEF NewRow, HasRefund, Fresh, Columns, By
      <4> QED
        BY <1>f, <2>1, <2>2, <3>2, <3>3, <4>1, <4>2, <4>3 DEF Snap
    <3>4. CASE Dst(p) = c
      <4>1. Src(p) = d /\ ~HasSend(c, p) /\ ~HasRefund(c, p)
        BY <1>f, <2>1, <3>4 DEF Chains, HasSend, HasRefund
      <4>2. row'[p].src = row[p].src /\ row'[p].refund = row[p].refund
        BY <3>1, <4>1 DEF NewRow
      <4>3. row[p].dest # 0 => row'[p].dest = row[p].dest
        BY <1>u, <1>f, <3>1, <3>4 DEF NewRow, HasAck, Fresh, Columns, By
      <4> QED
        BY <1>f, <2>1, <2>2, <3>2, <3>4, <4>1, <4>2, <4>3 DEF Snap
    <3> QED
      BY <1>f, <3>3, <3>4 DEF Chains
  <2> QED
    BY <2>3, <2>4
<1> QED
  BY <1>1, <1>2, <1>6, <1>7

LEMMA BeginStep ==
  ASSUME Inv, NEW c \in Chains, BeginTx(c)
  PROVE  /\ \A d \in Chains : JobFits(d)'
         /\ \A d \in Chains, p \in Packets : (job[d].stage = "tx" => Snap(d, p))'
<1>t. TypeOK
  BY DEF Inv
<1>1. PICK n \in cursor[c] + 1 .. head[c] - 1 :
        job' = [job EXCEPT ![c] = [stage |-> "tx", upto |-> n, snapshot |-> row]]
  BY DEF BeginTx
<1>2. UNCHANGED <<head, sent, acked, code, refunded, cursor, row>>
  BY DEF BeginTx, chainVars
<1>3. /\ job'[c] = [stage |-> "tx", upto |-> n, snapshot |-> row]
      /\ \A d \in Chains \ {c} : job'[d] = job[d]
  BY <1>t, <1>1 DEF TypeOK
<1>4. \A d \in Chains : JobFits(d)'
  BY <1>t, <1>2, <1>3 DEF Inv, JobFits, TypeOK
<1>5. ASSUME NEW d \in Chains, NEW p \in Packets, (job[d].stage = "tx")'
      PROVE  Snap(d, p)'
  <2>1. CASE d = c
    <3>1. job'[d].snapshot[p] = row'[p] /\ RowFits(row[p], p)
      BY <1>2, <1>3, <2>1 DEF Inv
    <3> QED
      BY <1>2, <3>1 DEF Snap, RowFits
  <2>2. CASE d # c
    <3>1. job'[d] = job[d] /\ Snap(d, p)
      BY <1>3, <1>5, <2>2 DEF Inv
    <3> QED
      BY <1>2, <3>1 DEF Snap, RowFits
  <2> QED
    BY <2>1, <2>2
<1> QED
  BY <1>4, <1>5

(* Steps that change neither the chains, the rows nor the cursors, and start   *)
(* no transaction.                                                           *)
LEMMA QuietStep ==
  ASSUME Inv, UNCHANGED <<head, sent, acked, code, refunded, cursor, row>>,
         \A c \in Chains : job'[c] = job[c] \/ job'[c].stage # "tx"
  PROVE  /\ \A d \in Chains : JobFits(d)'
         /\ \A p \in Packets : ChainFits(p)' /\ Columns(p)' /\ RowFits(row[p], p)'
         /\ \A d \in Chains, p \in Packets : (job[d].stage = "tx" => Snap(d, p))'
<1>1. \A d \in Chains : JobFits(d)'
  BY DEF Inv, JobFits
<1>2. \A p \in Packets : ChainFits(p)' /\ Columns(p)' /\ RowFits(row[p], p)'
  BY DEF Inv, ChainFits, Columns, RowFits, By
<1>3. ASSUME NEW d \in Chains, NEW p \in Packets, (job[d].stage = "tx")'
      PROVE  Snap(d, p)'
  <2>1. job'[d] = job[d] /\ Snap(d, p)
    BY <1>3 DEF Inv
  <2> QED
    BY <2>1 DEF Snap, RowFits
<1> QED
  BY <1>1, <1>2, <1>3

LEMMA NextInv == Inv /\ [Next]_vars => Inv'
<1> SUFFICES ASSUME Inv, [Next]_vars PROVE Inv'
  OBVIOUS
<1>t. TypeOK /\ TypeOK'
  BY StepType DEF Inv
<1>1. CASE \/ \E c \in Chains : Mine(c)
           \/ \E p \in Packets : Send(p) \/ Ack(p) \/ GiveBack(p)
  BY <1>t, <1>1, ChainStep DEF Inv
<1>2. ASSUME NEW c \in Chains, Commit(c) PROVE Inv'
  BY <1>t, <1>2, CommitStep DEF Inv
<1>3. ASSUME NEW c \in Chains, BeginTx(c) PROVE Inv'
  <2>1. UNCHANGED <<head, sent, acked, code, refunded, cursor, row>>
    BY <1>3 DEF BeginTx, chainVars
  <2>2. \A p \in Packets : ChainFits(p)' /\ Columns(p)' /\ RowFits(row[p], p)'
    BY <2>1 DEF Inv, ChainFits, Columns, RowFits, By
  <2> QED
    BY <1>t, <1>3, <2>2, BeginStep DEF Inv
<1>4. CASE \/ \E c \in Chains : DuplicateKey(c) \/ TxFails(c)
           \/ ReadRow \/ SumA \/ SumB \/ WriteResult \/ Finish \/ ReconcileFails
           \/ UNCHANGED vars
  <2>1. UNCHANGED <<head, sent, acked, code, refunded, cursor, row>>
    BY <1>4 DEF DuplicateKey, TxFails, ReadRow, SumA, SumB, WriteResult, Finish,
                ReconcileFails, vars, chainVars, serviceVars
  <2>2. \/ job' = job
        \/ \E c \in Chains : job' = [job EXCEPT ![c] = Idle]
    BY <1>4 DEF DuplicateKey, TxFails, ReadRow, SumA, SumB, WriteResult, Finish,
                ReconcileFails, vars, serviceVars, Chains
  <2>3. \A c \in Chains : job'[c] = job[c] \/ job'[c].stage # "tx"
    BY <1>t, <2>2 DEF Idle, TypeOK
  <2> QED
    BY <1>t, <2>1, <2>3, QuietStep DEF Inv
<1> QED
  BY <1>1, <1>2, <1>3, <1>4 DEF Next

(* The table, read at any moment, tells for every cut below the cursors which  *)
(* packets were in flight at it.                                             *)
LEMMA InvExact == Inv => SumsExact
<1> SUFFICES ASSUME Inv, NEW p \in Packets, ~AckSkipped(p), ~RefundHidden(p),
                    NEW hSrc \in 0 .. cursor[Src(p)], NEW hDst \in 0 .. cursor[Dst(p)]
             PROVE  Counted(p, hSrc, hDst) <=> InFlight(p, hSrc, hDst)
  BY DEF SumsExact
<1>1. /\ sent[p] \in Nat /\ acked[p] \in Nat /\ refunded[p] \in Nat
      /\ code[p] \in {0, Success, Fail}
      /\ cursor[Src(p)] \in Nat /\ cursor[Dst(p)] \in Nat
      /\ hSrc \in Nat /\ hDst \in Nat
      /\ row[p] \in Heights /\ ChainFits(p) /\ Columns(p) /\ RowFits(row[p], p)
  BY Ends DEF Inv, TypeOK
<1>2. By(row[p].src, hSrc) <=> By(sent[p], hSrc)
  BY <1>1 DEF Columns, By
<1>3. CASE ~By(sent[p], hSrc)
  BY <1>2, <1>3 DEF Counted, InFlight
<1>4. CASE By(sent[p], hSrc)
  <2>1. row[p].src # 0 /\ row[p].status \in {Pending, Success, Fail, Refund}
    BY <1>1, <1>2, <1>4
       DEF By, RowFits, Found, NoRow, Heights, Pending, Success, Fail, Refund
  <2>2. CASE row[p].status = Pending
    <3>1. row[p].dest = 0 /\ row[p].refund = 0
      BY <1>1, <2>2 DEF RowFits, Pending, Success, Fail, Refund
    <3>2. ~Received(p, hDst) /\ ~By(refunded[p], hSrc)
      BY <1>1, <3>1 DEF AckSkipped, Received, Columns, By
    <3> QED
      BY <1>2, <1>4, <2>2, <3>2 DEF Counted, InFlight
  <2>3. CASE row[p].status = Success
    <3>1. code[p] = Success /\ row[p].dest = acked[p] /\ acked[p] # 0 /\ refunded[p] = 0
      BY <1>1, <2>3 DEF RowFits, Columns, ChainFits, Success, Fail
    <3> QED
      BY <1>1, <1>2, <1>4, <2>3, <3>1
         DEF Counted, InFlight, Received, By, Pending, Success, Fail, Refund
  <2>4. CASE row[p].status = Fail
    <3>1. code[p] = Fail /\ row[p].refund = 0
      BY <1>1, <2>4 DEF RowFits, RefundHidden
    <3>2. ~By(refunded[p], hSrc) /\ ~Received(p, hDst)
      BY <1>1, <3>1 DEF Columns, By, Received, Success, Fail
    <3> QED
      BY <1>2, <1>4, <2>4, <3>2 DEF Counted, InFlight
  <2>5. CASE row[p].status = Refund
    <3>1. row[p].refund = refunded[p] /\ refunded[p] # 0 /\ code[p] = Fail
      BY <1>1, <2>5 DEF RowFits, Columns, ChainFits
    <3> QED
      BY <1>1, <1>2, <1>4, <2>5, <3>1
         DEF Counted, InFlight, Received, By, Pending, Success, Fail, Refund
  <2> QED
    BY <2>1, <2>2, <2>3, <2>4, <2>5
<1> QED
  BY <1>3, <1>4

(* The variables have their types; only Teleport's acks are queued. *)
THEOREM TypeCorrect == Spec => []TypeOK
BY InitType, StepType, PTL DEF Spec

(* getSumAmount (bridges.go:145) counts exactly the packets in flight at the   *)
(* cut, at whatever moment of the other job's work it reads the table, but for *)
(* skipped acknowledgements and hidden refunds.                              *)
THEOREM SumsAreExact == Spec => []SumsExact
BY InitInv, NextInv, InvExact, PTL DEF Spec

-----------------------------------------------------------------------------
(* No acknowledgement is forgotten *)

(* The queue is empty when the job is not reconciling, and what is at work is  *)
(* still in the queue.                                                       *)
QueueInv ==
  /\ NoneForgotten
  /\ job["A"].stage # "reconcile" => queue = {} /\ cur.stage = "none"
  /\ cur.stage = "none" => cur.of = {}

LEMMA InitQueue == Init => QueueInv
BY DEF Init, QueueInv, NoneForgotten, Idle, Nothing, By, Chains, Packets

LEMMA NextQueue == Inv /\ QueueInv /\ [Next]_vars => QueueInv'
<1> SUFFICES ASSUME Inv, QueueInv, [Next]_vars PROVE QueueInv'
  OBVIOUS
<1>t. /\ TypeOK /\ "A" \in Chains /\ "B" \in Chains
      /\ In \subseteq Packets
      /\ \A c \in Chains : JobFits(c)
  BY DEF Inv, Chains, Packets
<1>1. ASSUME NEW c \in Chains, Mine(c) PROVE QueueInv'
  BY <1>1 DEF Mine, serviceVars, queueVars, QueueInv, NoneForgotten, By
<1>2. ASSUME NEW p \in Packets, Send(p) \/ GiveBack(p) PROVE QueueInv'
  BY <1>2 DEF Send, GiveBack, serviceVars, queueVars, QueueInv, NoneForgotten, By
<1>3. ASSUME NEW q \in Packets, Ack(q) PROVE QueueInv'
  <2>1. /\ UNCHANGED <<cursor, job, queue, cur, result, missed, late>>
        /\ acked' = [acked EXCEPT ![q] = head[Dst(q)]]
    BY <1>3 DEF Ack, serviceVars, queueVars
  <2>2. ASSUME NEW p \in In, By(acked'[p], cursor["A"]) PROVE By(acked[p], cursor["A"])
    <3>1. CASE p = q
      <4>1. acked'[p] = head["A"]
        BY <1>t, <2>1, <2>2, <3>1, BridgeOK DEF Dst, TypeOK
      <4> QED
        BY <1>t, <2>2, <4>1 DEF By, JobFits, TypeOK
    <3>2. CASE p # q
      BY <1>t, <2>1, <2>2, <3>2 DEF TypeOK
    <3> QED
      BY <3>1, <3>2
  <2> QED
    BY <2>1, <2>2 DEF QueueInv, NoneForgotten
<1>4. ASSUME NEW c \in Chains, BeginTx(c) PROVE QueueInv'
  <2>1. /\ UNCHANGED <<acked, cursor, queue, cur, result, missed, late>>
        /\ job[c].stage = "idle" /\ job'[c].stage = "tx"
        /\ \A d \in Chains \ {c} : job'[d] = job[d]
    BY <1>t, <1>4 DEF BeginTx, chainVars, queueVars, TypeOK
  <2> QED
    BY <1>t, <2>1 DEF QueueInv, NoneForgotten, By
<1>5. ASSUME NEW c \in Chains, Commit(c) PROVE QueueInv'
  <2>1. /\ UNCHANGED <<acked, cur, result, missed, late>>
        /\ job[c].stage = "tx" /\ cursor' = [cursor EXCEPT ![c] = job[c].upto]
        /\ queue' = IF c = "A" THEN {p \in In : HasAck(c, p)} ELSE queue
        /\ job'[c].stage = IF c = "A" THEN "reconcile" ELSE "idle"
        /\ \A d \in Chains \ {c} : job'[d] = job[d]
    BY <1>t, <1>5 DEF Commit, chainVars, TypeOK, Idle
  <2>2. CASE c = "A"
    <3>1. queue = {} /\ cur.stage = "none" /\ cursor'["A"] = job["A"].upto
      BY <1>t, <2>1, <2>2 DEF QueueInv, TypeOK
    <3>2. ASSUME NEW p \in In, By(acked'[p], cursor'["A"]), ~HasAck("A", p)
          PROVE  By(acked[p], cursor["A"])
      <4>1. Dst(p) = "A" /\ acked[p] \in Nat /\ cursor["A"] \in Nat
        BY <1>t, BridgeOK DEF Dst, TypeOK
      <4> QED
        BY <2>1, <3>1, <3>2, <4>1 DEF HasAck, Fresh, By
    <3> QED
      BY <2>1, <2>2, <3>1, <3>2 DEF QueueInv, NoneForgotten
  <2>3. CASE c # "A"
    BY <1>t, <2>1, <2>3 DEF QueueInv, NoneForgotten, By, TypeOK
  <2> QED
    BY <2>2, <2>3
<1>6. ASSUME NEW c \in Chains, DuplicateKey(c) \/ TxFails(c) PROVE QueueInv'
  <2>1. /\ UNCHANGED <<acked, cursor, queue, cur, result, missed, late>>
        /\ job[c].stage = "tx" /\ job'[c].stage = "idle"
        /\ \A d \in Chains \ {c} : job'[d] = job[d]
    BY <1>t, <1>6 DEF DuplicateKey, TxFails, chainVars, queueVars, TypeOK, Idle
  <2> QED
    BY <1>t, <2>1 DEF QueueInv, NoneForgotten, By
<1>7. ASSUME ReadRow PROVE QueueInv'
  <2>1. PICK p \in queue :
          IF row[p].src # 0
          THEN /\ cur' = [Nothing EXCEPT !.stage = "sumA", !.of = {p},
                                         !.hA = row[p].dest, !.hB = row[p].src]
               /\ UNCHANGED <<queue, late>>
          ELSE /\ queue' = queue \ {p} /\ late' = late \cup {p}
               /\ UNCHANGED cur
    BY <1>7 DEF ReadRow
  <2>2. /\ UNCHANGED <<acked, cursor, job, result, missed>>
        /\ job["A"].stage = "reconcile"
    BY <1>7 DEF ReadRow, chainVars
  <2>3. (cur' = cur \/ cur'.stage = "sumA") /\ queue \cup late \subseteq queue' \cup late'
    BY <2>1 DEF Nothing
  <2> QED
    BY <2>2, <2>3 DEF QueueInv, NoneForgotten, By
<1>8. ASSUME SumA \/ SumB PROVE QueueInv'
  <2>1. /\ UNCHANGED <<acked, cursor, job, queue, result, missed, late>>
        /\ cur.stage # "none" /\ cur'.stage # "none"
    BY <1>t, <1>8 DEF SumA, SumB, chainVars, TypeOK, CurRecord
  <2> QED
    BY <2>1 DEF QueueInv, NoneForgotten, By
<1>9. ASSUME WriteResult PROVE QueueInv'
  <2>1. /\ UNCHANGED <<acked, cursor, job, missed, late>>
        /\ queue' = queue \ cur.of /\ cur' = Nothing /\ cur.stage = "balances"
    BY <1>9 DEF WriteResult, chainVars
  <2>2. \A p \in In : result'[p].done \/ (p \notin cur.of /\ result'[p] = result[p])
    BY <1>t, <1>9 DEF WriteResult
  <2> QED
    BY <2>1, <2>2 DEF QueueInv, NoneForgotten, By, Nothing
<1>10. ASSUME Finish \/ ReconcileFails PROVE QueueInv'
  <2>1. /\ UNCHANGED <<acked, cursor, result, late>>
        /\ queue' = {} /\ cur'.stage = "none" /\ cur'.of = {}
        /\ queue \cup missed \subseteq missed'
    BY <1>10 DEF Finish, ReconcileFails, chainVars, queueVars, Nothing, QueueInv
  <2> QED
    BY <2>1 DEF QueueInv, NoneForgotten, By
<1>11. CASE UNCHANGED vars
  BY <1>11 DEF vars, chainVars, serviceVars, queueVars, QueueInv, NoneForgotten, By
<1> QED
  BY <1>1, <1>2, <1>3, <1>4, <1>5, <1>6, <1>7, <1>8, <1>9, <1>10, <1>11 DEF Next

(* Every acknowledgement Teleport's job has stored has a result, or waits, or  *)
(* was cut off by a fault, or was ahead of its packet's send (packet.go:615).  *)
THEOREM NoAckForgotten == Spec => []NoneForgotten
<1>1. QueueInv => NoneForgotten
  BY DEF QueueInv
<1> QED
  BY InitInv, NextInv, InitQueue, NextQueue, <1>1, PTL DEF Spec


-----------------------------------------------------------------------------
(* The result tells what is lost *)

(* A sum read at any moment holds the packets in flight at its cut. *)
HoldsInFlight(sum, ps, hSrc, hDst) ==
  \A p \in ps : ~AckSkipped(p) /\ ~RefundHidden(p) => (p \in sum <=> InFlight(p, hSrc, hDst))

(* The cut of p's reconciliation lies below the cursors. *)
CutStored(p) == By(acked[p], cursor["A"]) /\ By(sent[p], cursor["B"])

CurInv ==
  cur.stage # "none" => \E p \in In :
    /\ cur.of = {p} /\ CutStored(p)
    /\ cur.hA = acked[p] /\ cur.hB = sent[p]
    /\ cur.stage # "sumA" => HoldsInFlight(cur.sumA, Out, acked[p], sent[p])
    /\ cur.stage = "balances" => HoldsInFlight(cur.sumB, In, sent[p], acked[p])

ResultOf(p) ==
  result[p].done =>
    /\ CutStored(p)
    /\ HoldsInFlight(result[p].sumA, Out, acked[p], sent[p])
    /\ HoldsInFlight(result[p].sumB, In, sent[p], acked[p])

(* What is queued has its acknowledgement in its row. *)
ResultInv ==
  /\ \A p \in queue : row[p].dest # 0
  /\ CurInv
  /\ \A p \in In : ResultOf(p)

(* No step takes back what the cursors are past: skipped acknowledgements and  *)
(* hidden refunds stay so, and what was in flight at a cut was so at any time. *)
PastStays(p) ==
  /\ AckSkipped(p) => AckSkipped(p)'
  /\ RefundHidden(p) => RefundHidden(p)'
  /\ sent[p] # 0 => sent'[p] = sent[p]
  /\ acked[p] # 0 => acked'[p] = acked[p]
  /\ row[p].dest # 0 => row'[p].dest # 0
  /\ \A hSrc \in 0 .. cursor[Src(p)], hDst \in 0 .. cursor[Dst(p)] :
       InFlight(p, hSrc, hDst)' <=> InFlight(p, hSrc, hDst)

(* What holds of a packet in every state. *)
LEMMA PacketFacts ==
  ASSUME Inv, NEW p \in Packets
  PROVE  /\ Src(p) \in Chains /\ Dst(p) \in Chains /\ Src(p) # Dst(p)
         /\ sent[p] \in Nat /\ acked[p] \in Nat /\ refunded[p] \in Nat
         /\ code[p] \in {0, Success, Fail}
         /\ cursor[Src(p)] \in Nat /\ cursor[Dst(p)] \in Nat
         /\ head[Src(p)] \in Nat /\ head[Dst(p)] \in Nat
         /\ cursor[Src(p)] < head[Src(p)] /\ cursor[Dst(p)] < head[Dst(p)]
         /\ ChainFits(p) /\ Columns(p) /\ RowFits(row[p], p) /\ row[p] \in Heights
BY Ends DEF TypeOK, Inv, JobFits

(* A step that changes the packet's columns or codes only above the cursors. *)
LEMMA EventAbove ==
  ASSUME Inv, NEW p \in Packets, UNCHANGED <<cursor, row>>,
         sent'[p] = sent[p] \/ (sent[p] = 0 /\ cursor[Src(p)] < sent'[p]),
         \/ acked'[p] = acked[p] /\ code'[p] = code[p]
         \/ acked[p] = 0 /\ cursor[Dst(p)] < acked'[p],
         \/ refunded'[p] = refunded[p]
         \/ refunded[p] = 0 /\ cursor[Src(p)] < refunded'[p],
         sent'[p] \in Nat, acked'[p] \in Nat, refunded'[p] \in Nat
  PROVE  PastStays(p)
<1>1. /\ cursor[Src(p)] \in Nat /\ cursor[Dst(p)] \in Nat
      /\ sent[p] \in Nat /\ acked[p] \in Nat /\ refunded[p] \in Nat
  BY PacketFacts
<1>2. AckSkipped(p) => AckSkipped(p)'
  BY <1>1 DEF AckSkipped, By
<1>3. RefundHidden(p) => RefundHidden(p)'
  BY DEF RefundHidden
<1>4. ASSUME NEW hSrc \in 0 .. cursor[Src(p)], NEW hDst \in 0 .. cursor[Dst(p)]
      PROVE  InFlight(p, hSrc, hDst)' <=> InFlight(p, hSrc, hDst)
  <2>1. By(sent'[p], hSrc) <=> By(sent[p], hSrc)
    BY <1>1 DEF By
  <2>2. By(refunded'[p], hSrc) <=> By(refunded[p], hSrc)
    BY <1>1 DEF By
  <2>3. By(acked'[p], hDst) /\ code'[p] = Success <=> By(acked[p], hDst) /\ code[p] = Success
    BY <1>1 DEF By
  <2> QED
    BY <2>1, <2>2, <2>3 DEF InFlight, Received
<1> QED
  BY <1>2, <1>3, <1>4 DEF PastStays

LEMMA CommitPast ==
  ASSUME Inv, NEW c \in Chains, Commit(c), NEW p \in Packets
  PROVE  PastStays(p)
<1>f. /\ Src(p) \in Chains /\ Dst(p) \in Chains /\ Src(p) # Dst(p)
      /\ sent[p] \in Nat /\ acked[p] \in Nat /\ refunded[p] \in Nat
      /\ cursor[Src(p)] \in Nat /\ cursor[Dst(p)] \in Nat
      /\ ChainFits(p) /\ Columns(p) /\ RowFits(row[p], p) /\ row[p] \in Heights
  BY PacketFacts
<1>s. /\ UNCHANGED <<sent, acked, code, refunded>>
      /\ row'[p] = IF Touches(c, p) THEN NewRow(c, p) ELSE row[p]
      /\ \A d \in Chains : cursor'[d] \in Nat /\ cursor[d] <= cursor'[d]
  BY DEF Commit, chainVars, Inv, TypeOK, JobFits, JobRecord
<1>1. HasAck(c, p) => Dst(p) = c /\ cursor[Dst(p)] < acked[p]
  BY DEF HasAck, Fresh
<1>2. HasSend(c, p) => Src(p) = c /\ cursor[Src(p)] < sent[p]
  BY DEF HasSend, Fresh
<1>3. HasRefund(c, p) => Src(p) = c /\ cursor[Src(p)] < refunded[p]
  BY DEF HasRefund, Fresh
<1>4. row'[p].dest = IF HasAck(c, p) THEN acked[p] ELSE row[p].dest
  BY <1>s DEF NewRow, Touches
<1>5. AckSkipped(p) => AckSkipped(p)'
  BY <1>f, <1>s, <1>1, <1>4 DEF AckSkipped, By
<1>6. RefundHidden(p) => RefundHidden(p)'
  <2> SUFFICES ASSUME RefundHidden(p) PROVE RefundHidden(p)'
    OBVIOUS
  <2>1. row[p].status = Fail /\ row[p].refund # 0 /\ row[p].dest # 0
    BY <1>f DEF RefundHidden, RowFits
  <2>2. /\ acked[p] <= cursor[Dst(p)]
        /\ refunded[p] # 0 /\ refunded[p] <= cursor[Src(p)] /\ sent[p] <= refunded[p]
    BY <1>f, <2>1 DEF Columns, By, ChainFits
  <2>3. ~Touches(c, p)
    BY <1>f, <1>1, <1>2, <1>3, <2>2 DEF Touches
  <2> QED
    BY <1>s, <2>3 DEF RefundHidden
<1>7. row[p].dest # 0 => row'[p].dest # 0
  BY <1>f, <1>1, <1>4
<1> QED
  BY <1>s, <1>5, <1>6, <1>7 DEF PastStays, InFlight, Received, By

LEMMA StepPast ==
  ASSUME Inv, [Next]_vars, NEW p \in Packets
  PROVE  PastStays(p)
<1>t. TypeOK
  BY DEF Inv
<1>f. /\ Src(p) \in Chains /\ Dst(p) \in Chains
      /\ sent[p] \in Nat /\ acked[p] \in Nat /\ refunded[p] \in Nat
      /\ cursor[Src(p)] < head[Src(p)] /\ cursor[Dst(p)] < head[Dst(p)]
      /\ head[Src(p)] \in Nat /\ head[Dst(p)] \in Nat /\ ChainFits(p)
  BY PacketFacts
<1>1. CASE UNCHANGED <<sent, acked, code, refunded, cursor, row>>
  BY <1>f, <1>1, EventAbove
<1>2. ASSUME NEW q \in Packets, Send(q) PROVE PastStays(p)
  <2>1. /\ sent[q] = 0 /\ sent' = [sent EXCEPT ![q] = head[Src(q)]]
        /\ UNCHANGED <<acked, code, refunded, cursor, row>>
    BY <1>2 DEF Send, serviceVars
  <2>2. sent'[p] = sent[p] \/ (sent[p] = 0 /\ sent'[p] = head[Src(p)])
    BY <1>t, <2>1 DEF TypeOK
  <2> QED
    BY <1>f, <2>1, <2>2, EventAbove
<1>3. ASSUME NEW q \in Packets, Ack(q) PROVE PastStays(p)
  <2>1. /\ acked[q] = 0 /\ acked' = [acked EXCEPT ![q] = head[Dst(q)]]
        /\ \E s : code' = [code EXCEPT ![q] = s]
        /\ UNCHANGED <<sent, refunded, cursor, row>>
    BY <1>3 DEF Ack, serviceVars
  <2>2. \/ acked'[p] = acked[p] /\ code'[p] = code[p]
        \/ acked[p] = 0 /\ acked'[p] = head[Dst(p)]
    BY <1>t, <2>1 DEF TypeOK
  <2> QED
    BY <1>f, <2>1, <2>2, EventAbove
<1>4. ASSUME NEW q \in Packets, GiveBack(q) PROVE PastStays(p)
  <2>1. /\ refunded[q] = 0 /\ refunded' = [refunded EXCEPT ![q] = head[Src(q)]]
        /\ UNCHANGED <<sent, acked, code, cursor, row>>
    BY <1>4 DEF GiveBack, serviceVars
  <2>2. refunded'[p] = refunded[p] \/ (refunded[p] = 0 /\ refunded'[p] = head[Src(p)])
    BY <1>t, <2>1 DEF TypeOK
  <2> QED
    BY <1>f, <2>1, <2>2, EventAbove
<1>5. ASSUME NEW c \in Chains, Commit(c) PROVE PastStays(p)
  BY <1>5, CommitPast
<1>6. CASE \/ \E c \in Chains : Mine(c) \/ BeginTx(c) \/ DuplicateKey(c) \/ TxFails(c)
           \/ ReadRow \/ SumA \/ SumB \/ WriteResult \/ Finish \/ ReconcileFails
           \/ UNCHANGED vars
  BY <1>1, <1>6 DEF Mine, BeginTx, DuplicateKey, TxFails, ReadRow, SumA, SumB, WriteResult,
                    Finish, ReconcileFails, vars, chainVars, serviceVars
<1> QED
  BY <1>2, <1>3, <1>4, <1>5, <1>6 DEF Next

LEMMA CursorsGrow ==
  ASSUME Inv, [Next]_vars, NEW c \in Chains
  PROVE  cursor[c] \in Nat /\ cursor'[c] \in Nat /\ cursor[c] <= cursor'[c]
<1>1. TypeOK /\ TypeOK' /\ JobFits(c)
  BY StepType DEF Inv
<1>2. ASSUME NEW d \in Chains, Commit(d) PROVE cursor[c] <= cursor'[c]
  BY <1>1, <1>2 DEF Commit, Inv, TypeOK, JobFits, JobRecord
<1>3. cursor' = cursor \/ \E d \in Chains : Commit(d)
  BY DEF Next, Mine, Send, Ack, GiveBack, BeginTx, DuplicateKey, TxFails, ReadRow, SumA, SumB,
         WriteResult, Finish, ReconcileFails, vars, chainVars, serviceVars
<1> QED
  BY <1>1, <1>2, <1>3 DEF TypeOK

(* A cut below the cursors: what a sum of it holds is right for good. *)
LEMMA HoldsOn ==
  ASSUME Inv, [Next]_vars, NEW p \in In, CutStored(p)
  PROVE  /\ CutStored(p)' /\ acked'[p] = acked[p] /\ sent'[p] = sent[p]
         /\ \A sum : HoldsInFlight(sum, Out, acked[p], sent[p])
                       => HoldsInFlight(sum, Out, acked[p], sent[p])'
         /\ \A sum : HoldsInFlight(sum, In, sent[p], acked[p])
                       => HoldsInFlight(sum, In, sent[p], acked[p])'
<1>1. p \in Packets /\ PastStays(p) /\ "A" \in Chains /\ "B" \in Chains
  BY StepPast DEF Packets, Chains
<1>2. /\ acked[p] \in Nat /\ sent[p] \in Nat
      /\ cursor["A"] \in Nat /\ cursor["B"] \in Nat
      /\ cursor'["A"] \in Nat /\ cursor'["B"] \in Nat
      /\ cursor["A"] <= cursor'["A"] /\ cursor["B"] <= cursor'["B"]
  BY <1>1, CursorsGrow, PacketFacts
<1>3. acked'[p] = acked[p] /\ sent'[p] = sent[p]
  BY <1>1 DEF CutStored, By, PastStays
<1>4. CutStored(p)'
  BY <1>2, <1>3 DEF CutStored, By
<1>5. acked[p] \in 0 .. cursor["A"] /\ sent[p] \in 0 .. cursor["B"]
  BY <1>2 DEF CutStored, By
<1>6. ASSUME NEW q \in Out
      PROVE  /\ ~AckSkipped(q)' /\ ~RefundHidden(q)' => ~AckSkipped(q) /\ ~RefundHidden(q)
             /\ InFlight(q, acked[p], sent[p])' <=> InFlight(q, acked[p], sent[p])
  <2>1. PastStays(q) /\ Src(q) = "A" /\ Dst(q) = "B"
    BY StepPast DEF Packets, Src, Dst
  <2>2. \A hSrc \in 0 .. cursor["A"], hDst \in 0 .. cursor["B"] :
          InFlight(q, hSrc, hDst)' <=> InFlight(q, hSrc, hDst)
    BY <2>1 DEF PastStays
  <2>3. InFlight(q, acked[p], sent[p])' <=> InFlight(q, acked[p], sent[p])
    BY <1>3, <1>5, <2>2
  <2> QED
    BY <2>1, <2>3 DEF PastStays
<1>7. ASSUME NEW q \in In
      PROVE  /\ ~AckSkipped(q)' /\ ~RefundHidden(q)' => ~AckSkipped(q) /\ ~RefundHidden(q)
             /\ InFlight(q, sent[p], acked[p])' <=> InFlight(q, sent[p], acked[p])
  <2>1. PastStays(q) /\ Src(q) = "B" /\ Dst(q) = "A"
    BY BridgeOK, StepPast DEF Packets, Src, Dst
  <2>2. \A hSrc \in 0 .. cursor["B"], hDst \in 0 .. cursor["A"] :
          InFlight(q, hSrc, hDst)' <=> InFlight(q, hSrc, hDst)
    BY <2>1 DEF PastStays
  <2>3. InFlight(q, sent[p], acked[p])' <=> InFlight(q, sent[p], acked[p])
    BY <1>3, <1>5, <2>2
  <2> QED
    BY <2>1, <2>3 DEF PastStays
<1> QED
  BY <1>3, <1>4, <1>6, <1>7 DEF HoldsInFlight

(* What getSumAmount reads now. *)
LEMMA ReadsInFlight ==
  ASSUME Inv, NEW p \in In, CutStored(p)
  PROVE  /\ HoldsInFlight({q \in Out : Counted(q, acked[p], sent[p])}, Out, acked[p], sent[p])
         /\ HoldsInFlight({q \in In : Counted(q, sent[p], acked[p])}, In, sent[p], acked[p])
<1>1. p \in Packets /\ "A" \in Chains /\ "B" \in Chains
  BY DEF Packets, Chains
<1>2. acked[p] \in 0 .. cursor["A"] /\ sent[p] \in 0 .. cursor["B"]
  BY <1>1 DEF CutStored, By, Inv, TypeOK
<1>3. SumsExact
  BY InvExact
<1>4. ASSUME NEW q \in Out, ~AckSkipped(q), ~RefundHidden(q)
      PROVE  Counted(q, acked[p], sent[p]) <=> InFlight(q, acked[p], sent[p])
  <2>1. q \in Packets /\ Src(q) = "A" /\ Dst(q) = "B"
    BY DEF Packets, Src, Dst
  <2> QED
    BY <1>2, <1>3, <1>4, <2>1 DEF SumsExact
<1>5. ASSUME NEW q \in In, ~AckSkipped(q), ~RefundHidden(q)
      PROVE  Counted(q, sent[p], acked[p]) <=> InFlight(q, sent[p], acked[p])
  <2>1. q \in Packets /\ Src(q) = "B" /\ Dst(q) = "A"
    BY BridgeOK DEF Packets, Src, Dst
  <2> QED
    BY <1>2, <1>3, <1>5, <2>1 DEF SumsExact
<1> QED
  BY <1>4, <1>5 DEF HoldsInFlight

LEMMA InitResult == Init => ResultInv
BY DEF Init, ResultInv, CurInv, ResultOf, Nothing, NoResult, Packets

(* A reconciliation at work or a result keeps what it holds. *)
LEMMA CurKept == ASSUME Inv, CurInv, [Next]_vars, UNCHANGED cur PROVE CurInv'
BY HoldsOn DEF CurInv

LEMMA ResultKept ==
  ASSUME Inv, [Next]_vars, NEW p \in In, ResultOf(p), result'[p] = result[p]
  PROVE  ResultOf(p)'
BY HoldsOn DEF ResultOf

LEMMA CommitQueue ==
  ASSUME Inv, ResultInv, [Next]_vars, NEW c \in Chains, Commit(c)
  PROVE  \A p \in queue' : row'[p].dest # 0
<1>1. ASSUME NEW p \in Packets, HasAck(c, p) PROVE row'[p].dest # 0
  <2>1. acked[p] # 0 /\ row'[p] = NewRow(c, p)
    <3>1. cursor[c] < acked[p] /\ cursor[c] \in Nat /\ acked[p] \in Nat
      BY <1>1 DEF HasAck, Fresh, Inv, TypeOK
    <3> QED
      BY <1>1, <3>1 DEF Commit, Touches
  <2> QED
    BY <1>1, <2>1 DEF NewRow
<1>2. ASSUME NEW p \in queue PROVE row'[p].dest # 0
  <2>1. p \in Packets /\ row[p].dest # 0
    BY DEF Inv, TypeOK, Packets, ResultInv
  <2> QED
    BY <2>1, StepPast DEF PastStays
<1>3. queue' \subseteq {p \in Packets : HasAck(c, p)} \/ queue' = queue
  BY DEF Commit, Packets
<1> QED
  BY <1>1, <1>2, <1>3

LEMMA NextResult == Inv /\ ResultInv /\ [Next]_vars => ResultInv'
<1> SUFFICES ASSUME Inv, ResultInv, [Next]_vars PROVE ResultInv'
  OBVIOUS
<1>t. TypeOK /\ queue \subseteq In /\ In \subseteq Packets
  BY DEF Inv, TypeOK, Packets
<1>q. ASSUME queue' \subseteq queue PROVE \A p \in queue' : row'[p].dest # 0
  BY <1>t, <1>q, StepPast DEF PastStays, ResultInv
<1>1. CASE UNCHANGED <<queue, cur, result>>
  BY <1>q, <1>1, CurKept, ResultKept DEF ResultInv
<1>2. ASSUME NEW c \in Chains, Commit(c) PROVE ResultInv'
  <2>1. UNCHANGED <<cur, result>>
    BY <1>2 DEF Commit
  <2> QED
    BY <1>2, <2>1, CommitQueue, CurKept, ResultKept DEF ResultInv
<1>3. ASSUME ReadRow PROVE ResultInv'
  <2>1. /\ UNCHANGED <<result, sent, acked, cursor>>
        /\ cur.stage = "none" /\ queue' \subseteq queue
    BY <1>3 DEF ReadRow, chainVars
  <2>2. CurInv'
    <3>1. CASE cur' = cur
      BY <2>1, <3>1, CurKept DEF ResultInv
    <3>2. CASE cur' # cur
      <4>1. PICK p \in queue : /\ row[p].src # 0
              /\ cur' = [Nothing EXCEPT !.stage = "sumA", !.of = {p},
                                        !.hA = row[p].dest, !.hB = row[p].src]
        BY <1>3, <3>2 DEF ReadRow
      <4>2. p \in In /\ p \in Packets /\ Columns(p) /\ row[p].dest # 0
        BY <1>t DEF Inv, ResultInv
      <4>3. Src(p) = "B" /\ Dst(p) = "A"
        BY <4>2, BridgeOK DEF Src, Dst
      <4>4. row[p].src = sent[p] /\ row[p].dest = acked[p] /\ CutStored(p)
        BY <4>1, <4>2, <4>3 DEF Columns, CutStored
      <4>5. CutStored(p)'
        BY <2>1, <4>4 DEF CutStored
      <4>6. cur'.stage = "sumA" /\ cur'.of = {p} /\ cur'.hA = acked[p] /\ cur'.hB = sent[p]
        BY <4>1, <4>4 DEF Nothing
      <4> QED
        BY <2>1, <4>2, <4>5, <4>6 DEF CurInv
    <3> QED
      BY <3>1, <3>2
  <2> QED
    BY <1>q, <2>1, <2>2, ResultKept DEF ResultInv
<1>4. ASSUME SumA \/ SumB PROVE ResultInv'
  <2>1. UNCHANGED <<chainVars, cursor, row, queue, result>> /\ cur.stage # "none"
    BY <1>4 DEF SumA, SumB
  <2>2. PICK p \in In :
          /\ cur.of = {p} /\ CutStored(p)
          /\ cur.hA = acked[p] /\ cur.hB = sent[p]
          /\ cur.stage # "sumA" => HoldsInFlight(cur.sumA, Out, acked[p], sent[p])
    BY <2>1 DEF ResultInv, CurInv
  <2>3. /\ HoldsInFlight({q \in Out : Counted(q, acked[p], sent[p])}, Out, acked[p], sent[p])
        /\ HoldsInFlight({q \in In : Counted(q, sent[p], acked[p])}, In, sent[p], acked[p])
    BY <2>2, ReadsInFlight
  <2>4. /\ cur'.of = {p} /\ cur'.hA = acked[p] /\ cur'.hB = sent[p]
        /\ HoldsInFlight(cur'.sumA, Out, acked[p], sent[p])
        /\ cur'.stage = "balances" => HoldsInFlight(cur'.sumB, In, sent[p], acked[p])
    <3>1. cur \in CurRecord
      BY <1>t DEF TypeOK
    <3>2. CASE SumA
      <4>1. cur' = [cur EXCEPT !.stage = "sumB",
                               !.sumA = {q \in Out : Counted(q, cur.hA, cur.hB)}]
        BY <3>2 DEF SumA
      <4> QED
        BY <2>2, <2>3, <3>1, <4>1 DEF CurRecord
    <3>3. CASE SumB
      <4>1. cur' = [cur EXCEPT !.stage = "balances",
                               !.sumB = {q \in In : Counted(q, cur.hB, cur.hA)}]
            /\ cur.stage = "sumB"
        BY <3>3 DEF SumB
      <4> QED
        BY <2>2, <2>3, <3>1, <4>1 DEF CurRecord
    <3> QED
      BY <1>4, <3>2, <3>3
  <2>5. CurInv'
    BY <2>2, <2>4, HoldsOn DEF CurInv
  <2> QED
    BY <1>q, <2>1, <2>5, ResultKept DEF ResultInv
<1>5. ASSUME WriteResult PROVE ResultInv'
  <2>1. PICK p \in In :
          /\ cur.of = {p} /\ CutStored(p)
          /\ HoldsInFlight(cur.sumA, Out, acked[p], sent[p])
          /\ HoldsInFlight(cur.sumB, In, sent[p], acked[p])
    BY <1>5 DEF WriteResult, ResultInv, CurInv
  <2>2. /\ queue' \subseteq queue /\ cur'.stage = "none"
        /\ \A q \in In : q # p => result'[q] = result[q]
        /\ result'[p] = [done |-> TRUE, sumA |-> cur.sumA, sumB |-> cur.sumB]
    BY <1>t, <1>5, <2>1 DEF WriteResult, Nothing
  <2>3. ResultOf(p)'
    BY <2>1, <2>2, HoldsOn DEF ResultOf
  <2> QED
    BY <1>q, <2>2, <2>3, ResultKept DEF ResultInv, CurInv
<1>6. ASSUME Finish \/ ReconcileFails PROVE ResultInv'
  <2>1. result' = result /\ (cur' = cur \/ cur'.stage = "none") /\ queue' \subseteq queue
    BY <1>6 DEF Finish, ReconcileFails, queueVars, Nothing
  <2>2. CurInv'
    BY <2>1, CurKept DEF CurInv, ResultInv
  <2> QED
    BY <1>q, <2>1, <2>2, ResultKept DEF ResultInv
<1>7. CASE \/ \E c \in Chains : Mine(c) \/ BeginTx(c) \/ DuplicateKey(c) \/ TxFails(c)
           \/ \E p \in Packets : Send(p) \/ Ack(p) \/ GiveBack(p)
           \/ UNCHANGED vars
  BY <1>1, <1>7 DEF Mine, Send, Ack, GiveBack, BeginTx, DuplicateKey, TxFails, vars, serviceVars,
                    queueVars
<1> QED
  BY <1>2, <1>3, <1>4, <1>5, <1>6, <1>7 DEF Next

-----------------------------------------------------------------------------
(* The sum of the amounts of a set of packets *)

LEMMA PacketsFinite == IsFiniteSet(Packets) /\ \A s \in SUBSET Packets : IsFiniteSet(s)
BY BridgeOK, FS_Union, FS_Subset DEF Packets

SumStep(g, s) ==
  IF s = {} THEN 0 ELSE LET p == CHOOSE p \in s : TRUE IN Units[p] + g[s \ {p}]

IsSum(g, ps) == g = [s \in SUBSET ps |-> SumStep(g, s)]

LEMMA TotalIsSum == ASSUME NEW ps PROVE Total(ps) = (CHOOSE g : IsSum(g, ps))[ps]
BY DEF Total, MapThenSumSet, MapThenFoldSet, IsSum, SumStep

LEMMA Picked ==
  ASSUME NEW s \in SUBSET Packets, s # {}
  PROVE  LET p == CHOOSE p \in s : TRUE
         IN  /\ p \in s /\ Units[p] \in Nat
             /\ \A g : SumStep(g, s) = Units[p] + g[s \ {p}]
<1> DEFINE p == CHOOSE p \in s : TRUE
<1>1. p \in s
  OBVIOUS
<1>2. \A g : SumStep(g, s) = Units[p] + g[s \ {p}]
  BY DEF SumStep
<1> HIDE DEF p
<1>3. Units[p] \in Nat
  BY <1>1, BridgeOK
<1> QED
  BY <1>1, <1>2, <1>3 DEF p

LEMMA SumExists == ASSUME NEW ps \in SUBSET Packets PROVE \E g : IsSum(g, ps)
<1> DEFINE Small(n) == {s \in SUBSET ps : Cardinality(s) <= n}
           Sums(g, n) == \A s \in Small(n) : g[s] = SumStep(g, s)
           T == {n \in Nat : \E g \in [Small(n) -> Nat] : Sums(g, n)}
<1>1. \A s \in SUBSET ps : IsFiniteSet(s) /\ Cardinality(s) \in Nat
  BY PacketsFinite, FS_CardinalityType
<1>2. 0 \in T
  <2> DEFINE g == [s \in Small(0) |-> 0]
  <2>1. \A s \in Small(0) : s = {}
    BY <1>1, FS_EmptySet
  <2>2. g \in [Small(0) -> Nat] /\ Sums(g, 0)
    BY <2>1 DEF SumStep
  <2> QED
    BY <2>2
<1>3. ASSUME NEW n \in Nat, n \in T PROVE n + 1 \in T
  <2>1. PICK g \in [Small(n) -> Nat] : Sums(g, n)
    BY <1>3
  <2> DEFINE h == [s \in Small(n + 1) |-> SumStep(g, s)]
  <2>2. ASSUME NEW s \in Small(n + 1)
        PROVE  h[s] \in Nat /\ h[s] = SumStep(h, s)
    <3>1. CASE s = {}
      BY <3>1 DEF SumStep
    <3>2. CASE s # {}
      <4> DEFINE p == CHOOSE p \in s : TRUE
      <4>1. /\ p \in s /\ Units[p] \in Nat
            /\ \A f : SumStep(f, s) = Units[p] + f[s \ {p}]
        BY <3>2, Picked
      <4> HIDE DEF p
      <4>2. s \ {p} \in Small(n) /\ s \ {p} \in Small(n + 1)
        <5>1. Cardinality(s \ {p}) = Cardinality(s) - 1
          BY <1>1, <4>1, FS_RemoveElement
        <5> QED
          BY <1>1, <5>1
      <4>3. g[s \ {p}] \in Nat /\ g[s \ {p}] = SumStep(g, s \ {p})
        BY <2>1, <4>2
      <4>4. h[s \ {p}] = g[s \ {p}] /\ h[s] = SumStep(g, s)
        BY <4>2, <4>3
      <4> HIDE DEF h
      <4> QED
        BY <4>1, <4>3, <4>4
    <3> QED
      BY <3>1, <3>2
  <2>3. h \in [Small(n + 1) -> Nat] /\ Sums(h, n + 1)
    <3>1. h = [s \in Small(n + 1) |-> h[s]]
      OBVIOUS
    <3> HIDE DEF h
    <3> QED
      BY <2>2, <3>1
  <2>4. \E f \in [Small(n + 1) -> Nat] : Sums(f, n + 1)
    <3> HIDE DEF h, Sums
    <3> QED
      BY <2>3
  <2> HIDE DEF Small, Sums, h
  <2> QED
    BY <2>4
<1> HIDE DEF T
<1>4. Cardinality(ps) \in T
  BY <1>1, <1>2, <1>3, Induct
<1>5. PICK g \in [Small(Cardinality(ps)) -> Nat] : Sums(g, Cardinality(ps))
  BY <1>4 DEF T
<1>6. Small(Cardinality(ps)) = SUBSET ps
  BY <1>1, FS_Subset
<1>7. IsSum(g, ps)
  BY <1>5, <1>6 DEF IsSum
<1> QED
  BY <1>7

LEMMA SumsAgree ==
  ASSUME NEW ps \in SUBSET Packets, NEW g, IsSum(g, ps), NEW h, IsSum(h, Packets)
  PROVE  \A s \in SUBSET ps : g[s] = h[s] /\ g[s] \in Nat
<1> DEFINE T == {s \in SUBSET ps : g[s] = h[s] /\ g[s] \in Nat}
<1>1. ASSUME NEW s \in SUBSET ps, \A r \in SUBSET s : r # s => r \in T
      PROVE  s \in T
  <2>1. g[s] = SumStep(g, s) /\ h[s] = SumStep(h, s)
    BY DEF IsSum
  <2>2. CASE s = {}
    BY <2>1, <2>2 DEF SumStep
  <2>3. CASE s # {}
    <3> DEFINE p == CHOOSE p \in s : TRUE
    <3>1. /\ p \in s /\ Units[p] \in Nat
          /\ \A f : SumStep(f, s) = Units[p] + f[s \ {p}]
      BY <2>3, Picked
    <3> HIDE DEF p
    <3>2. s \ {p} \in T
      BY <1>1, <3>1
    <3> QED
      BY <2>1, <3>1, <3>2
  <2> QED
    BY <2>2, <2>3
<1>2. IsFiniteSet(ps)
  BY PacketsFinite
<1>3. SUBSET ps \subseteq T
  <2> HIDE DEF T
  <2> QED
    BY <1>1, <1>2, InductParts
<1> QED
  BY <1>3

(* The sum in the order in which CHOOSE takes the packets ... *)
LEMMA TotalStep ==
  /\ Total({}) = 0
  /\ \A s \in SUBSET Packets :
       /\ Total(s) \in Nat
       /\ s # {} => \E p \in s : Total(s) = Units[p] + Total(s \ {p})
<1>1. PICK h : IsSum(h, Packets)
  BY SumExists
<1>2. ASSUME NEW s \in SUBSET Packets
      PROVE  Total(s) = h[s] /\ h[s] \in Nat /\ h[s] = SumStep(h, s)
  <2> DEFINE g == CHOOSE g : IsSum(g, s)
  <2>1. IsSum(g, s)
    BY SumExists
  <2>2. Total(s) = g[s]
    BY TotalIsSum
  <2> HIDE DEF g
  <2>3. g[s] = h[s] /\ g[s] \in Nat
    BY <1>1, <2>1, SumsAgree
  <2>4. h[s] = SumStep(h, s)
    BY <1>1 DEF IsSum
  <2> QED
    BY <2>2, <2>3, <2>4
<1>3. Total({}) = 0
  BY <1>2 DEF SumStep
<1>4. ASSUME NEW s \in SUBSET Packets, s # {}
      PROVE  \E p \in s : Total(s) = Units[p] + Total(s \ {p})
  <2> DEFINE p == CHOOSE p \in s : TRUE
  <2>1. p \in s /\ \A f : SumStep(f, s) = Units[p] + f[s \ {p}]
    BY <1>4, Picked
  <2> HIDE DEF p
  <2>2. s \ {p} \in SUBSET Packets
    OBVIOUS
  <2> QED
    BY <1>2, <2>1, <2>2
<1> QED
  BY <1>2, <1>3, <1>4

(* ... is the same in any order. *)
LEMMA TotalRemove ==
  ASSUME NEW s \in SUBSET Packets, NEW p \in s
  PROVE  Total(s) = Units[p] + Total(s \ {p})
<1> DEFINE T == {a \in SUBSET Packets : \A q \in a : Total(a) = Units[q] + Total(a \ {q})}
<1>u. \A q \in Packets : Units[q] \in Nat
  BY BridgeOK
<1>1. ASSUME NEW a \in SUBSET Packets, \A r \in SUBSET a : r # a => r \in T
      PROVE  a \in T
  <2> SUFFICES ASSUME NEW q \in a PROVE Total(a) = Units[q] + Total(a \ {q})
    OBVIOUS
  <2>1. PICK c \in a : Total(a) = Units[c] + Total(a \ {c})
    BY TotalStep
  <2>2. CASE c = q
    BY <2>1, <2>2
  <2>3. CASE c # q
    <3>1. Total(a \ {c}) = Units[q] + Total((a \ {c}) \ {q})
      <4>1. a \ {c} \in T /\ q \in a \ {c}
        BY <1>1, <2>3
      <4> QED
        BY <4>1
    <3>2. Total(a \ {q}) = Units[c] + Total((a \ {q}) \ {c})
      <4>1. a \ {q} \in T /\ c \in a \ {q}
        BY <1>1, <2>3
      <4> QED
        BY <4>1
    <3>3. (a \ {c}) \ {q} = (a \ {q}) \ {c} /\ (a \ {c}) \ {q} \in SUBSET Packets
      OBVIOUS
    <3>4. Total((a \ {c}) \ {q}) \in Nat
      BY <3>3, TotalStep
    <3> QED
      BY <1>u, <2>1, <3>1, <3>2, <3>3, <3>4
  <2> QED
    BY <2>2, <2>3
<1>2. SUBSET Packets \subseteq T
  <2> HIDE DEF T
  <2> QED
    BY <1>1, PacketsFinite, InductParts
<1> QED
  BY <1>2

LEMMA TotalDisjoint ==
  ASSUME NEW a \in SUBSET Packets, NEW b \in SUBSET Packets, a \cap b = {}
  PROVE  Total(a \cup b) = Total(a) + Total(b)
<1> DEFINE T == {c \in SUBSET Packets : c \cap b = {} => Total(c \cup b) = Total(c) + Total(b)}
<1>u. \A q \in Packets : Units[q] \in Nat
  BY BridgeOK
<1>1. ASSUME NEW c \in SUBSET Packets, \A r \in SUBSET c : r # c => r \in T
      PROVE  c \in T
  <2> SUFFICES ASSUME c \cap b = {} PROVE Total(c \cup b) = Total(c) + Total(b)
    OBVIOUS
  <2>t. Total(b) \in Nat /\ Total({}) = 0
    BY TotalStep
  <2>1. CASE c = {}
    <3>1. c \cup b = b
      BY <2>1
    <3> QED
      BY <2>t, <2>1, <3>1
  <2>2. CASE c # {}
    <3>1. PICK p \in c : TRUE
      BY <2>2
    <3>2. Total(c) = Units[p] + Total(c \ {p})
      BY TotalRemove
    <3>3. Total(c \cup b) = Units[p] + Total((c \ {p}) \cup b)
      <4>1. c \cup b \in SUBSET Packets /\ p \in c \cup b
        OBVIOUS
      <4>2. (c \cup b) \ {p} = (c \ {p}) \cup b
        BY <3>1
      <4> QED
        BY <4>1, <4>2, TotalRemove
    <3>4. Total((c \ {p}) \cup b) = Total(c \ {p}) + Total(b)
      <4>1. c \ {p} \in T /\ (c \ {p}) \cap b = {}
        BY <1>1, <3>1
      <4> QED
        BY <4>1
    <3>5. Total(c \ {p}) \in Nat /\ Units[p] \in Nat
      BY <1>u, TotalStep
    <3> QED
      BY <2>t, <3>2, <3>3, <3>4, <3>5
  <2> QED
    BY <2>1, <2>2
<1>2. SUBSET Packets \subseteq T
  <2> HIDE DEF T
  <2> QED
    BY <1>1, PacketsFinite, InductParts
<1> QED
  BY <1>2

-----------------------------------------------------------------------------
(* On a clean cut, the packets sent from one chain are those received, those    *)
(* given back and those in flight.                                           *)
Parts(ps, hSrc, hDst, sum) ==
  Total({p \in ps : By(sent[p], hSrc)})
    = Total({p \in ps : By(refunded[p], hSrc)}) + Total({p \in ps : Received(p, hDst)})
      + Total(sum)

LEMMA SentInParts ==
  ASSUME Inv, NEW ps \in SUBSET Packets, NEW hSrc \in Nat, NEW hDst \in Nat,
         NEW sum \in SUBSET ps,
         \A p \in ps : p \in sum <=> InFlight(p, hSrc, hDst),
         \A p \in ps : ~Overtakes(p, hSrc, hDst)
  PROVE  Parts(ps, hSrc, hDst, sum)
<1> DEFINE gone == {p \in ps : By(sent[p], hSrc)}
           back == {p \in ps : By(refunded[p], hSrc)}
           there == {p \in ps : Received(p, hDst)}
<1>1. ASSUME NEW p \in ps
      PROVE  /\ By(refunded[p], hSrc) => By(sent[p], hSrc)
             /\ Received(p, hDst) => By(sent[p], hSrc)
             /\ ~(By(refunded[p], hSrc) /\ Received(p, hDst))
             /\ p \in sum <=> InFlight(p, hSrc, hDst)
  <2>1. /\ sent[p] \in Nat /\ acked[p] \in Nat /\ refunded[p] \in Nat /\ ChainFits(p)
        /\ code[p] \in {0, Success, Fail}
    BY PacketFacts
  <2>2. By(refunded[p], hSrc) => sent[p] <= refunded[p] /\ code[p] = Fail
    BY <2>1 DEF ChainFits, By
  <2>3. code[p] = Fail => acked[p] # 0 /\ sent[p] # 0
    BY <2>1 DEF ChainFits, Fail
  <2>4. By(refunded[p], hSrc) => By(sent[p], hSrc)
    BY <2>1, <2>2, <2>3 DEF By
  <2>5. ~(By(refunded[p], hSrc) /\ Received(p, hDst))
    BY <2>2 DEF Received, Success, Fail
  <2> QED
    BY <2>4, <2>5 DEF Overtakes
<1>2. /\ gone = (back \cup there) \cup sum
      /\ back \cap there = {} /\ (back \cup there) \cap sum = {}
  BY <1>1 DEF InFlight
<1>3. back \in SUBSET Packets /\ there \in SUBSET Packets /\ sum \in SUBSET Packets
  OBVIOUS
<1> HIDE DEF gone, back, there
<1>4. Total(gone) = Total(back \cup there) + Total(sum)
  BY <1>2, <1>3, TotalDisjoint
<1>5. Total(back \cup there) = Total(back) + Total(there)
  BY <1>2, <1>3, TotalDisjoint
<1> QED
  BY <1>4, <1>5 DEF Parts, gone, back, there

(* With the same decimals on both chains nothing is scaled. *)
LEMMA SameDecimals ==
  ASSUME DecA = DecB
  PROVE  /\ \A ps : OnA(ps) = Total(ps) * 1 /\ OnB(ps) = Total(ps) * 1
         /\ \A native, a, b, sumA, sumB :
              Difference(native, a, b, sumA, sumB)
                = a * 1 + (-Sign(native)) * OnA(sumA) * 1 - b * 1 - Sign(native) * OnA(sumB) * 1
<1>1. /\ DecA - Coarser = 0 /\ DecB - Coarser = 0 /\ DecA - DecB = 0
      /\ 0 % Word = 0 /\ Pow(0) = 1
  BY BridgeOK DEF Coarser, Pow
<1>2. \A ps : OnA(ps) = Total(ps) * 1 /\ OnB(ps) = Total(ps) * 1
  BY <1>1 DEF OnA, OnB
<1>3. ASSUME NEW native, NEW a, NEW b, NEW sumA, NEW sumB
      PROVE  Difference(native, a, b, sumA, sumB)
               = a * 1 + (-Sign(native)) * OnA(sumA) * 1 - b * 1
                 - Sign(native) * OnA(sumB) * 1
  BY <1>1 DEF Difference
<1> QED
  BY <1>2, <1>3

LEMMA InvTells ==
  ASSUME DecA = DecB, Inv, ResultInv
  PROVE  ResultTellsLoss
<1> SUFFICES ASSUME NEW p \in In, result[p].done, CleanCut(acked[p], sent[p]),
                    NEW native \in BOOLEAN, NEW lost \in 0 .. head["A"]
             PROVE  Succeeds(native, lost, p) <=> ~By(lost, acked[p])
  BY DEF ResultTellsLoss
<1> DEFINE hA == acked[p]
           hB == sent[p]
           sumA == result[p].sumA
           sumB == result[p].sumB
           sentA == Total({q \in Out : By(sent[q], hA)})
           backA == Total({q \in Out : By(refunded[q], hA)})
           thereB == Total({q \in Out : Received(q, hB)})
           sentB == Total({q \in In : By(sent[q], hB)})
           backB == Total({q \in In : By(refunded[q], hB)})
           thereA == Total({q \in In : Received(q, hA)})
           missing == IF By(lost, hA) THEN 1 ELSE 0
<1>1. p \in Packets /\ hA \in Nat /\ hB \in Nat /\ Initial \in Nat
  BY PacketFacts, BridgeOK DEF Packets
<1>2. sumA \in SUBSET Out /\ sumB \in SUBSET In
  BY <1>1 DEF Inv, TypeOK, ResultRecord
<1>3. Parts(Out, hA, hB, sumA)
  <2>1. \A q \in Out : q \in sumA <=> InFlight(q, hA, hB)
    BY DEF ResultInv, ResultOf, HoldsInFlight, CleanCut, Packets
  <2>2. \A q \in Out : ~Overtakes(q, hA, hB)
    BY DEF CleanCut, Packets
  <2>3. Out \in SUBSET Packets
    BY DEF Packets
  <2> HIDE DEF sumA, hA, hB
  <2> QED
    BY <1>1, <1>2, <2>1, <2>2, <2>3, SentInParts
<1>4. Parts(In, hB, hA, sumB)
  <2>1. \A q \in In : q \in sumB <=> InFlight(q, hB, hA)
    BY DEF ResultInv, ResultOf, HoldsInFlight, CleanCut, Packets
  <2>2. \A q \in In : ~Overtakes(q, hB, hA)
    BY DEF CleanCut, Packets
  <2>3. In \in SUBSET Packets
    BY DEF Packets
  <2> HIDE DEF sumB, hA, hB
  <2> QED
    BY <1>1, <1>2, <2>1, <2>2, <2>3, SentInParts
<1>5. sentA = backA + thereB + Total(sumA) /\ sentB = backB + thereA + Total(sumB)
  BY <1>3, <1>4 DEF Parts
<1>6. /\ sentA \in Nat /\ backA \in Nat /\ thereB \in Nat
      /\ sentB \in Nat /\ backB \in Nat /\ thereA \in Nat
      /\ Total(sumA) \in Nat /\ Total(sumB) \in Nat
  <2>1. \A s : s \in SUBSET Out \/ s \in SUBSET In => Total(s) \in Nat
    BY TotalStep DEF Packets
  <2> QED
    BY <1>2, <2>1
<1>7. Succeeds(native, lost, p) <=>
        Difference(native, TeleportAmount(native, lost, hA), OtherAmount(native, hB), sumA, sumB)
          = 0
  BY DEF Succeeds
<1>8. /\ TeleportAmount(native, lost, hA) =
           Initial * 1 - missing + Sign(native) * (sentA * 1 - backA * 1 - thereA * 1)
      /\ OtherAmount(native, hB) =
           Initial * 1 + Sign(native) * (thereB * 1 - sentB * 1 + backB * 1)
  <2>1. Pow(DecA - Coarser) = 1 /\ Pow(DecB - Coarser) = 1
    BY BridgeOK DEF Coarser, Pow
  <2> QED
    BY <2>1, SameDecimals DEF TeleportAmount, OtherAmount
<1>9. Sign(native) = 1 \/ Sign(native) = -1
  BY DEF Sign
<1>10. missing \in {0, 1} /\ (missing = 0 <=> ~By(lost, acked[p]))
  OBVIOUS
<1> HIDE DEF hA, hB, sumA, sumB, sentA, backA, thereB, sentB, backB, thereA, missing
<1>11. Difference(native, TeleportAmount(native, lost, hA), OtherAmount(native, hB), sumA, sumB)
         = -missing
  <2> DEFINE teleport == TeleportAmount(native, lost, hA)
             other == OtherAmount(native, hB)
  <2>1. Difference(native, teleport, other, sumA, sumB)
          = teleport * 1 + (-Sign(native)) * (Total(sumA) * 1) * 1 - other * 1
            - Sign(native) * (Total(sumB) * 1) * 1
    BY SameDecimals
  <2>2. CASE Sign(native) = 1
    BY <1>1, <1>5, <1>6, <1>8, <1>10, <2>1, <2>2
  <2>3. CASE Sign(native) = -1
    BY <1>1, <1>5, <1>6, <1>8, <1>10, <2>1, <2>3
  <2> QED
    BY <1>9, <2>2, <2>3
<1> QED
  BY <1>7, <1>10, <1>11

(***************************************************************************)
(* With a token of the same decimals on both chains, what the reconciliation  *)
(* writes on a clean cut (reconciliation.go:111-118) is "failed" if and only   *)
(* if a unit is missing on Teleport, whatever was in flight, whatever the      *)
(* amounts, and whenever the two sums were read.                              *)
(***************************************************************************)
THEOREM ResultIsRight == ASSUME DecA = DecB PROVE Spec => []ResultTellsLoss
<1>1. DecA = DecB
  OBVIOUS
<1>2. Inv /\ ResultInv => ResultTellsLoss
  BY <1>1, InvTells
<1> QED
  BY InitInv, NextInv, InitResult, NextResult, <1>2, PTL DEF Spec

=============================================================================
