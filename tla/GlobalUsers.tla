---------------------------- MODULE GlobalUsers ----------------------------
(***************************************************************************)
(* The table global_metrics: the number of users (distinct senders of        *)
(* packets) that saveToDB keeps up to date (packet.go:583-606, 799-854).      *)
(*                                                                          *)
(* A job's transaction stores its records, looks the records' senders up in   *)
(* what it then sees of the packet table, and adds those it does not find to   *)
(* the last row of global_metrics.  That row is read and inserted through      *)
(* another connection, outside the transaction, by the jobs of all chains.     *)
(* Acknowledgements and refunds carry no sender: the rows they create, and     *)
(* the look-up made for them, have the empty one.                             *)
(*                                                                          *)
(* Of a packet's row only the sender is kept, of global_metrics its last row.  *)
(* All tokens are listed, so that only the acks of EVM chains are skipped.     *)
(***************************************************************************)
EXTENDS Integers, Sequences, FiniteSets

CONSTANTS
  Jobs, Packets, Senders,
  NoSender,          \* the empty sender
  NoRow,             \* the packet has no row
  Sender,            \* [Packets -> Senders]
  Log,               \* [Jobs -> the events of the chain, in their order]
  Teleport,          \* jobs of chains whose acks carry the token's address
  MaxFailures        \* bound: how often a job fails or dies by an outside fault

Kinds == {"send", "ack", "refund"}
Events == [pkt : Packets, kind : Kinds]

ASSUME UsersOK ==
  /\ IsFiniteSet(Jobs) /\ IsFiniteSet(Senders)
  /\ NoSender \notin Senders
  /\ NoRow \notin Senders \cup {NoSender}
  /\ Sender \in [Packets -> Senders]
  /\ Log \in [Jobs -> Seq(Events)]
  /\ Teleport \subseteq Jobs

Row == Senders \cup {NoSender, NoRow}

(* global_metrics has no row yet. *)
NoMetrics == -1

VARIABLES
  row,        \* cross_chain_transactions.sender, by packet
  users,      \* global_metrics.user_amt of the last row
  done,       \* how many events of its log each job has committed
  job,
  failures    \* history: how often a job failed or died

vars == <<row, users, done, job, failures>>

Stages == {"idle", "taken", "begun", "written", "empty", "counting",
           "inserting", "committing"}

JobRecord == [stage : Stages, upto : Nat, batch : SUBSET Events,
              snapshot : [Packets -> Row], users : Nat]

Idle == [stage |-> "idle", upto |-> 0, batch |-> {},
         snapshot |-> [p \in Packets |-> NoRow], users |-> 0]

At(j, stage) == job[j].stage = stage
Step(j, from, to) == At(j, from) /\ job' = [job EXCEPT ![j].stage = to]

-----------------------------------------------------------------------------
(* What a transaction writes and sees *)

Written(j) == {e.pkt : e \in job[j].batch}

(* The row a job leaves: Updates does not write an empty sender. *)
NewRow(j, p) ==
  IF [pkt |-> p, kind |-> "send"] \in job[j].batch THEN Sender[p]
  ELSE IF row[p] = NoRow THEN NoSender ELSE row[p]

View(j) ==
  [p \in Packets |-> IF p \in Written(j) THEN NewRow(j, p) ELSE job[j].snapshot[p]]

HasOwnerless(j) == \E e \in job[j].batch : e.kind # "send"

(* senderSet *)
BatchSenders(j) ==
  {IF e.kind = "send" THEN Sender[e.pkt] ELSE NoSender : e \in job[j].batch}

NotFoundBeforeWrites(j) ==
  {s \in BatchSenders(j) : \A p \in Packets : job[j].snapshot[p] # s}

(* Senders looked up and not found: the transaction sees its own writes. *)
NotFound(j) == {s \in BatchSenders(j) : \A p \in Packets : View(j)[p] # s}

(* SELECT count(distinct sender) ... WHERE length(sender) > 0 *)
Users == {s \in Senders : \E p \in Packets : row[p] = s}

(* A row this job wants to write is locked by another transaction. *)
Locked(j) ==
  \E k \in Jobs \ {j} :
    /\ job[k].stage \in {"written", "empty", "counting", "inserting", "committing"}
    /\ Written(k) \cap Written(j) # {}

-----------------------------------------------------------------------------

Init ==
  /\ row = [p \in Packets |-> NoRow]
  /\ users = NoMetrics
  /\ done = [j \in Jobs |-> 0]
  /\ job = [j \in Jobs |-> Idle]
  /\ failures = 0

(* An ack of an EVM chain is skipped when its packet has no row yet. *)
Keeps(j, e) == e.kind # "ack" \/ j \in Teleport \/ row[e.pkt] # NoRow

(* The next blocks are fetched, with the events in them, if any. *)
Take(j) ==
  /\ At(j, "idle")
  /\ \E n \in done[j] .. Len(Log[j]) :
       job' = [job EXCEPT ![j] =
         [Idle EXCEPT !.stage = "taken", !.upto = n,
                      !.batch = {e \in {Log[j][i] : i \in done[j] + 1 .. n} : Keeps(j, e)}]]
  /\ UNCHANGED <<row, users, done, failures>>

(* The transaction's first read fixes its snapshot. *)
Begin(j) ==
  /\ At(j, "taken")
  /\ job' = [job EXCEPT ![j].stage = "begun", ![j].snapshot = row]
  /\ UNCHANGED <<row, users, done, failures>>

Duplicate(j) ==
  \E p \in Written(j) : job[j].snapshot[p] = NoRow /\ row[p] # NoRow

(* The rows are written, and stay locked and invisible until the commit. *)
Write(j) ==
  /\ ~Locked(j) /\ ~Duplicate(j)
  /\ Step(j, "begun", "written")
  /\ UNCHANGED <<row, users, done, failures>>

(* An INSERT of a row that was committed after the snapshot. *)
DuplicateKey(j) ==
  /\ At(j, "begun") /\ ~Locked(j) /\ Duplicate(j)
  /\ job' = [job EXCEPT ![j] = Idle]
  /\ UNCHANGED <<row, users, done, failures>>

ReadLastIgnoresMissing(j) ==
  /\ At(j, "written")
  /\ job' = [job EXCEPT ![j].stage = "inserting",
                        ![j].users = users + Cardinality(NotFound(j))]
  /\ UNCHANGED <<row, users, done, failures>>

(* The senders are looked up, then insertGlobalMetrics reads the last row. *)
ReadLast(j) ==
  /\ At(j, "written") /\ users # NoMetrics
  /\ job' = [job EXCEPT ![j].stage = "inserting",
                        ![j].users = users + Cardinality(NotFound(j))]
  /\ UNCHANGED <<row, users, done, failures>>

ReadNone(j) ==
  /\ users = NoMetrics
  /\ Step(j, "written", "empty")
  /\ UNCHANGED <<row, users, done, failures>>

(* initGlobalMetrics asks again whether there is a row; if another job has    *)
(* inserted one meanwhile, it returns and nothing is added.                   *)
ReadAgain(j) ==
  /\ Step(j, "empty", IF users = NoMetrics THEN "counting" ELSE "committing")
  /\ UNCHANGED <<row, users, done, failures>>

(* The count does not see what this transaction has written. *)
CountSenders(j) ==
  /\ At(j, "counting")
  /\ job' = [job EXCEPT ![j].stage = "inserting", ![j].users = Cardinality(Users)]
  /\ UNCHANGED <<row, users, done, failures>>

(* Committed at once, whatever becomes of the transaction. *)
Insert(j) ==
  /\ Step(j, "inserting", "committing")
  /\ users' = job[j].users
  /\ UNCHANGED <<row, done, failures>>

Commit(j) ==
  /\ At(j, "committing")
  /\ row' = [p \in Packets |-> IF p \in Written(j) THEN NewRow(j, p) ELSE row[p]]
  /\ done' = [done EXCEPT ![j] = job[j].upto]
  /\ job' = [job EXCEPT ![j] = Idle]
  /\ UNCHANGED <<users, failures>>

(* A call fails and the transaction is rolled back; when the process dies,    *)
(* this happens to every job.                                                *)
Fail(j) ==
  /\ ~At(j, "idle")
  /\ failures < MaxFailures
  /\ failures' = failures + 1
  /\ job' = [job EXCEPT ![j] = Idle]
  /\ UNCHANGED <<row, users, done>>

Work(j) ==
  \/ Take(j) \/ Begin(j) \/ Write(j) \/ DuplicateKey(j)
  \/ ReadLast(j) \/ ReadNone(j) \/ ReadAgain(j) \/ CountSenders(j)
  \/ Insert(j) \/ Commit(j)

Next == \E j \in Jobs : Work(j) \/ Fail(j)

Spec == Init /\ [][Next]_vars

-----------------------------------------------------------------------------
(* Properties *)

TypeOK ==
  /\ row \in [Packets -> Row]
  /\ users \in Nat \cup {NoMetrics}
  /\ done \in [Jobs -> Nat]
  /\ job \in [Jobs -> JobRecord]
  /\ failures \in Nat

(* The events without a sender that a job has passed, ... *)
LogEvents == UNION {{j} \X DOMAIN Log[j] : j \in Jobs}
SenderlessPassed ==
  {x \in LogEvents : x[2] <= done[x[1]] /\ Log[x[1]][x[2]].kind # "send"}
(* ... and the transactions with such an event that are about to commit.     *)
SenderlessLeft == {j \in Jobs : At(j, "committing") /\ HasOwnerless(j)}

(***************************************************************************)
(* A user is never counted before a packet of theirs is committed, and never  *)
(* twice.  What the number of users exceeds the senders in the table by is     *)
(* bounded by the acknowledgements and refunds, one each, and by the outside   *)
(* faults, one each: a transaction that is rolled back after its addition has  *)
(* been inserted is added again by its retry (packet.go:583-606), but no       *)
(* refused INSERT, second job or stale reading adds anything to that.          *)
(***************************************************************************)
NeverOvercounts ==
  users <= Cardinality(Users) + Cardinality(SenderlessPassed)
           + Cardinality(SenderlessLeft) + failures

(***************************************************************************)
(* packet.go:805: user_amt is the count of the distinct, not empty senders of  *)
(* the table; once every event is stored, that is what its last row says.      *)
(***************************************************************************)
UserAmtIsSenders ==
  (\A j \in Jobs : At(j, "idle") /\ done[j] = Len(Log[j])) /\ users # NoMetrics
    => users = Cardinality(Users)

=============================================================================
