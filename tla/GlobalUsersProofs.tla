------------------------- MODULE GlobalUsersProofs -------------------------
(***************************************************************************)
(* Proof that the number of users is ahead of the packet table by no more     *)
(* than acknowledgements, refunds and faults account for, for any jobs, logs  *)
(* and senders: NeverOvercounts.  Inv adds to it what a job carries between   *)
(* reading global_metrics and inserting, and that a batch has only events     *)
(* the job has not passed yet.  What is added is then accounted for when the  *)
(* transaction is about to commit, moves to the events passed when it does,   *)
(* and to the failures when it does not (AccountGrows).                       *)
(***************************************************************************)
EXTENDS GlobalUsers, FiniteSetTheorems, TLAPS

(* What NeverOvercounts allows on top of the senders in the table. *)
Account == Cardinality(SenderlessPassed) + Cardinality(SenderlessLeft) + failures

(* The events of a batch are those between the job's position and its next. *)
BatchOfLog(j) ==
  ~At(j, "idle") =>
    /\ done[j] <= job[j].upto /\ job[j].upto <= Len(Log[j])
    /\ job[j].batch \subseteq {Log[j][i] : i \in done[j] + 1 .. job[j].upto}

(* The bound of what a job is about to insert. *)
Bound(j) ==
  job[j].users <= Cardinality(Users) + Account + (IF HasOwnerless(j) THEN 1 ELSE 0)

(* A row has its own sender or none. *)
Inv ==
  /\ TypeOK
  /\ NeverOvercounts
  /\ \A p \in Packets : row[p] \in {NoRow, NoSender, Sender[p]}
  /\ \A j \in Jobs : BatchOfLog(j) /\ (At(j, "inserting") => Bound(j))

(* The distinct senders of the table are finitely many. *)
LEMMA UsersFinite == IsFiniteSet(Users) /\ Cardinality(Users) \in Nat
<1>1. Users \subseteq Senders
  BY DEF Users
<1>2. IsFiniteSet(Senders)
  BY UsersOK
<1>3. IsFiniteSet(Users)
  BY <1>1, <1>2, FS_Subset
<1> QED
  BY <1>3, FS_CardinalityType

(* The logs hold finitely many events. *)
LEMMA LogsFinite == IsFiniteSet(LogEvents)
<1> DEFINE of == [j \in Jobs |-> {j} \X DOMAIN Log[j]]
           parts == {{j} \X DOMAIN Log[j] : j \in Jobs}
<1>1. of \in Surjection(Jobs, parts)
  BY DEF Surjection
<1>2. IsFiniteSet(parts)
  BY <1>1, UsersOK, FS_Surjection
<1>3. ASSUME NEW j \in Jobs PROVE IsFiniteSet({j} \X DOMAIN Log[j])
  <2>1. DOMAIN Log[j] = 1 .. Len(Log[j]) /\ Len(Log[j]) \in Nat
    BY UsersOK
  <2>2. IsFiniteSet(DOMAIN Log[j])
    BY <2>1, 1 \in Int, Len(Log[j]) \in Int, FS_Interval
  <2>3. IsFiniteSet({j})
    BY FS_Singleton
  <2> QED
    BY <2>2, <2>3, FS_Product
<1>4. \A T \in parts : IsFiniteSet(T)
  BY <1>3
<1> QED
  BY <1>2, <1>4, FS_UNION DEF LogEvents

AccountFinite ==
  /\ IsFiniteSet(SenderlessPassed) /\ Cardinality(SenderlessPassed) \in Nat
  /\ IsFiniteSet(SenderlessLeft) /\ Cardinality(SenderlessLeft) \in Nat

LEMMA AccountTypes == AccountFinite
<1>1. SenderlessPassed \subseteq LogEvents /\ SenderlessLeft \subseteq Jobs
  BY DEF SenderlessPassed, SenderlessLeft
<1>2. IsFiniteSet(SenderlessPassed) /\ IsFiniteSet(SenderlessLeft)
  BY <1>1, LogsFinite, UsersOK, FS_Subset
<1> QED
  BY <1>2, FS_CardinalityType DEF AccountFinite

(* A transaction finds the senders of its own sends (packet.go:589): at most  *)
(* the empty sender is missing, and only when a record has no sender.         *)
LEMMA NotFoundBound ==
  ASSUME TypeOK, NEW j \in Jobs
  PROVE  /\ Cardinality(NotFound(j)) \in Nat
         /\ Cardinality(NotFound(j)) <= IF HasOwnerless(j) THEN 1 ELSE 0
<1>1. job[j].batch \subseteq Events
  BY DEF TypeOK, JobRecord
<1>2. ASSUME NEW s \in NotFound(j)
      PROVE  s = NoSender /\ HasOwnerless(j)
  <2>1. PICK e \in job[j].batch :
          s = (IF e.kind = "send" THEN Sender[e.pkt] ELSE NoSender)
    BY <1>2 DEF NotFound, BatchSenders
  <2>2. e \in Events /\ e = [pkt |-> e.pkt, kind |-> e.kind] /\ e.pkt \in Packets
    BY <1>1 DEF Events
  <2>3. CASE e.kind = "send"
    <3>1. [pkt |-> e.pkt, kind |-> "send"] \in job[j].batch
      BY <2>2, <2>3
    <3>2. NewRow(j, e.pkt) = Sender[e.pkt]
      BY <3>1 DEF NewRow
    <3>3. e.pkt \in Written(j)
      BY DEF Written
    <3>4. View(j)[e.pkt] = s
      BY <2>1, <2>2, <2>3, <3>2, <3>3 DEF View
    <3> QED
      BY <1>2, <2>2, <3>4 DEF NotFound
  <2>4. CASE e.kind # "send"
    BY <2>1, <2>4 DEF HasOwnerless
  <2> QED
    BY <2>3, <2>4
<1>3. CASE HasOwnerless(j)
  <2>1. NotFound(j) \subseteq {NoSender}
    BY <1>2
  <2>2. IsFiniteSet({NoSender}) /\ Cardinality({NoSender}) = 1
    BY FS_Singleton
  <2> QED
    BY <1>3, <2>1, <2>2, FS_Subset, FS_CardinalityType
<1>4. CASE ~HasOwnerless(j)
  <2>1. NotFound(j) = {}
    BY <1>2, <1>4
  <2> QED
    BY <1>4, <2>1, FS_EmptySet
<1> QED
  BY <1>3, <1>4

LEMMA InitInv == Init => Inv
<1> SUFFICES ASSUME Init PROVE Inv
  OBVIOUS
<1>1. TypeOK
  BY DEF Init, TypeOK, Idle, JobRecord, Stages, Row, NoMetrics
<1>2. \A p \in Packets : row[p] \in {NoRow, NoSender, Sender[p]}
  BY DEF Init
<1>3. \A j \in Jobs : ~At(j, "inserting")
  BY DEF Init, At, Idle
<1>4. NeverOvercounts
  <2>1. users = -1 /\ failures = 0
    BY DEF Init, NoMetrics
  <2> QED
    BY <2>1, UsersFinite, AccountTypes DEF NeverOvercounts, AccountFinite
<1>5. \A j \in Jobs : BatchOfLog(j)
  BY DEF Init, BatchOfLog, At, Idle
<1> QED
  BY <1>1, <1>2, <1>3, <1>4, <1>5 DEF Inv

LEMMA StepType == Inv /\ [Next]_vars => TypeOK'
<1> SUFFICES ASSUME Inv, [Next]_vars PROVE TypeOK'
  OBVIOUS
<1> USE DEF TypeOK
<1>t. TypeOK
  BY DEF Inv
<1>i. Idle \in JobRecord
  BY DEF Idle, JobRecord, Stages, Row
<1>s. ASSUME NEW j \in Jobs, NEW s \in Stages
      PROVE  [job EXCEPT ![j].stage = s] \in [Jobs -> JobRecord]
  BY <1>t DEF JobRecord
<1>1. ASSUME NEW j \in Jobs, Take(j) PROVE TypeOK'
  <2>1. PICK n \in done[j] .. Len(Log[j]) :
          job' = [job EXCEPT ![j] =
            [Idle EXCEPT !.stage = "taken", !.upto = n,
                         !.batch = {e \in {Log[j][i] : i \in done[j] + 1 .. n} : Keeps(j, e)}]]
    BY <1>1 DEF Take
  <2>2. Log[j] \in Seq(Events) /\ done[j] \in Nat /\ n \in Nat /\ Len(Log[j]) \in Nat
    BY <1>t, UsersOK
  <2>3. \A i \in done[j] + 1 .. n : Log[j][i] \in Events
    BY <2>2
  <2>4. {e \in {Log[j][i] : i \in done[j] + 1 .. n} : Keeps(j, e)} \in SUBSET Events
    BY <2>3
  <2> QED
    BY <1>t, <1>i, <1>1, <2>1, <2>2, <2>4 DEF Take, JobRecord, Stages
<1>2. ASSUME NEW j \in Jobs, Begin(j) PROVE TypeOK'
  BY <1>t, <1>2, ZenonT(60) DEF Begin, JobRecord, Stages
<1>3. ASSUME NEW j \in Jobs, Write(j) PROVE TypeOK'
  <2>1. "written" \in Stages
    BY DEF Stages
  <2> QED
    BY <1>t, <1>s, <1>3, <2>1 DEF Write, Step
<1>4. ASSUME NEW j \in Jobs, DuplicateKey(j) \/ Fail(j) PROVE TypeOK'
  BY <1>t, <1>i, <1>4 DEF DuplicateKey, Fail
<1>5. ASSUME NEW j \in Jobs, ReadLast(j) PROVE TypeOK'
  <2>1. users + Cardinality(NotFound(j)) \in Nat
    BY <1>t, <1>5, NotFoundBound DEF ReadLast, NoMetrics
  <2> QED
    BY <1>t, <1>5, <2>1, ZenonT(60) DEF ReadLast, JobRecord, Stages
<1>6. ASSUME NEW j \in Jobs, ReadNone(j) \/ ReadAgain(j) PROVE TypeOK'
  <2>1. {"empty", "counting", "committing"} \subseteq Stages
    BY DEF Stages
  <2> QED
    BY <1>t, <1>s, <1>6, <2>1 DEF ReadNone, ReadAgain, Step
<1>7. ASSUME NEW j \in Jobs, CountSenders(j) PROVE TypeOK'
  BY <1>t, <1>7, UsersFinite, ZenonT(60) DEF CountSenders, JobRecord, Stages
<1>8. ASSUME NEW j \in Jobs, Insert(j) PROVE TypeOK'
  <2>1. "committing" \in Stages /\ job[j].users \in Nat
    BY <1>t DEF Stages, JobRecord
  <2> QED
    BY <1>t, <1>s, <1>8, <2>1 DEF Insert, Step
<1>9. ASSUME NEW j \in Jobs, Commit(j) PROVE TypeOK'
  <2>1. \A p \in Packets : NewRow(j, p) \in Row
    BY <1>t, UsersOK DEF NewRow, Row
  <2>2. row' \in [Packets -> Row]
    BY <1>t, <1>9, <2>1 DEF Commit
  <2>3. job[j].upto \in Nat
    BY <1>t DEF JobRecord
  <2> QED
    BY <1>t, <1>i, <1>9, <2>2, <2>3 DEF Commit
<1>10. CASE UNCHANGED vars
  BY <1>t, <1>10 DEF vars
<1> QED
  BY <1>1, <1>2, <1>3, <1>4, <1>5, <1>6, <1>7, <1>8, <1>9, <1>10 DEF Next, Work

(* A committed row keeps its sender: the table never loses a user. *)
LEMMA UsersGrow ==
  Inv /\ [Next]_vars =>
    /\ \A p \in Packets : row'[p] \in {NoRow, NoSender, Sender[p]}
    /\ Cardinality(Users) <= Cardinality(Users')
    /\ Cardinality(Users') \in Nat
<1> SUFFICES ASSUME Inv, [Next]_vars
             PROVE  /\ \A p \in Packets : row'[p] \in {NoRow, NoSender, Sender[p]}
                    /\ Users \subseteq Users'
  <2>1. Users' \subseteq Senders
    BY DEF Users
  <2>2. IsFiniteSet(Users')
    BY <2>1, UsersOK, FS_Subset
  <2> QED
    BY <2>2, FS_Subset, FS_CardinalityType
<1>1. \A p \in Packets : row[p] \in {NoRow, NoSender, Sender[p]}
  BY DEF Inv
<1>2. ASSUME NEW j \in Jobs, Commit(j)
      PROVE  \A p \in Packets :
               /\ row'[p] \in {NoRow, NoSender, Sender[p]}
               /\ row[p] \in Senders => row'[p] = row[p]
  BY <1>1, <1>2, UsersOK DEF Commit, NewRow
<1>3. ASSUME NEW j \in Jobs, Commit(j) PROVE Users \subseteq Users'
  BY <1>2, <1>3 DEF Users
<1>4. ASSUME row' = row PROVE Users \subseteq Users'
  BY <1>4 DEF Users
<1>5. row' = row \/ \E j \in Jobs : Commit(j)
  BY DEF Next, Work, Take, Begin, Write, DuplicateKey, ReadLast, ReadNone,
         ReadAgain, CountSenders, Insert, Fail, vars
<1> QED
  BY <1>1, <1>2, <1>3, <1>4, <1>5

(* A batch keeps to the events the job has not passed. *)
LEMMA BatchStays == Inv /\ [Next]_vars => \A j \in Jobs : BatchOfLog(j)'
<1> SUFFICES ASSUME Inv, [Next]_vars, NEW k \in Jobs PROVE BatchOfLog(k)'
  OBVIOUS
<1>1. BatchOfLog(k) /\ job \in [Jobs -> JobRecord] /\ done \in [Jobs -> Nat]
  BY DEF Inv, TypeOK
<1>2. ASSUME job'[k].stage = "idle" PROVE BatchOfLog(k)'
  BY <1>2 DEF BatchOfLog, At
<1>3. ASSUME ~At(k, "idle"), done'[k] = done[k],
             job'[k].upto = job[k].upto, job'[k].batch = job[k].batch
      PROVE  BatchOfLog(k)'
  BY <1>1, <1>3 DEF BatchOfLog
<1>4. ASSUME done'[k] = done[k], job'[k] = job[k] PROVE BatchOfLog(k)'
  BY <1>1, <1>4 DEF BatchOfLog, At
<1>5. ASSUME NEW j \in Jobs, Take(j) PROVE BatchOfLog(k)'
  <2>1. PICK n \in done[j] .. Len(Log[j]) :
          job' = [job EXCEPT ![j] =
            [Idle EXCEPT !.stage = "taken", !.upto = n,
                         !.batch = {e \in {Log[j][i] : i \in done[j] + 1 .. n} : Keeps(j, e)}]]
    BY <1>5 DEF Take
  <2>2. done' = done
    BY <1>5 DEF Take
  <2>3. CASE k # j
    BY <1>1, <1>4, <2>1, <2>2, <2>3
  <2>4. CASE k = j
    <3>1. /\ job'[k].upto = n
          /\ job'[k].batch = {e \in {Log[k][i] : i \in done[k] + 1 .. n} : Keeps(k, e)}
      BY <1>1, <2>1, <2>4 DEF Idle
    <3>2. done[k] <= n /\ n <= Len(Log[k])
      BY <1>1, <2>4, UsersOK
    <3> QED
      BY <2>2, <3>1, <3>2 DEF BatchOfLog
  <2> QED
    BY <2>3, <2>4
<1>6. ASSUME NEW j \in Jobs,
             \/ Begin(j) \/ Write(j) \/ ReadLast(j) \/ ReadNone(j)
             \/ ReadAgain(j) \/ CountSenders(j) \/ Insert(j)
      PROVE  BatchOfLog(k)'
  <2>1. done' = done /\ ~At(j, "idle") /\ \A i \in Jobs \ {j} : job'[i] = job[i]
    BY <1>1, <1>6 DEF Begin, Write, ReadLast, ReadNone, ReadAgain, CountSenders, Insert, Step, At
  <2>2. job'[j].upto = job[j].upto /\ job'[j].batch = job[j].batch
    BY <1>1, <1>6 DEF Begin, Write, ReadLast, ReadNone, ReadAgain, CountSenders, Insert, Step,
                      JobRecord
  <2> QED
    BY <1>3, <1>4, <2>1, <2>2
<1>7. ASSUME NEW j \in Jobs, DuplicateKey(j) \/ Commit(j) \/ Fail(j) PROVE BatchOfLog(k)'
  <2>1. /\ job'[j].stage = "idle"
        /\ \A i \in Jobs \ {j} : job'[i] = job[i] /\ done'[i] = done[i]
    BY <1>1, <1>7 DEF DuplicateKey, Commit, Fail, Idle
  <2> QED
    BY <1>2, <1>4, <2>1
<1>8. CASE UNCHANGED vars
  BY <1>4, <1>8 DEF vars
<1> QED
  BY <1>5, <1>6, <1>7, <1>8 DEF Next, Work

(* A transaction with a record that has no sender passes an event without one. *)
LEMMA CommitPasses ==
  ASSUME Inv, NEW j \in Jobs, Commit(j)
  PROVE  /\ SenderlessPassed \subseteq SenderlessPassed'
         /\ HasOwnerless(j) => SenderlessPassed' # SenderlessPassed
<1>1. /\ done \in [Jobs -> Nat] /\ BatchOfLog(j) /\ ~At(j, "idle")
      /\ done' = [done EXCEPT ![j] = job[j].upto] /\ job[j].upto \in Nat
  BY DEF Inv, TypeOK, Commit, At, JobRecord
<1>2. \A k \in Jobs : done[k] <= done'[k] /\ done[k] \in Nat /\ done'[k] \in Nat
  BY <1>1 DEF BatchOfLog
<1>3. \A x \in LogEvents : x[1] \in Jobs /\ x[2] \in Nat
  <2> SUFFICES ASSUME NEW x \in LogEvents PROVE x[1] \in Jobs /\ x[2] \in Nat
    OBVIOUS
  <2>1. PICK k \in Jobs : x \in {k} \X DOMAIN Log[k]
    BY DEF LogEvents
  <2>2. DOMAIN Log[k] \subseteq Nat
    BY UsersOK
  <2> QED
    BY <2>1, <2>2
<1>4. SenderlessPassed \subseteq SenderlessPassed'
  BY <1>2, <1>3 DEF SenderlessPassed
<1>5. ASSUME HasOwnerless(j) PROVE SenderlessPassed' # SenderlessPassed
  <2>1. PICK e \in job[j].batch : e.kind # "send"
    BY <1>5 DEF HasOwnerless
  <2>2. PICK i \in done[j] + 1 .. job[j].upto : e = Log[j][i]
    BY <1>1 DEF BatchOfLog
  <2>3. i \in DOMAIN Log[j]
    BY <1>1, UsersOK DEF BatchOfLog
  <2>4. <<j, i>> \in LogEvents
    BY <2>3 DEF LogEvents
  <2>5. <<j, i>>[1] = j /\ <<j, i>>[2] = i
    OBVIOUS
  <2>6. done[j] < i /\ i <= done'[j]
    BY <1>1
  <2>7. <<j, i>> \notin SenderlessPassed
    BY <1>2, <2>5, <2>6 DEF SenderlessPassed
  <2>8. <<j, i>> \in SenderlessPassed'
    BY <2>1, <2>2, <2>4, <2>5, <2>6 DEF SenderlessPassed
  <2> QED
    BY <2>7, <2>8
<1> QED
  BY <1>4, <1>5

(* What is allowed never shrinks, and an insert for a record without a sender *)
(* makes it grow.                                                            *)
LEMMA AccountGrows ==
  ASSUME Inv, [Next]_vars
  PROVE  /\ Account \in Nat /\ Account' \in Nat /\ Account <= Account'
         /\ \A j \in Jobs : Insert(j) /\ HasOwnerless(j) => Account + 1 <= Account'
<1> DEFINE passed == Cardinality(SenderlessPassed)
           left == Cardinality(SenderlessLeft)
<1>1. /\ job \in [Jobs -> JobRecord] /\ failures \in Nat
      /\ passed \in Nat /\ left \in Nat
      /\ IsFiniteSet(SenderlessPassed) /\ IsFiniteSet(SenderlessLeft)
  BY AccountTypes DEF Inv, TypeOK, AccountFinite
<1>2. /\ passed' \in Nat /\ left' \in Nat
      /\ IsFiniteSet(SenderlessPassed') /\ IsFiniteSet(SenderlessLeft')
  <2>1. AccountFinite'
    BY AccountTypes, PTL
  <2> QED
    BY <2>1 DEF AccountFinite
<1>3. ASSUME done' = done PROVE passed' = passed
  BY <1>3 DEF SenderlessPassed
<1>4. ASSUME NEW j \in Jobs, \A k \in Jobs \ {j} : job'[k] = job[k]
      PROVE  SenderlessLeft \ {j} = SenderlessLeft' \ {j}
  BY <1>4 DEF SenderlessLeft, At, HasOwnerless
<1>5. ASSUME NEW j \in Jobs, SenderlessLeft \ {j} = SenderlessLeft' \ {j}
      PROVE  /\ left - 1 <= left'
             /\ j \notin SenderlessLeft => left <= left'
             /\ j \notin SenderlessLeft /\ j \in SenderlessLeft' => left + 1 <= left'
  <2>1. Cardinality(SenderlessLeft \ {j}) = IF j \in SenderlessLeft THEN left - 1 ELSE left
    BY <1>1, FS_RemoveElement
  <2>2. Cardinality(SenderlessLeft' \ {j}) = IF j \in SenderlessLeft' THEN left' - 1 ELSE left'
    BY <1>2, FS_RemoveElement
  <2> HIDE DEF left
  <2> QED
    BY <1>1, <1>2, <1>5, <2>1, <2>2
<1> DEFINE Grows == Account \in Nat /\ Account' \in Nat /\ Account <= Account'
<1>6. ASSUME NEW j \in Jobs,
             \/ Take(j) \/ Begin(j) \/ Write(j) \/ DuplicateKey(j) \/ ReadLast(j)
             \/ ReadNone(j) \/ ReadAgain(j) \/ CountSenders(j) \/ Insert(j)
      PROVE  Grows /\ (Insert(j) /\ HasOwnerless(j) => Account + 1 <= Account')
  <2>1. /\ done' = done /\ failures' = failures /\ ~At(j, "committing")
        /\ \A k \in Jobs \ {j} : job'[k] = job[k]
    BY <1>1, <1>6 DEF Take, Begin, Write, DuplicateKey, ReadLast, ReadNone, ReadAgain,
                      CountSenders, Insert, Step, At
  <2>2. j \notin SenderlessLeft
    BY <2>1 DEF SenderlessLeft
  <2>3. Insert(j) /\ HasOwnerless(j) => j \in SenderlessLeft'
    <3> SUFFICES ASSUME Insert(j), HasOwnerless(j) PROVE j \in SenderlessLeft'
      OBVIOUS
    <3>1. job'[j].stage = "committing" /\ job'[j].batch = job[j].batch
      BY <1>1 DEF Insert, Step, JobRecord
    <3> QED
      BY <3>1 DEF SenderlessLeft, At, HasOwnerless
  <2>4. left <= left' /\ (Insert(j) /\ HasOwnerless(j) => left + 1 <= left')
    BY <1>4, <1>5, <2>1, <2>2, <2>3
  <2>5. passed' = passed
    BY <1>3, <2>1
  <2> QED
    BY <1>1, <1>2, <2>1, <2>4, <2>5 DEF Account
<1>7. ASSUME NEW j \in Jobs, Commit(j) PROVE Grows
  <2>1. failures' = failures /\ \A k \in Jobs \ {j} : job'[k] = job[k]
    BY <1>1, <1>7 DEF Commit
  <2>2. left - 1 <= left' /\ (j \notin SenderlessLeft => left <= left')
    BY <1>4, <1>5, <2>1
  <2>3. passed <= passed' /\ (HasOwnerless(j) => passed # passed')
    BY <1>2, <1>7, CommitPasses, FS_Subset
  <2>4. j \in SenderlessLeft => HasOwnerless(j)
    BY DEF SenderlessLeft
  <2>5. passed + left <= passed' + left'
    <3>1. CASE j \in SenderlessLeft
      <4>1. passed + 1 <= passed'
        BY <1>1, <1>2, <2>3, <2>4, <3>1
      <4> QED
        BY <1>1, <1>2, <2>2, <4>1
    <3>2. CASE j \notin SenderlessLeft
      BY <1>1, <1>2, <2>2, <2>3, <3>2
    <3> QED
      BY <3>1, <3>2
  <2> QED
    BY <1>1, <1>2, <2>1, <2>5 DEF Account
<1>8. ASSUME NEW j \in Jobs, Fail(j) PROVE Grows
  <2>1. failures' = failures + 1 /\ done' = done /\ \A k \in Jobs \ {j} : job'[k] = job[k]
    BY <1>1, <1>8 DEF Fail
  <2>2. left - 1 <= left' /\ passed' = passed
    BY <1>3, <1>4, <1>5, <2>1
  <2> QED
    BY <1>1, <1>2, <2>1, <2>2 DEF Account
<1>9. ASSUME UNCHANGED vars PROVE Grows
  <2>1. passed' = passed /\ left' = left /\ failures' = failures
    BY <1>9 DEF vars, SenderlessPassed, SenderlessLeft, At, HasOwnerless
  <2> QED
    BY <1>1, <2>1 DEF Account
<1>10. Grows
  BY <1>6, <1>7, <1>8, <1>9 DEF Next, Work
<1> QED
  BY <1>6, <1>10

LEMMA StepBound ==
  Inv /\ [Next]_vars =>
    NeverOvercounts' /\ \A j \in Jobs : At(j, "inserting")' => Bound(j)'
<1> DEFINE Bounded == NeverOvercounts /\ \A j \in Jobs : At(j, "inserting") => Bound(j)
<1> SUFFICES ASSUME Inv, [Next]_vars PROVE Bounded'
  OBVIOUS
<1>t. TypeOK /\ Bounded
  BY DEF Inv
<1>u. /\ Cardinality(Users) \in Nat /\ Cardinality(Users') \in Nat
      /\ Cardinality(Users) <= Cardinality(Users')
      /\ Account \in Nat /\ Account' \in Nat /\ Account <= Account'
  BY UsersFinite, UsersGrow, AccountGrows
<1>c. failures \in Nat /\ failures' \in Nat
  BY <1>t, StepType DEF TypeOK
<1>d. /\ Cardinality(SenderlessPassed) \in Nat /\ Cardinality(SenderlessLeft) \in Nat
      /\ Cardinality(SenderlessPassed') \in Nat /\ Cardinality(SenderlessLeft') \in Nat
  <2>1. AccountFinite'
    BY AccountTypes, PTL
  <2> QED
    BY <2>1, AccountTypes DEF AccountFinite
<1>v. users \in Nat \cup {-1} /\ \A j \in Jobs : job[j].users \in Nat
  BY <1>t DEF TypeOK, JobRecord, NoMetrics
<1>a. users <= Cardinality(Users) + Account
  BY <1>c, <1>d, <1>t, <1>u, <1>v DEF NeverOvercounts, Account
<1>b. ASSUME users' \in Int, users' <= Cardinality(Users') + Account' PROVE NeverOvercounts'
  BY <1>b, <1>c, <1>d, <1>u DEF NeverOvercounts, Account
(* A job that does not step keeps its bound, as no bound shrinks. *)
<1>k. ASSUME NEW k \in Jobs, job'[k] = job[k], At(k, "inserting")'
      PROVE  Bound(k)'
  <2>1. At(k, "inserting") /\ (HasOwnerless(k) => HasOwnerless(k)')
    BY <1>k DEF At, HasOwnerless
  <2>2. Bound(k)
    BY <1>t, <2>1
  <2> QED
    BY <1>u, <1>v, <1>k, <2>1, <2>2 DEF Bound
<1>n. ASSUME users' = users PROVE NeverOvercounts'
  BY <1>a, <1>b, <1>n, <1>u, <1>v
<1>1. ASSUME NEW j \in Jobs,
             \/ Take(j) \/ Begin(j) \/ Write(j) \/ DuplicateKey(j)
             \/ ReadNone(j) \/ ReadAgain(j) \/ Commit(j) \/ Fail(j)
      PROVE  Bounded'
  <2>t. job \in [Jobs -> JobRecord]
    BY <1>t DEF TypeOK
  <2>1. /\ users' = users
        /\ \A k \in Jobs \ {j} : job'[k] = job[k]
        /\ job'[j].stage # "inserting"
    <3>1. CASE Take(j)
      BY <2>t, <3>1 DEF Take, Idle
    <3>2. CASE Begin(j) \/ Write(j) \/ ReadNone(j) \/ ReadAgain(j)
      BY <2>t, <3>2 DEF Begin, Write, ReadNone, ReadAgain, Step, JobRecord
    <3>3. CASE DuplicateKey(j) \/ Commit(j) \/ Fail(j)
      BY <2>t, <3>3 DEF DuplicateKey, Commit, Fail, Idle
    <3> QED
      BY <1>1, <3>1, <3>2, <3>3
  <2> QED
    BY <1>k, <1>n, <1>v, <2>1 DEF At
<1>2. ASSUME NEW j \in Jobs, ReadLast(j) PROVE Bounded'
  <2>1. /\ users' = users
        /\ \A k \in Jobs \ {j} : job'[k] = job[k]
        /\ job'[j].users = users + Cardinality(NotFound(j))
        /\ job'[j].batch = job[j].batch
    BY <1>t, <1>2 DEF ReadLast, TypeOK
  <2>2. HasOwnerless(j) => HasOwnerless(j)'
    BY <2>1 DEF HasOwnerless
  <2>3. Bound(j)'
    BY <1>a, <1>t, <1>u, <1>v, <2>1, <2>2, NotFoundBound DEF Bound
  <2> QED
    BY <1>k, <1>n, <1>v, <2>1, <2>3
<1>3. ASSUME NEW j \in Jobs, CountSenders(j) PROVE Bounded'
  <2>1. /\ users' = users
        /\ \A k \in Jobs \ {j} : job'[k] = job[k]
        /\ job'[j].users = Cardinality(Users)
    BY <1>t, <1>3 DEF CountSenders, TypeOK
  <2>2. Bound(j)'
    BY <1>u, <1>v, <2>1 DEF Bound
  <2> QED
    BY <1>k, <1>n, <1>v, <2>1, <2>2
<1>4. ASSUME NEW j \in Jobs, Insert(j) PROVE Bounded'
  <2>1. /\ At(j, "inserting") /\ users' = job[j].users
        /\ \A k \in Jobs \ {j} : job'[k] = job[k]
        /\ ~At(j, "inserting")'
    BY <1>t, <1>4 DEF Insert, Step, At, TypeOK
  <2>2. HasOwnerless(j) => Account + 1 <= Account'
    BY <1>4, AccountGrows
  <2>3. users' <= Cardinality(Users') + Account'
    BY <1>t, <1>u, <1>v, <2>1, <2>2 DEF Bound
  <2>4. NeverOvercounts'
    BY <1>b, <1>v, <2>1, <2>3
  <2> QED
    BY <1>k, <1>v, <2>1, <2>4
<1>5. CASE UNCHANGED vars
  BY <1>k, <1>n, <1>v, <1>5 DEF vars
<1> QED
  BY <1>1, <1>2, <1>3, <1>4, <1>5 DEF Next, Work

LEMMA NextInv == Inv /\ [Next]_vars => Inv'
<1> SUFFICES ASSUME Inv, [Next]_vars PROVE Inv'
  OBVIOUS
<1>1. TypeOK'
  BY StepType
<1>2. \A p \in Packets : row'[p] \in {NoRow, NoSender, Sender[p]}
  BY UsersGrow
<1> QED
  BY <1>1, <1>2, StepBound, BatchStays DEF Inv

(* The variables and the jobs' records have their types. *)
THEOREM TypeCorrect == Spec => []TypeOK
<1>1. Inv => TypeOK
  BY DEF Inv
<1> QED
  BY InitInv, NextInv, <1>1, PTL DEF Spec

(* The number of users exceeds the distinct senders of the committed table by *)
(* at most one for every acknowledgement and refund that is stored or about to *)
(* be, and one for every outside fault, whatever is retried or read and added  *)
(* to at the same time (packet.go:583-603, insertGlobalMetrics, :826).        *)
THEOREM UsersNeverOvercounted == Spec => []NeverOvercounts
<1>1. Inv => NeverOvercounts
  BY DEF Inv
<1> QED
  BY InitInv, NextInv, <1>1, PTL DEF Spec

=============================================================================
