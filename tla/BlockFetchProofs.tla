-------------------------- MODULE BlockFetchProofs --------------------------
(*****************************************************************************)
(* Proofs about a call of GetPackets, for every range of blocks and whatever *)
(* they hold.                                                                *)
(*                                                                           *)
(* It reports an error exactly when the goroutine of some block failed       *)
(* (ErrorIffFailed).  The property speaks of the moment after wg.Wait only.  *)
(* The invariant says how the failure gets there: a goroutine that has failed *)
(* keeps its error until the type word of anyErr is written, that word is    *)
(* never set back, and the WaitGroup counts the goroutines that have not left. *)
(*                                                                           *)
(* Without an error it returns all blocks (AllBlocksOrError).  GroupsInv says *)
(* what a goroutine holds on the way: the records of the queries that are over *)
(* (Over, Got), each once, and, when it has left without an error, all that is *)
(* wanted of its block.                                                      *)
(*****************************************************************************)
EXTENDS BlockFetch, InductionLemmas

Running == {h \in Blocks : worker[h].stage # "done"}

Errors == {"rpc", "decode"}
Words == Errors \cup {"nil"}

(* A function with the fields of Start; what its group holds is left open.   *)
IsWorker(w) == w = [f \in DOMAIN Start |-> w[f]]

Shape ==
  /\ worker = [h \in Blocks |-> worker[h]]
  /\ \A h \in Blocks : IsWorker(worker[h])
  /\ anyErr \in [type : Words, data : Words]

(* A goroutine that has failed carries an error until both words are written. *)
FailedCarryError ==
  \A h \in Blocks :
    worker[h].stage \in {"error", "type", "data"} =>
      h \in failed /\ worker[h].err \in Errors

(* The type word tells of a failure, or is still to be written. *)
FailureUnderway ==
  caller = "waiting" =>
    /\ anyErr.type # "nil" => failed # {}
    /\ failed # {} =>
         \/ anyErr.type # "nil"
         \/ \E h \in Blocks : worker[h].stage \in {"error", "type"}

(* The WaitGroup counts, while somebody waits, those who have not left. *)
WaitGroup ==
  IF caller = "waiting" THEN pending = Cardinality(Running) ELSE Running = {}

IndInv ==
  /\ Shape
  /\ FailedCarryError
  /\ FailureUnderway
  /\ WaitGroup
  /\ ErrorIffFailed

-----------------------------------------------------------------------------
LEMMA StartIsWorker == IsWorker(Start) /\ IsWorker(Finished)
  BY DEF IsWorker, Start, Finished

LEMMA RunningFinite == IsFiniteSet(Running)
  BY BlocksOK, FS_Subset DEF Running

(* Changing fields of a worker makes a worker. *)
LEMMA FieldsStay ==
  ASSUME NEW w, IsWorker(w), NEW stage
  PROVE  /\ IsWorker([w EXCEPT !.stage = stage])
         /\ [w EXCEPT !.stage = stage].stage = stage
         /\ [w EXCEPT !.stage = stage].err = w.err
  BY DEF IsWorker, Start

(* The goroutine of h goes on as w. *)
LEMMA MovesTo ==
  ASSUME Shape, NEW h \in Blocks, NEW w, IsWorker(w), Moves(h, w)
  PROVE  /\ worker' = [g \in Blocks |-> worker'[g]]
         /\ \A g \in Blocks : IsWorker(worker'[g])
         /\ worker'[h] = w
         /\ \A g \in Blocks \ {h} : worker'[g] = worker[g]
<1>1. worker' = [worker EXCEPT ![h] = w]  BY DEF Moves
<1>2. DOMAIN worker = Blocks  BY DEF Shape
<1> QED BY <1>1, <1>2 DEF Shape

(***************************************************************************)
(* A step of a goroutine that neither fails nor leaves (teleport.go:153-162). *)
(***************************************************************************)
LEMMA QuietStep ==
  ASSUME IndInv, NEW h \in Blocks, NEW w, IsWorker(w), Moves(h, w),
         worker[h].stage \notin {"done", "error", "type", "data"},
         w.stage \notin {"done", "error", "type", "data"},
         UNCHANGED <<anyErr, pending, caller, failed>>
  PROVE  IndInv'
<1>1. Shape  BY DEF IndInv
<1>2. /\ worker' = [g \in Blocks |-> worker'[g]]
      /\ \A g \in Blocks : IsWorker(worker'[g])
      /\ worker'[h] = w
      /\ \A g \in Blocks \ {h} : worker'[g] = worker[g]
  BY <1>1, MovesTo
<1>3. Running' = Running  BY <1>2 DEF Running
<1>4. Shape'  BY <1>1, <1>2 DEF Shape
<1>5. FailedCarryError'  BY <1>2 DEF IndInv, FailedCarryError
<1>6. FailureUnderway'
  <2>1. \A g \in Blocks : worker[g].stage \in {"error", "type"} =>
                          worker'[g].stage \in {"error", "type"}
    BY <1>2
  <2> QED BY <2>1 DEF IndInv, FailureUnderway
<1>7. WaitGroup'  BY <1>3 DEF IndInv, WaitGroup
<1>8. ErrorIffFailed'  BY DEF IndInv, ErrorIffFailed
<1> QED BY <1>4, <1>5, <1>6, <1>7, <1>8 DEF IndInv

(* Somebody waits as long as a goroutine runs. *)
LEMMA CallerWaits ==
  ASSUME IndInv, NEW h \in Blocks, worker[h].stage # "done"
  PROVE  caller = "waiting"
  BY DEF IndInv, WaitGroup, Running

(* The goroutine of h fails (teleport.go:156). *)
LEMMA FailStep ==
  ASSUME IndInv, NEW h \in Blocks, NEW err \in Errors, FailsWith(h, err),
         worker[h].stage \notin {"done", "error", "type", "data"}
  PROVE  IndInv'
<1>1. Shape  BY DEF IndInv
<1> DEFINE w == [worker[h] EXCEPT !.stage = "error", !.err = err]
<1>2. IsWorker(w) /\ w.stage = "error" /\ w.err = err
  <2>1. IsWorker(worker[h])  BY <1>1 DEF Shape
  <2> QED BY <2>1 DEF IsWorker, Start
<1>3. Moves(h, w) /\ failed' = failed \cup {h} /\ UNCHANGED <<anyErr, pending, caller>>
  BY DEF FailsWith
<1> HIDE DEF w
<1>4. /\ worker' = [g \in Blocks |-> worker'[g]]
      /\ \A g \in Blocks : IsWorker(worker'[g])
      /\ worker'[h] = w
      /\ \A g \in Blocks \ {h} : worker'[g] = worker[g]
  BY <1>1, <1>2, <1>3, MovesTo
<1>5. Running' = Running  BY <1>2, <1>4 DEF Running
<1>6. Shape'  BY <1>1, <1>3, <1>4 DEF Shape
<1>7. FailedCarryError'  BY <1>2, <1>3, <1>4 DEF IndInv, FailedCarryError
<1>8. FailureUnderway'
  BY <1>2, <1>3, <1>4 DEF FailureUnderway
<1>9. WaitGroup'  BY <1>3, <1>5 DEF IndInv, WaitGroup
<1>10. caller' = "waiting"  BY <1>3, CallerWaits
<1>11. ErrorIffFailed'  BY <1>10 DEF ErrorIffFailed
<1> QED BY <1>6, <1>7, <1>8, <1>9, <1>11 DEF IndInv

(* A word of anyErr is written; the WaitGroup still waits for h (line 157). *)
LEMMA WriteStep ==
  ASSUME IndInv, NEW h \in Blocks, NEW word \in {"type", "data"}, NEW stage,
         worker[h].stage \in {"error", "type", "data"},
         WriteWord(h, word, stage),
         \/ worker[h].stage = "error" /\ word = "type" /\ stage = "data"
         \/ worker[h].stage = "error" /\ word = "data" /\ stage = "type"
         \/ worker[h].stage = "data" /\ word = "data" /\ stage = "leaving"
         \/ worker[h].stage = "type" /\ word = "type" /\ stage = "leaving"
  PROVE  IndInv'
<1>1. Shape  BY DEF IndInv
<1> DEFINE w == [worker[h] EXCEPT !.stage = stage]
<1>2. IsWorker(w) /\ w.stage = stage /\ w.err = worker[h].err
  <2>1. IsWorker(worker[h])  BY <1>1 DEF Shape
  <2> QED BY <2>1 DEF IsWorker, Start
<1>3. /\ Moves(h, w)
      /\ anyErr' = [anyErr EXCEPT ![word] = worker[h].err]
      /\ UNCHANGED <<pending, caller, failed>>
  BY DEF WriteWord
<1> HIDE DEF w
<1>4. /\ worker' = [g \in Blocks |-> worker'[g]]
      /\ \A g \in Blocks : IsWorker(worker'[g])
      /\ worker'[h] = w
      /\ \A g \in Blocks \ {h} : worker'[g] = worker[g]
  BY <1>1, <1>2, <1>3, MovesTo
<1>5. h \in failed /\ worker[h].err \in Errors
  BY DEF IndInv, FailedCarryError
<1>6. /\ anyErr' \in [type : Words, data : Words]
      /\ word = "type" => anyErr'.type = worker[h].err
      /\ word = "data" => anyErr'.type = anyErr.type
  BY <1>1, <1>3, <1>5 DEF Shape, Words
<1>7. Running' = Running  BY <1>2, <1>4 DEF Running
<1>8. Shape'  BY <1>4, <1>6 DEF Shape
<1>9. FailedCarryError'
  BY <1>2, <1>3, <1>4, <1>5 DEF IndInv, FailedCarryError
<1>10. FailureUnderway'
  <2>1. CASE word = "type"
    BY <2>1, <1>3, <1>5, <1>6 DEF FailureUnderway, Errors
  <2>2. CASE word = "data" /\ stage = "type"
    BY <2>2, <1>2, <1>3, <1>4, <1>5 DEF FailureUnderway
  <2>3. CASE word = "data" /\ worker[h].stage = "data"
    <3>1. \A g \in Blocks : worker[g].stage \in {"error", "type"} =>
                            worker'[g].stage \in {"error", "type"}
      BY <2>3, <1>4
    <3> QED BY <2>3, <3>1, <1>3, <1>5, <1>6 DEF IndInv, FailureUnderway
  <2> QED BY <2>1, <2>2, <2>3
<1>11. WaitGroup'  BY <1>3, <1>7 DEF IndInv, WaitGroup
<1>12. caller' = "waiting"  BY <1>3, CallerWaits
<1>13. ErrorIffFailed'  BY <1>12 DEF ErrorIffFailed
<1> QED BY <1>8, <1>9, <1>10, <1>11, <1>13 DEF IndInv

(* wg.Done: one goroutine less (line 153). *)
LEMMA LeaveStep ==
  ASSUME IndInv, NEW h \in Blocks, Leave(h)
  PROVE  IndInv'
<1>1. Shape  BY DEF IndInv
<1>2. /\ Moves(h, Finished) /\ worker[h].stage = "leaving"
      /\ pending' = pending - 1
      /\ UNCHANGED <<anyErr, caller, failed>>
  BY DEF Leave, At
<1>3. /\ worker' = [g \in Blocks |-> worker'[g]]
      /\ \A g \in Blocks : IsWorker(worker'[g])
      /\ worker'[h] = Finished
      /\ \A g \in Blocks \ {h} : worker'[g] = worker[g]
  BY <1>1, <1>2, MovesTo, StartIsWorker
<1>4. worker'[h].stage = "done"  BY <1>3 DEF Finished, Start
<1>5. Running' = Running \ {h} /\ h \in Running
  BY <1>2, <1>3, <1>4 DEF Running
<1>6. Cardinality(Running') = Cardinality(Running) - 1
  BY <1>5, RunningFinite, FS_RemoveElement
<1>7. caller = "waiting"  BY <1>2, CallerWaits
<1>8. Shape'  BY <1>1, <1>2, <1>3 DEF Shape
<1>9. FailedCarryError'  BY <1>2, <1>3, <1>4 DEF IndInv, FailedCarryError
<1>10. FailureUnderway'
  <2>1. \A g \in Blocks : worker[g].stage \in {"error", "type"} =>
                          worker'[g].stage \in {"error", "type"}
    BY <1>2, <1>3
  <2> QED BY <2>1, <1>2 DEF IndInv, FailureUnderway
<1>11. WaitGroup'  BY <1>2, <1>6, <1>7 DEF IndInv, WaitGroup
<1>12. ErrorIffFailed'  BY <1>2, <1>7 DEF ErrorIffFailed
<1> QED BY <1>8, <1>9, <1>10, <1>11, <1>12 DEF IndInv

(* The process dies and takes its goroutines with it. *)
LEMMA DiesStep == ASSUME IndInv, Dies PROVE IndInv'
<1>1. /\ worker' = [h \in Blocks |-> Finished] /\ caller' = "dead"
      /\ UNCHANGED anyErr
  BY DEF Dies
<1>2. \A h \in Blocks : worker'[h] = Finished /\ worker'[h].stage = "done"
  BY <1>1 DEF Finished, Start
<1>3. Running' = {}  BY <1>2 DEF Running
<1> QED BY <1>1, <1>2, <1>3, StartIsWorker
     DEF IndInv, Shape, FailedCarryError, FailureUnderway, WaitGroup, ErrorIffFailed

LEMMA InitInv == Init => IndInv
<1> SUFFICES ASSUME Init PROVE IndInv
  OBVIOUS
<1>1. /\ worker = [h \in Blocks |-> Finished] /\ caller = "idle"
      /\ anyErr = NoError
  BY DEF Init
<1>2. \A h \in Blocks : worker[h] = Finished /\ worker[h].stage = "done"
  BY <1>1 DEF Finished, Start
<1>3. Running = {}  BY <1>2 DEF Running
<1> QED BY <1>1, <1>2, <1>3, StartIsWorker
     DEF IndInv, Shape, FailedCarryError, FailureUnderway, WaitGroup, ErrorIffFailed,
         NoError, Words

LEMMA CallStep == ASSUME IndInv, Call PROVE IndInv'
<1>1. /\ worker' = [h \in Blocks |-> Start] /\ caller' = "waiting"
      /\ anyErr' = NoError /\ failed' = {} /\ pending' = Cardinality(Blocks)
  BY DEF Call
<1>2. \A h \in Blocks : worker'[h] = Start /\ worker'[h].stage = "block"
  BY <1>1 DEF Start
<1>3. Running' = Blocks  BY <1>2 DEF Running
<1> QED BY <1>1, <1>2, <1>3, StartIsWorker
     DEF IndInv, Shape, FailedCarryError, FailureUnderway, WaitGroup,
         ErrorIffFailed, NoError, Words

(***************************************************************************)
(* wg.Wait returns when all goroutines have left: nothing is underway, and    *)
(* the type word alone tells whether one of them failed (line 166).           *)
(***************************************************************************)
LEMMA ReturnStep == ASSUME IndInv, Return PROVE IndInv'
<1>1. /\ caller = "waiting" /\ pending = 0
      /\ caller' = IF anyErr.type = "nil" THEN "groups" ELSE "error"
      /\ UNCHANGED <<worker, anyErr, failed>>
  BY DEF Return
<1>2. Running = {}
  BY <1>1, RunningFinite, FS_EmptySet DEF IndInv, WaitGroup
<1>3. \A h \in Blocks : worker[h].stage = "done"  BY <1>2 DEF Running
<1>4. failed # {} <=> anyErr.type # "nil"
  BY <1>1, <1>3 DEF IndInv, FailureUnderway
<1>5. ErrorIffFailed'  BY <1>1, <1>4 DEF ErrorIffFailed
<1>6. Running' = {}  BY <1>1, <1>2 DEF Running
<1> QED BY <1>1, <1>5, <1>6
     DEF IndInv, Shape, FailedCarryError, FailureUnderway, WaitGroup

-----------------------------------------------------------------------------
LEMMA GoroutineStep ==
  ASSUME IndInv, NEW h \in Blocks, Goroutine(h)
  PROVE  IndInv'
<1>1. IsWorker(worker[h])  BY DEF IndInv, Shape
<1>2. CASE GetBlock(h)
  <2>1. IsWorker([worker[h] EXCEPT !.stage = "tx", !.tx = 1])
        /\ [worker[h] EXCEPT !.stage = "tx", !.tx = 1].stage = "tx"
    BY <1>1 DEF IsWorker, Start
  <2> QED BY <1>2, <2>1, QuietStep DEF GetBlock, At
<1>3. CASE GetBlockFails(h)
  BY <1>3, FailStep DEF GetBlockFails, At, Errors
<1>4. CASE GetTx(h)
  <2> DEFINE tx == Txs(h)[worker[h].tx]
             half == worker[h].half
             w == [worker[h] EXCEPT !.tx = @ + 1,
                                    !.group = AddRecords(@, Records(tx, half))]
  <2>1. worker[h].stage = "tx"  BY <1>4 DEF GetTx, HasTx, At
  <2>2. IsWorker(w) /\ w.stage = "tx"
    BY <1>1, <2>1 DEF IsWorker, Start
  <2>3. \/ Dies
        \/ FailsWith(h, "decode")
        \/ Moves(h, w) /\ UNCHANGED <<anyErr, pending, caller, failed>>
    BY <1>4 DEF GetTx
  <2> HIDE DEF w
  <2>4. CASE Dies  BY <2>4, DiesStep
  <2>5. CASE FailsWith(h, "decode")  BY <2>1, <2>5, FailStep DEF Errors
  <2>6. CASE Moves(h, w) /\ UNCHANGED <<anyErr, pending, caller, failed>>
    BY <2>1, <2>2, <2>6, QuietStep
  <2> QED BY <2>3, <2>4, <2>5, <2>6
<1>5. CASE GetTxFails(h)
  <2>1. worker[h].stage = "tx"  BY <1>5 DEF GetTxFails, HasTx, At
  <2>2. IsWorker([worker[h] EXCEPT !.tx = @ + 1])
        /\ [worker[h] EXCEPT !.tx = @ + 1].stage = "tx"
    BY <1>1, <2>1 DEF IsWorker, Start
  <2> QED BY <1>5, <2>1, <2>2, QuietStep DEF GetTxFails
<1>6. CASE Expire(h)
  <2>1. worker[h].stage \in {"block", "tx"}  BY <1>6 DEF Expire, HasTx, At
  <2>2. IsWorker([worker[h] EXCEPT !.expired = TRUE])
        /\ [worker[h] EXCEPT !.expired = TRUE].stage = worker[h].stage
    BY <1>1 DEF IsWorker, Start
  <2> QED BY <1>6, <2>1, <2>2, QuietStep DEF Expire
<1>7. CASE EndHalf(h)
  <2>1. worker[h].stage = "tx"  BY <1>7 DEF EndHalf, At
  <2>2. CASE worker[h].half = "xibc"
    <3>1. IsWorker([worker[h] EXCEPT !.stage = "block", !.half = "ibc"])
          /\ [worker[h] EXCEPT !.stage = "block", !.half = "ibc"].stage = "block"
      BY <1>1 DEF IsWorker, Start
    <3> QED BY <1>7, <2>1, <2>2, <3>1, QuietStep DEF EndHalf
  <2>3. CASE worker[h].half # "xibc"
    BY <1>1, <1>7, <2>1, <2>3, FieldsStay, QuietStep DEF EndHalf
  <2> QED BY <2>2, <2>3
<1>8. CASE Store(h)
  BY <1>1, <1>8, FieldsStay, QuietStep DEF Store, At
<1>9. CASE SetAnyErr(h)
  BY <1>9, WriteStep DEF SetAnyErr, At
<1>10. CASE Leave(h)
  BY <1>10, LeaveStep
<1> QED BY <1>2, <1>3, <1>4, <1>5, <1>6, <1>7, <1>8, <1>9, <1>10 DEF Goroutine

LEMMA NextInv == IndInv /\ [Next]_vars => IndInv'
<1> SUFFICES ASSUME IndInv, [Next]_vars PROVE IndInv'
  OBVIOUS
<1>1. CASE Call  BY <1>1, CallStep
<1>2. CASE Return  BY <1>2, ReturnStep
<1>3. CASE TornErrorKills  BY <1>3, DiesStep DEF TornErrorKills
<1>4. CASE Restart
  <2>1. Running' = Running  BY <1>4 DEF Restart, Running
  <2> QED BY <1>4, <2>1
       DEF Restart, IndInv, Shape, FailedCarryError, FailureUnderway, WaitGroup,
           ErrorIffFailed
<1>5. CASE \E h \in Blocks : Goroutine(h)  BY <1>5, GoroutineStep
<1>6. CASE UNCHANGED vars
  <2>1. Running' = Running  BY <1>6 DEF vars, Running
  <2> QED BY <1>6, <2>1
       DEF vars, IndInv, Shape, FailedCarryError, FailureUnderway, WaitGroup,
           ErrorIffFailed
<1> QED BY <1>1, <1>2, <1>3, <1>4, <1>5, <1>6 DEF Next

(***************************************************************************)
(* GetPackets returns an error exactly when a block failed, for every range   *)
(* and every content of the blocks (teleport.go:144-170).                     *)
(***************************************************************************)
THEOREM ErrorReported == Spec => []ErrorIffFailed
<1>1. IndInv => ErrorIffFailed  BY DEF IndInv
<1> QED BY InitInv, NextInv, <1>1, PTL DEF Spec

-----------------------------------------------------------------------------
(* Sequences without repetitions *)

(* s holds the events of set S, each once. *)
Holds(s, S) == s \in Seq(Events) /\ IsInjective(s) /\ ToSet(s) = S

LEMMA AppendHolds ==
  ASSUME NEW s, NEW S, Holds(s, S), NEW e \in Events, e \notin S
  PROVE  Holds(Append(s, e), S \cup {e})
<1>1. s \in Seq(Events) /\ \A i \in 1 .. Len(s) : s[i] # e
  BY DEF Holds, ToSet
<1>2. /\ Append(s, e) \in Seq(Events) /\ DOMAIN Append(s, e) = 1 .. Len(s) + 1
      /\ \A i \in 1 .. Len(s) : Append(s, e)[i] = s[i]
      /\ Append(s, e)[Len(s) + 1] = e /\ DOMAIN s = 1 .. Len(s) /\ Len(s) \in Nat
  BY <1>1
<1>3. IsInjective(Append(s, e))
  <2>1. \A i, j \in 1 .. Len(s) : s[i] = s[j] => i = j
    BY <1>2 DEF Holds, IsInjective
  <2> QED BY <1>1, <1>2, <2>1 DEF IsInjective
<1>4. ToSet(Append(s, e)) = ToSet(s) \cup {e}
  BY <1>2 DEF ToSet
<1> QED BY <1>2, <1>3, <1>4 DEF Holds

LEMMA ConcatHolds ==
  ASSUME NEW s, NEW S, NEW t, NEW T, Holds(s, S), Holds(t, T), S \cap T = {}
  PROVE  Holds(s \o t, S \cup T)
<1>1. /\ s \in Seq(Events) /\ t \in Seq(Events)
      /\ ToSet(s) = S /\ ToSet(t) = T
  BY DEF Holds
<1> DEFINE u == s \o t
<1>2. /\ u \in Seq(Events) /\ Len(u) = Len(s) + Len(t) /\ Len(s) \in Nat /\ Len(t) \in Nat
      /\ DOMAIN u = 1 .. Len(u) /\ DOMAIN s = 1 .. Len(s) /\ DOMAIN t = 1 .. Len(t)
      /\ \A i \in 1 .. Len(u) : u[i] = IF i <= Len(s) THEN s[i] ELSE t[i - Len(s)]
  BY <1>1
<1> HIDE DEF u
<1>3. \A i \in 1 .. Len(s), j \in 1 .. Len(t) : s[i] # t[j]
  BY <1>1, <1>2 DEF ToSet
<1>4. IsInjective(u)
  <2>1. /\ \A i, j \in 1 .. Len(s) : s[i] = s[j] => i = j
        /\ \A i, j \in 1 .. Len(t) : t[i] = t[j] => i = j
    BY <1>2 DEF Holds, IsInjective
  <2> SUFFICES ASSUME NEW i \in 1 .. Len(u), NEW j \in 1 .. Len(u), u[i] = u[j] PROVE i = j
    BY <1>2 DEF IsInjective
  <2>2. CASE i <= Len(s) /\ j <= Len(s)
    BY <1>2, <2>1, <2>2
  <2>3. CASE i > Len(s) /\ j > Len(s)
    <3>1. /\ i - Len(s) \in 1 .. Len(t) /\ j - Len(s) \in 1 .. Len(t)
          /\ t[i - Len(s)] = t[j - Len(s)]
      BY <1>2, <2>3
    <3> QED BY <1>2, <2>1, <3>1
  <2>4. CASE i <= Len(s) /\ j > Len(s)
    BY <1>2, <1>3, <2>4
  <2>5. CASE i > Len(s) /\ j <= Len(s)
    BY <1>2, <1>3, <2>5
  <2> QED BY <1>2, <2>2, <2>3, <2>4, <2>5
<1>5. ToSet(u) = S \cup T
  <2>1. ASSUME NEW i \in 1 .. Len(u) PROVE u[i] \in S \cup T
    <3>1. CASE i <= Len(s)
      <4>1. i \in 1 .. Len(s) /\ u[i] = s[i]
        BY <1>2, <3>1
      <4> QED BY <1>1, <1>2, <4>1 DEF ToSet
    <3>2. CASE i > Len(s)
      <4>1. i - Len(s) \in 1 .. Len(t) /\ u[i] = t[i - Len(s)]
        BY <1>2, <3>2
      <4> QED BY <1>1, <1>2, <4>1 DEF ToSet
    <3> QED BY <1>2, <3>1, <3>2
  <2>2. ASSUME NEW i \in 1 .. Len(s) PROVE \E j \in DOMAIN u : u[j] = s[i]
    BY <1>2
  <2>3. ASSUME NEW i \in 1 .. Len(t) PROVE \E j \in DOMAIN u : u[j] = t[i]
    <3>1. /\ i + Len(s) \in 1 .. Len(u) /\ ~(i + Len(s) <= Len(s))
          /\ (i + Len(s)) - Len(s) = i
      BY <1>2
    <3>2. u[i + Len(s)] = t[i]
      BY <1>2, <3>1
    <3> QED BY <1>2, <3>1, <3>2
  <2> QED BY <1>1, <1>2, <2>1, <2>2, <2>3 DEF ToSet
<1> QED BY <1>2, <1>4, <1>5 DEF Holds, u

(* What is held once is counted by the length. *)
LEMMA HoldsLen ==
  ASSUME NEW s, NEW S, Holds(s, S)
  PROVE  Len(s) = Cardinality(S)
<1>1. /\ s \in Seq(Events) /\ Len(s) \in Nat /\ DOMAIN s = 1 .. Len(s)
      /\ \A i, j \in 1 .. Len(s) : s[i] = s[j] => i = j
      /\ S = {s[i] : i \in 1 .. Len(s)}
  BY DEF Holds, IsInjective, ToSet
<1>2. s \in Bijection(1 .. Len(s), S)
  BY <1>1 DEF Bijection, Injection, Surjection, IsInjective
<1>3. IsFiniteSet(1 .. Len(s)) /\ Cardinality(1 .. Len(s)) = Len(s)
  BY <1>1, FS_Interval
<1> QED BY <1>2, <1>3, FS_Bijection DEF ExistsBijection

-----------------------------------------------------------------------------
(* What Kept keeps *)

(* What holds of the empty sequence, and stays true with every event looked   *)
(* at, holds of the result.                                                  *)
LEMMA KeptInduct ==
  ASSUME NEW events, NEW set, Len(events) \in Nat, NEW T,
         <<0, <<>>>> \in T,
         \A n \in 0 .. Len(events) - 1 : \A s : <<n, s>> \in T =>
           <<n + 1, IF events[n + 1] \in set THEN Append(s, events[n + 1]) ELSE s>> \in T
  PROVE  <<Len(events), Kept(events, set)>> \in T
<1> DEFINE N == Len(events)
           With(s, n) == IF events[n] \in set THEN Append(s, events[n]) ELSE s
           Folds(m, g) == g = [n \in 0 .. m |-> IF n = 0 THEN <<>> ELSE With(g[n - 1], n)]
           U == {m \in Nat : \E g : Folds(m, g)}
<1>1. 0 \in U
  <2>1. Folds(0, [n \in 0 .. 0 |-> <<>>])
    OBVIOUS
  <2> QED BY <2>1
<1>2. ASSUME NEW m \in Nat, m \in U PROVE m + 1 \in U
  <2>1. PICK g : Folds(m, g)
    BY <1>2
  <2> DEFINE h == [n \in 0 .. m + 1 |-> IF n = m + 1 THEN With(g[m], m + 1) ELSE g[n]]
  <2> HIDE DEF With
  <2>2. ASSUME NEW n \in 0 .. m + 1
        PROVE  h[n] = IF n = 0 THEN <<>> ELSE With(h[n - 1], n)
    <3>1. CASE n = m + 1
      BY <3>1
    <3>2. CASE n # m + 1
      <4>1. n \in 0 .. m
        BY <3>2
      <4>2. g[n] = IF n = 0 THEN <<>> ELSE With(g[n - 1], n)
        BY <2>1, <4>1
      <4> QED BY <4>1, <4>2
    <3> QED BY <3>1, <3>2
  <2>3. Folds(m + 1, h)
    BY <2>2
  <2>4. m + 1 \in Nat
    OBVIOUS
  <2> HIDE DEF Folds, h
  <2> QED BY <2>3, <2>4
<1>3. \E g : Folds(N, g)
  <2> HIDE DEF U
  <2>1. Nat \subseteq U
    BY <1>1, <1>2, Induct, SMTT(60)
  <2> QED BY <2>1 DEF U
<1> DEFINE kept == CHOOSE g : Folds(N, g)
<1>4. kept = [n \in 0 .. N |-> IF n = 0 THEN <<>> ELSE With(kept[n - 1], n)]
  BY <1>3
<1>5. Kept(events, set) = kept[N]
  BY DEF Kept
<1> DEFINE V == {n \in 0 .. N : <<n, kept[n]>> \in T}
<1> HIDE DEF kept
<1>6. 0 \in V
  BY <1>4
<1>7. ASSUME NEW n \in 0 .. N - 1, n \in V PROVE n + 1 \in V
  <2>1. kept[n + 1] = With(kept[n], n + 1)
    <3> HIDE DEF With
    <3>1. n + 1 \in 0 .. N /\ n + 1 # 0 /\ (n + 1) - 1 = n
      OBVIOUS
    <3> QED BY <1>4, <3>1
  <2>2. <<n, kept[n]>> \in T /\ n + 1 \in 0 .. N
    BY <1>7
  <2>3. <<n + 1, With(kept[n], n + 1)>> \in T
    BY <2>2, Zenon
  <2> QED BY <2>1, <2>2, <2>3
<1>8. 0 .. N \subseteq V
  <2> HIDE DEF V
  <2> QED BY <1>6, <1>7, InductTo
<1> QED BY <1>5, <1>8

Once(events) == \A i, j \in DOMAIN events : events[i] = events[j] => i = j

LEMMA KeptHolds ==
  ASSUME NEW events \in Seq(Events), Once(events), NEW set
  PROVE  Holds(Kept(events, set), {events[i] : i \in {i \in DOMAIN events : events[i] \in set}})
<1> DEFINE N == Len(events)
           Among(n) == {events[i] : i \in {i \in 1 .. n : events[i] \in set}}
           T == {x \in Nat \X Seq(Events) : x[1] <= N /\ Holds(x[2], Among(x[1]))}
<1>0. /\ N \in Nat /\ DOMAIN events = 1 .. N
      /\ \A n, s : <<n, s>> \in T <=>
           n \in 0 .. N /\ s \in Seq(Events) /\ Holds(s, Among(n))
  <2>1. N \in Nat /\ DOMAIN events = 1 .. N
    OBVIOUS
  <2> HIDE DEF Among
  <2> QED BY <2>1
<1>1. <<0, <<>>>> \in T
  <2>1. Among(0) = {}
    OBVIOUS
  <2>2. Holds(<<>>, {})
    BY DEF Holds, IsInjective, ToSet
  <2>3. <<>> \in Seq(Events) /\ 0 \in 0 .. N
    BY <1>0
  <2> HIDE DEF Among, T, N
  <2> QED BY <1>0, <2>1, <2>2, <2>3, Zenon
<1>2. ASSUME NEW n \in 0 .. N - 1, NEW s, <<n, s>> \in T
      PROVE  <<n + 1, IF events[n + 1] \in set THEN Append(s, events[n + 1]) ELSE s>> \in T
  <2>1. s \in Seq(Events) /\ Holds(s, Among(n)) /\ n + 1 \in 1 .. N /\ n + 1 \in Nat
    <3> HIDE DEF Among, T
    <3> QED BY <1>0, <1>2
  <2>2. events[n + 1] \in Events /\ events[n + 1] \notin Among(n)
    BY <1>0, <2>1 DEF Once
  <2>3. CASE events[n + 1] \in set
    <3>1. Among(n + 1) = Among(n) \cup {events[n + 1]}
      BY <2>1, <2>3
    <3> HIDE DEF Among, T
    <3>2. Holds(Append(s, events[n + 1]), Among(n + 1))
      BY <2>1, <2>2, <3>1, AppendHolds
    <3>3. n + 1 \in 0 .. N /\ Append(s, events[n + 1]) \in Seq(Events)
      BY <2>1, <2>2
    <3>4. <<n + 1, Append(s, events[n + 1])>> \in T
      <4> HIDE DEF N
      <4> QED BY <1>0, <3>2, <3>3, Zenon
    <3> QED BY <2>3, <3>4, Zenon
  <2>4. CASE events[n + 1] \notin set
    <3>1. Among(n + 1) = Among(n)
      BY <2>1, <2>4
    <3> HIDE DEF Among, T
    <3> QED BY <1>0, <2>1, <2>4, <3>1
  <2> QED BY <2>3, <2>4
<1>3. <<N, Kept(events, set)>> \in T
  <2> HIDE DEF T
  <2> QED BY <1>0, <1>1, <1>2, KeptInduct, Zenon
<1>4. Holds(Kept(events, set), Among(N))
  BY <1>3
<1> QED BY <1>0, <1>4

-----------------------------------------------------------------------------
(* What the groups hold *)

(* The records a transaction gives one half for one kind. *)
Recorded(events, half, kind) ==
  {j \in DOMAIN events :
     /\ events[j].half = half /\ events[j].kind = kind /\ BecomesRecord(events[j])
     /\ half = "xibc" =>
          ~\E k \in DOMAIN events :
             /\ events[k].half = "xibc" /\ events[k].kind = kind
             /\ events[k].data = "unparsable"}

Gives(tx, half, kind) ==
  {EventsRead(tx)[j] : j \in Recorded(EventsRead(tx), half, kind)}

LEMMA RecordsHold ==
  ASSUME NEW tx \in Seq(Seq(Events)), Once(EventsRead(tx)),
         NEW half \in Halves, NEW kind \in Kinds
  PROVE  Holds(Records(tx, half)[kind], Gives(tx, half, kind))
<1> DEFINE events == EventsRead(tx)
           set == {e \in Events : e.half = half /\ e.kind = kind}
           of == EventsOf(tx, half, kind)
           parsed == ParsedEvents(tx, half, kind)
           records == {e \in Events : BecomesRecord(e)}
<1>1. events \in Seq(Events)
  BY DEF EventsRead
<1>2. Holds(of, {events[i] : i \in {i \in DOMAIN events : events[i] \in set}})
  BY <1>1, KeptHolds DEF EventsOf
<1>3. parsed = IF half = "xibc" /\ Has(of, "unparsable") THEN <<>> ELSE of
  BY DEF ParsedEvents
<1>4. Records(tx, half)[kind] = Kept(parsed, records)
  BY DEF Records
<1>5. \A i \in DOMAIN events : events[i] \in Events
  BY <1>1
<1> HIDE DEF events, of, parsed
<1>6. Has(of, "unparsable") <=> \E i \in DOMAIN events : events[i] \in set /\ events[i].data = "unparsable"
  <2>1. Has(of, "unparsable") <=> \E e \in ToSet(of) : e.data = "unparsable"
    BY DEF Has, ToSet
  <2>2. ToSet(of) = {events[i] : i \in {i \in DOMAIN events : events[i] \in set}}
    BY <1>2 DEF Holds
  <2> HIDE DEF set
  <2> QED BY <2>1, <2>2
<1>7. CASE half = "xibc" /\ Has(of, "unparsable")
  <2>1. Gives(tx, half, kind) = {}
    BY <1>6, <1>7 DEF Gives, Recorded, events
  <2>2. Holds(Kept(<<>>, records), {})
    <3>1. <<>> \in Seq(Events) /\ Once(<<>>) /\ DOMAIN <<>> = {}
      BY DEF Once
    <3>2. Holds(Kept(<<>>, records), {(<<>>)[i] : i \in {i \in DOMAIN <<>> : (<<>>)[i] \in records}})
      BY <3>1, KeptHolds
    <3> QED BY <3>1, <3>2
  <2> QED BY <1>3, <1>4, <1>7, <2>1, <2>2
<1>8. CASE ~(half = "xibc" /\ Has(of, "unparsable"))
  <2>1. parsed = of
    BY <1>3, <1>8
  <2>2. Holds(Kept(of, records), {of[i] : i \in {i \in DOMAIN of : of[i] \in records}})
    <3>1. of \in Seq(Events) /\ Once(of)
      BY <1>2 DEF Holds, Once, IsInjective
    <3> QED BY <3>1, KeptHolds
  <2>3. {of[i] : i \in {i \in DOMAIN of : of[i] \in records}} = Gives(tx, half, kind)
    <3>1. {of[i] : i \in {i \in DOMAIN of : of[i] \in records}} = {e \in ToSet(of) : e \in records}
      BY DEF ToSet
    <3>2. ToSet(of) = {events[i] : i \in {i \in DOMAIN events : events[i] \in set}}
      BY <1>2 DEF Holds
    <3>3. \A j : j \in Recorded(events, half, kind) <=>
                   j \in DOMAIN events /\ events[j] \in set /\ events[j] \in records
      BY <1>5, <1>6, <1>8 DEF Recorded
    <3>4. Gives(tx, half, kind) = {events[j] : j \in Recorded(events, half, kind)}
      BY DEF Gives, events
    <3> HIDE DEF set, records
    <3> QED BY <3>1, <3>2, <3>3, <3>4
  <2> QED BY <1>4, <2>1, <2>2, <2>3
<1> QED BY <1>7, <1>8

(* The queries of worker w that are over: half's for transaction i. *)
Over(w, half, i) ==
  \/ half = "xibc" /\ w.half = "ibc"
  \/ half = w.half /\ w.stage # "block" /\ i < w.tx

(* The records worker w of block h has got. *)
Got(h, w, kind) ==
  {e \in Events : \E i \in DOMAIN Txs(h), half \in Halves :
     Over(w, half, i) /\ <<h, half, i>> \notin dropped /\ e \in Gives(Txs(h)[i], half, kind)}

Reads(h, w) ==
  w.stage \in {"block", "tx", "store"} =>
    /\ w.half \in Halves
    /\ w.stage # "block" => w.tx \in Nat \ {0}
    /\ w.stage = "store" => w.half = "ibc" /\ w.tx > Len(Txs(h))
    /\ \A half \in Halves : \A i :
         <<h, half, i>> \in dropped => i \in Nat /\ Over(w, half, i)
    /\ w.group = [kind \in Kinds |-> w.group[kind]]
    /\ \A kind \in Kinds : Holds(w.group[kind], Got(h, w, kind))

(* A goroutine that has not failed leaves the whole group of its block. *)
Delivers(h) ==
  caller \in {"waiting", "groups"} /\ worker[h].stage \in {"leaving", "done"} /\ h \notin failed =>
    packets[h] # NoGroup /\ \A kind \in Kinds : Holds(packets[h][kind], Wanted(h, kind))

GroupsInv ==
  /\ content \in Contents
  /\ packets = [h \in Blocks |-> packets[h]]
  /\ \A h \in Blocks : Reads(h, worker[h]) /\ Delivers(h)

(* What the content of a block is. *)
LEMMA BlockContent ==
  ASSUME content \in Contents, NEW h \in Blocks
  PROVE  /\ Txs(h) \in Seq(Seq(Seq(Events))) /\ Len(Txs(h)) \in Nat
         /\ DOMAIN Txs(h) = 1 .. Len(Txs(h))
         /\ \A i \in DOMAIN Txs(h) :
              /\ Txs(h)[i] \in Seq(Seq(Events))
              /\ EventsRead(Txs(h)[i]) \in Seq(Events)
              /\ Once(EventsRead(Txs(h)[i]))
              /\ \A half, kind : Gives(Txs(h)[i], half, kind) \subseteq Events
         /\ \A i, j \in DOMAIN Txs(h) : \A f, g, kind :
              i # j \/ f # g => Gives(Txs(h)[i], f, kind) \cap Gives(Txs(h)[j], g, kind) = {}
<1>1. /\ Txs(h) \in Seq(Seq(Seq(Events)))
      /\ \A i, j \in DOMAIN Txs(h) :
           \A k \in DOMAIN EventsRead(Txs(h)[i]), l \in DOMAIN EventsRead(Txs(h)[j]) :
             EventsRead(Txs(h)[i])[k] = EventsRead(Txs(h)[j])[l] => i = j /\ k = l
  BY ContentsOK DEF Txs
<1> DEFINE t == Txs(h)
<1> HIDE DEF t
<1>2. /\ t \in Seq(Seq(Seq(Events))) /\ Len(t) \in Nat /\ DOMAIN t = 1 .. Len(t)
      /\ \A i \in DOMAIN t : t[i] \in Seq(Seq(Events))
  BY <1>1 DEF t
<1>3. \A i \in DOMAIN t : EventsRead(t[i]) \in Seq(Events)
  BY <1>2 DEF EventsRead
<1>4. \A i \in DOMAIN t : Once(EventsRead(t[i]))
  BY <1>1 DEF Once, t
<1>5. \A i \in DOMAIN t : \A half, kind : Gives(t[i], half, kind) \subseteq Events
  BY <1>3 DEF Gives, Recorded
<1>6. ASSUME NEW i \in DOMAIN t, NEW j \in DOMAIN t, NEW f, NEW g, NEW kind, i # j \/ f # g
      PROVE  Gives(t[i], f, kind) \cap Gives(t[j], g, kind) = {}
  <2>1. CASE i # j
    BY <1>1, <2>1 DEF Gives, Recorded, t
  <2>2. CASE f # g
    BY <2>2 DEF Gives, Recorded
  <2> QED BY <1>6, <2>1, <2>2
<1> QED BY <1>2, <1>3, <1>4, <1>5, <1>6 DEF t

(* A goroutine and its block that a step leaves alone. *)
LEMMA OthersKeep ==
  ASSUME NEW h \in Blocks, Reads(h, worker[h]), Delivers(h),
         content' = content, worker'[h] = worker[h], packets'[h] = packets[h],
         caller' \in {"waiting", "groups"} => caller \in {"waiting", "groups"},
         h \in failed => h \in failed',
         \A half, i : <<h, half, i>> \in dropped' <=> <<h, half, i>> \in dropped
  PROVE  Reads(h, worker[h])' /\ Delivers(h)'
<1>1. /\ Txs(h)' = Txs(h)
      /\ \A kind : Got(h, worker[h], kind)' = Got(h, worker[h], kind)
      /\ \A kind : Wanted(h, kind)' = Wanted(h, kind)
  <2>1. Txs(h)' = Txs(h)
    BY DEF Txs
  <2>2. \A kind : Got(h, worker[h], kind)' = Got(h, worker[h], kind)
    BY <2>1 DEF Got, Over
  <2>3. \A kind : Wanted(h, kind)' = Wanted(h, kind)
    BY <2>1 DEF Wanted, WantedOf
  <2> QED BY <2>1, <2>2, <2>3
<1>2. Reads(h, worker[h])'
  BY <1>1 DEF Reads, Over
<1>3. Delivers(h)'
  BY <1>1 DEF Delivers
<1> QED BY <1>2, <1>3

LEMMA InitGroups == Init => GroupsInv
<1> SUFFICES ASSUME Init PROVE GroupsInv
  OBVIOUS
<1>1. \A h \in Blocks : worker[h].stage = "done"
  BY DEF Init, Finished, Start
<1> QED BY <1>1 DEF Init, GroupsInv, Reads, Delivers

(* A call starts with empty groups. *)
LEMMA CallGroups == ASSUME GroupsInv, Call PROVE GroupsInv'
<1>1. \A h \in Blocks : worker'[h] = Start
  BY DEF Call
<1>2. /\ Start.stage = "block" /\ Start.half = "xibc"
      /\ Start.group = [kind \in Kinds |-> <<>>]
  BY DEF Start, EmptyGroup
<1>3. ASSUME NEW h \in Blocks PROVE Reads(h, Start)'
  <2>1. \A kind : Got(h, Start, kind)' = {}
    BY <1>2 DEF Got, Over, Halves
  <2>2. Holds(<<>>, {})
    BY DEF Holds, IsInjective, ToSet
  <2>3. dropped' = {}
    BY DEF Call
  <2> HIDE DEF Start
  <2> QED BY <1>2, <2>1, <2>2, <2>3 DEF Reads, Halves
<1>4. \A h \in Blocks : Delivers(h)'
  BY <1>1, <1>2 DEF Delivers
<1> QED BY <1>1, <1>3, <1>4 DEF Call, GroupsInv

LEMMA DiesGroups == ASSUME GroupsInv, Dies PROVE GroupsInv'
<1>1. \A h \in Blocks : worker'[h].stage = "done"
  BY DEF Dies, Finished, Start
<1>2. caller' = "dead"
  BY DEF Dies
<1>3. \A h \in Blocks : Reads(h, worker[h])' /\ Delivers(h)'
  BY <1>1, <1>2 DEF Reads, Delivers
<1> QED BY <1>3 DEF Dies, GroupsInv

LEMMA CallerGroups ==
  ASSUME GroupsInv, Return \/ Restart \/ UNCHANGED vars
  PROVE  GroupsInv'
<1>1. /\ UNCHANGED <<content, worker, packets, failed, dropped>>
      /\ caller' \in {"waiting", "groups"} => caller \in {"waiting", "groups"}
  BY DEF Return, Restart, vars
<1>2. \A h \in Blocks : Reads(h, worker[h])' /\ Delivers(h)'
  BY <1>1, OthersKeep DEF GroupsInv
<1> QED BY <1>1, <1>2 DEF GroupsInv

(* A goroutine's step leaves the other blocks alone. *)
LEMMA AloneGroups ==
  ASSUME GroupsInv, Shape, NEW h \in Blocks, NEW w, IsWorker(w), Moves(h, w),
         content' = content, caller' = caller, failed \subseteq failed',
         packets' = packets \/ packets' = [packets EXCEPT ![h] = worker[h].group],
         \A g \in Blocks \ {h} : \A half, i :
           <<g, half, i>> \in dropped' <=> <<g, half, i>> \in dropped,
         Reads(h, worker[h])', Delivers(h)'
  PROVE  GroupsInv'
<1>1. worker'[h] = w /\ \A g \in Blocks \ {h} : worker'[g] = worker[g]
  BY MovesTo
<1>2. /\ packets' = [g \in Blocks |-> packets'[g]]
      /\ \A g \in Blocks \ {h} : packets'[g] = packets[g]
  BY DEF GroupsInv
<1>3. ASSUME NEW g \in Blocks \ {h} PROVE Reads(g, worker[g])' /\ Delivers(g)'
  BY <1>1, <1>2, <1>3, OthersKeep DEF GroupsInv
<1> QED BY <1>2, <1>3 DEF GroupsInv

(* A step of h that asks no transaction and stores nothing. *)
LEMMA StageGroups ==
  ASSUME GroupsInv, Shape, NEW h \in Blocks, NEW w, IsWorker(w), Moves(h, w),
         UNCHANGED <<content, packets, caller, dropped>>, failed \subseteq failed',
         w.stage \in {"block", "tx", "store"} =>
           /\ worker[h].stage \in {"block", "tx", "store"}
           /\ w.group = worker[h].group /\ w.half \in Halves
           /\ w.stage # "block" => w.tx \in Nat \ {0}
           /\ w.stage = "store" => w.half = "ibc" /\ w.tx > Len(Txs(h))
           /\ \A half \in Halves, i \in Nat \ {0} :
                i <= Len(Txs(h)) => (Over(w, half, i) <=> Over(worker[h], half, i))
           /\ \A half \in Halves, i \in Nat : Over(worker[h], half, i) => Over(w, half, i),
         w.stage \in {"leaving", "done"} =>
           h \in failed \/ worker[h].stage \in {"leaving", "done"}
  PROVE  GroupsInv'
<1>1. worker'[h] = w
  BY MovesTo
<1>2. Txs(h)' = Txs(h) /\ Len(Txs(h)) \in Nat /\ DOMAIN Txs(h) = 1 .. Len(Txs(h))
  BY BlockContent DEF GroupsInv, Txs
<1>3. Reads(h, worker[h])'
  <2> SUFFICES ASSUME w.stage \in {"block", "tx", "store"} PROVE Reads(h, worker[h])'
    BY <1>1 DEF Reads
  <2>1. Reads(h, worker[h])
    BY DEF GroupsInv
  <2>2. \A kind : Got(h, worker[h], kind)' = Got(h, worker[h], kind)
    <3>1. \A i \in DOMAIN Txs(h), half \in Halves : Over(w, half, i) <=> Over(worker[h], half, i)
      BY <1>2
    <3>2. \A i \in DOMAIN Txs(h), half \in Halves :
            Over(worker[h], half, i)' <=> Over(worker[h], half, i)
      BY <1>1, <3>1 DEF Over
    <3> QED BY <1>2, <3>2 DEF Got
  <2>3. \A half \in Halves : \A i : <<h, half, i>> \in dropped' => i \in Nat /\ Over(w, half, i)
    BY <2>1 DEF Reads
  <2> QED BY <1>1, <1>2, <2>1, <2>2, <2>3 DEF Reads, Over
<1>4. Delivers(h)'
  <2>1. \A kind : Wanted(h, kind)' = Wanted(h, kind)
    BY <1>2 DEF Wanted, WantedOf
  <2> QED BY <1>1, <2>1 DEF Delivers, GroupsInv
<1> QED BY <1>3, <1>4, AloneGroups

(* A transaction is read: its records come to those of the block's earlier ones. *)
LEMMA ReadGroups ==
  ASSUME GroupsInv, Shape, NEW h \in Blocks, HasTx(h), NEW w, IsWorker(w), Moves(h, w),
         UNCHANGED <<content, packets, caller, dropped, failed>>,
         w.stage = "tx", w.half = worker[h].half, w.tx = worker[h].tx + 1,
         w.group = AddRecords(worker[h].group, Records(Txs(h)[worker[h].tx], worker[h].half))
  PROVE  GroupsInv'
<1> DEFINE v == worker[h]
           t == v.tx
           tx == Txs(h)[t]
<1>1. worker'[h] = w
  BY MovesTo
<1>2. /\ Txs(h)' = Txs(h) /\ Len(Txs(h)) \in Nat /\ DOMAIN Txs(h) = 1 .. Len(Txs(h))
  BY BlockContent DEF GroupsInv, Txs
<1>3. /\ v.stage = "tx" /\ v.half \in Halves /\ t \in DOMAIN Txs(h) /\ t \in Nat
      /\ \A half \in Halves : \A i : <<h, half, i>> \in dropped => i \in Nat /\ Over(v, half, i)
      /\ \A kind \in Kinds : Holds(v.group[kind], Got(h, v, kind))
  <2>1. Reads(h, v)
    BY DEF GroupsInv
  <2>2. v.stage = "tx" /\ t <= Len(Txs(h))
    BY DEF HasTx, At
  <2> QED BY <1>2, <2>1, <2>2 DEF Reads
<1>4. <<h, v.half, t>> \notin dropped
  BY <1>3 DEF Over, Halves
<1>5. \A i \in DOMAIN Txs(h), half \in Halves :
        Over(w, half, i) <=> Over(v, half, i) \/ (half = v.half /\ i = t)
  BY <1>2, <1>3 DEF Over, Halves
<1>6. ASSUME NEW kind \in Kinds PROVE Holds(w.group[kind], Got(h, w, kind)')
  <2>0. \A i, half : Over(w, half, i)' <=> Over(w, half, i)
    BY DEF Over
  <2> DEFINE new == Gives(tx, v.half, kind)
  <2>1. tx \in Seq(Seq(Events)) /\ Once(EventsRead(tx)) /\ new \subseteq Events
    BY <1>3, BlockContent DEF GroupsInv
  <2>2. Holds(Records(tx, v.half)[kind], new)
    BY <1>3, <2>1, RecordsHold
  <2>3. Got(h, v, kind) \cap new = {}
    <3>1. ASSUME NEW i \in DOMAIN Txs(h), NEW half \in Halves, Over(v, half, i)
          PROVE  Gives(Txs(h)[i], half, kind) \cap new = {}
      <4>1. i # t \/ half # v.half
        BY <1>2, <1>3, <3>1 DEF Over, Halves
      <4> QED BY <1>3, <4>1, BlockContent DEF GroupsInv
    <3> HIDE DEF new
    <3> QED BY <3>1 DEF Got
  <2>4. Got(h, w, kind)' = Got(h, v, kind) \cup new
    <3>1. ASSUME NEW e \in Got(h, w, kind)' PROVE e \in Got(h, v, kind) \cup new
      <4>1. PICK i \in DOMAIN Txs(h), half \in Halves :
              /\ Over(w, half, i) /\ <<h, half, i>> \notin dropped
              /\ e \in Gives(Txs(h)[i], half, kind)
        BY <1>2, <2>0, <3>1 DEF Got
      <4>2. CASE Over(v, half, i)
        BY <3>1, <4>1, <4>2 DEF Got
      <4>3. CASE half = v.half /\ i = t
        BY <4>1, <4>3
      <4> QED BY <1>5, <4>1, <4>2, <4>3
    <3>2. ASSUME NEW e \in Got(h, v, kind) PROVE e \in Got(h, w, kind)'
      BY <1>2, <1>5, <2>0, <3>2 DEF Got
    <3>3. ASSUME NEW e \in new PROVE e \in Got(h, w, kind)'
      <4>0. e \in Events
        BY <2>1, <3>3
      <4>1. Over(w, v.half, t)
        BY <1>3, <1>5, SMTT(30)
      <4> QED BY <1>2, <1>3, <1>4, <2>0, <3>3, <4>0, <4>1 DEF Got
    <3> QED BY <3>1, <3>2, <3>3
  <2>5. w.group[kind] = v.group[kind] \o Records(tx, v.half)[kind]
    BY DEF AddRecords
  <2> HIDE DEF new, tx, v, t
  <2> QED BY <1>3, <2>2, <2>3, <2>4, <2>5, ConcatHolds
<1>7. w.group = [kind \in Kinds |-> w.group[kind]]
  BY DEF AddRecords
<1>8. \A half \in Halves : \A i : <<h, half, i>> \in dropped' => i \in Nat /\ Over(w, half, i)
  BY <1>3 DEF Over
<1>9. Reads(h, worker[h])'
  <2>1. \A kind : Got(h, worker[h], kind)' = Got(h, w, kind)'
    BY <1>1 DEF Got, Over
  <2> QED BY <1>1, <1>2, <1>3, <1>6, <1>7, <1>8, <2>1 DEF Reads, Over
<1>10. Delivers(h)'
  BY <1>1 DEF Delivers
<1> QED BY <1>9, <1>10, AloneGroups

(* A transaction is passed over: its records are dropped (teleport.go:199). *)
LEMMA DropGroups ==
  ASSUME GroupsInv, Shape, NEW h \in Blocks, GetTxFails(h) PROVE GroupsInv'
<1> DEFINE v == worker[h]
           t == v.tx
<1>0. /\ HasTx(h) /\ dropped' = dropped \cup {<<h, v.half, t>>}
      /\ UNCHANGED <<content, packets, anyErr, pending, caller, failed>>
      /\ Moves(h, [v EXCEPT !.tx = t + 1]) /\ IsWorker(v)
  BY DEF GetTxFails, Shape
<1>1. PICK w : w = [v EXCEPT !.tx = t + 1]
  OBVIOUS
<1>2. /\ IsWorker(w) /\ w.stage = v.stage /\ w.half = v.half /\ w.tx = t + 1
      /\ w.group = v.group
  BY <1>0, <1>1 DEF IsWorker, Start
<1>3. worker'[h] = w
  BY <1>0, <1>1, <1>2, MovesTo
<1>4. /\ Txs(h)' = Txs(h) /\ Len(Txs(h)) \in Nat /\ DOMAIN Txs(h) = 1 .. Len(Txs(h))
  BY <1>0, BlockContent DEF GroupsInv, Txs
<1>5. /\ v.stage = "tx" /\ v.half \in Halves /\ t \in DOMAIN Txs(h) /\ t \in Nat \ {0}
      /\ \A half \in Halves : \A i : <<h, half, i>> \in dropped => i \in Nat /\ Over(v, half, i)
      /\ \A kind \in Kinds : Holds(v.group[kind], Got(h, v, kind))
      /\ v.group = [kind \in Kinds |-> v.group[kind]]
      /\ v.tx = t
  <2>1. Reads(h, v)
    BY DEF GroupsInv
  <2>2. v.stage = "tx" /\ t <= Len(Txs(h))
    BY <1>0 DEF HasTx, At
  <2> QED BY <1>4, <2>1, <2>2 DEF Reads
<1> HIDE DEF v, t
<1>6. \A i \in DOMAIN Txs(h), half \in Halves :
        Over(w, half, i) <=> Over(v, half, i) \/ (half = v.half /\ i = t)
  BY <1>2, <1>4, <1>5 DEF Over, Halves
<1>7. \A kind : Got(h, w, kind)' = Got(h, v, kind)
  <2> SUFFICES ASSUME NEW kind PROVE Got(h, w, kind)' = Got(h, v, kind)
    OBVIOUS
  <2>1. \A i \in DOMAIN Txs(h), half \in Halves :
          Over(v, half, i) => ~(half = v.half /\ i = t)
    BY <1>4, <1>5 DEF Over, Halves
  <2>2. \A i \in DOMAIN Txs(h), half \in Halves :
          Over(w, half, i) /\ <<h, half, i>> \notin dropped' <=>
          Over(v, half, i) /\ <<h, half, i>> \notin dropped
    BY <1>0, <1>6, <2>1
  <2> QED BY <1>4, <2>2 DEF Got, Over
<1>8. \A half \in Halves : \A i : <<h, half, i>> \in dropped' => i \in Nat /\ Over(w, half, i)
  BY <1>0, <1>2, <1>5 DEF Over
<1>9. Reads(h, worker[h])'
  <2>1. \A kind : Got(h, worker[h], kind)' = Got(h, w, kind)'
    BY <1>3 DEF Got, Over
  <2> QED BY <1>2, <1>3, <1>4, <1>5, <1>7, <1>8, <2>1 DEF Reads, Over
<1>10. Delivers(h)'
  BY <1>2, <1>3, <1>5 DEF Delivers
<1>11. Moves(h, w)
  BY <1>0, <1>1 DEF v, t
<1>12. \A g \in Blocks \ {h} : \A half, i : <<g, half, i>> \in dropped' <=> <<g, half, i>> \in dropped
  BY <1>0
<1> QED BY <1>0, <1>2, <1>9, <1>10, <1>11, <1>12, AloneGroups

(* The group is complete when it is stored (line 161). *)
LEMMA StoreGroups ==
  ASSUME GroupsInv, Shape, NEW h \in Blocks, Store(h) PROVE GroupsInv'
<1> DEFINE v == worker[h]
<1>0. /\ v.stage = "store" /\ packets' = [packets EXCEPT ![h] = v.group]
      /\ UNCHANGED <<content, anyErr, pending, caller, dropped, failed>>
      /\ Moves(h, [v EXCEPT !.stage = "leaving"]) /\ IsWorker(v)
  BY DEF Store, At, Shape
<1>1. PICK w : w = [v EXCEPT !.stage = "leaving"]
  OBVIOUS
<1>2. IsWorker(w) /\ w.stage = "leaving" /\ Moves(h, w)
  BY <1>0, <1>1, FieldsStay
<1>3. worker'[h] = w /\ packets'[h] = v.group
  BY <1>0, <1>2, MovesTo DEF GroupsInv
<1>4. /\ Txs(h)' = Txs(h) /\ Len(Txs(h)) \in Nat /\ DOMAIN Txs(h) = 1 .. Len(Txs(h))
  BY <1>0, BlockContent DEF GroupsInv, Txs
<1>5. /\ v.half = "ibc" /\ v.tx \in Nat /\ v.tx > Len(Txs(h))
      /\ \A kind \in Kinds : Holds(v.group[kind], Got(h, v, kind))
      /\ v.group = [kind \in Kinds |-> v.group[kind]]
  <2>1. Reads(h, v)
    BY DEF GroupsInv
  <2> QED BY <1>0, <2>1 DEF Reads
<1> HIDE DEF v
<1>6. ASSUME NEW kind \in Kinds PROVE Got(h, v, kind) = Wanted(h, kind)'
  <2>1. \A i \in DOMAIN Txs(h), half \in Halves : Over(v, half, i)
    BY <1>0, <1>4, <1>5 DEF Over, Halves
  <2>2. \A i \in DOMAIN Txs(h) : \A j \in DOMAIN EventsRead(Txs(h)[i]) :
          EventsRead(Txs(h)[i])[j] \in Events
    BY BlockContent DEF GroupsInv
  <2>3. \A e : e \in Wanted(h, kind)' <=> \E i \in DOMAIN Txs(h) : e \in WantedOf(h, i, kind)
    <3>1. Wanted(h, kind)' = Wanted(h, kind)
      BY <1>0, <1>4 DEF Wanted, WantedOf
    <3> QED BY <3>1 DEF Wanted
  <2>4. ASSUME NEW e \in Got(h, v, kind) PROVE e \in Wanted(h, kind)'
    <3>1. PICK i \in DOMAIN Txs(h), half \in Halves :
            <<h, half, i>> \notin dropped /\ e \in Gives(Txs(h)[i], half, kind)
      BY <2>4 DEF Got
    <3>2. e \in WantedOf(h, i, kind)
      BY <3>1 DEF Gives, Recorded, WantedOf
    <3> QED BY <2>3, <3>1, <3>2
  <2>5. ASSUME NEW e \in Wanted(h, kind)' PROVE e \in Got(h, v, kind)
    <3>1. PICK i \in DOMAIN Txs(h) : e \in WantedOf(h, i, kind)
      BY <2>3, <2>5
    <3>2. e \in Events /\ e.half \in Halves
      BY <2>2, <3>1 DEF WantedOf, Events
    <3>3. e \in Gives(Txs(h)[i], e.half, kind) /\ <<h, e.half, i>> \notin dropped
      BY <3>1 DEF Gives, Recorded, WantedOf
    <3> QED BY <2>1, <3>1, <3>2, <3>3 DEF Got
  <2> QED BY <2>4, <2>5
<1>7. v.group # NoGroup
  <2>1. DOMAIN NoGroup = {} /\ DOMAIN v.group # {}
    BY <1>5 DEF NoGroup, Kinds
  <2> QED BY <2>1
<1>8. Reads(h, worker[h])' /\ Delivers(h)'
  BY <1>2, <1>3, <1>5, <1>6, <1>7 DEF Reads, Delivers
<1> QED BY <1>0, <1>2, <1>8, AloneGroups DEF v

LEMMA GoroutineGroups ==
  ASSUME IndInv, GroupsInv, NEW h \in Blocks, Goroutine(h)
  PROVE  GroupsInv'
<1> DEFINE v == worker[h]
<1>1. Shape /\ IsWorker(v)
  BY DEF IndInv, Shape
<1>2. /\ v.stage \in {"block", "tx", "store"} => v.half \in Halves
      /\ v.stage \in {"tx", "store"} => v.tx \in Nat \ {0}
      /\ Len(Txs(h)) \in Nat
  BY BlockContent DEF GroupsInv, Reads
<1>3. CASE GetBlock(h)
  <2>1. PICK w : w = [v EXCEPT !.stage = "tx", !.tx = 1]
    OBVIOUS
  <2>2. /\ IsWorker(w) /\ w.stage = "tx" /\ w.tx = 1 /\ w.half = v.half /\ w.group = v.group
        /\ Moves(h, w) /\ v.stage = "block"
        /\ UNCHANGED <<content, packets, caller, dropped, failed>>
    BY <1>1, <1>3, <2>1 DEF GetBlock, At, IsWorker, Start
  <2>3. \A half \in Halves, i \in Nat \ {0} : Over(w, half, i) <=> Over(v, half, i)
    BY <2>2 DEF Over
  <2>4. \A half \in Halves, i \in Nat : Over(v, half, i) => Over(w, half, i)
    BY <2>2 DEF Over
  <2> QED BY <1>1, <1>2, <2>2, <2>3, <2>4, StageGroups
<1>4. CASE GetTx(h)
  <2>1. HasTx(h) /\ v.stage = "tx"
    BY <1>4 DEF GetTx, HasTx, At
  <2>2. CASE Dies
    BY <2>2, DiesGroups
  <2>3. CASE FailsWith(h, "decode")
    <3>1. PICK w : w = [v EXCEPT !.stage = "error", !.err = "decode"]
      OBVIOUS
    <3>2. /\ IsWorker(w) /\ w.stage = "error" /\ Moves(h, w)
          /\ UNCHANGED <<content, packets, caller, dropped>> /\ failed \subseteq failed'
      BY <1>1, <2>3, <3>1 DEF FailsWith, IsWorker, Start
    <3> QED BY <1>1, <3>2, StageGroups
  <2>4. CASE /\ Moves(h, [v EXCEPT !.tx = @ + 1,
                            !.group = AddRecords(@, Records(Txs(h)[v.tx], v.half))])
             /\ UNCHANGED <<content, packets, anyErr, pending, caller, dropped, failed>>
    <3>1. PICK w : w = [v EXCEPT !.tx = @ + 1,
                          !.group = AddRecords(@, Records(Txs(h)[v.tx], v.half))]
      OBVIOUS
    <3>2. /\ IsWorker(w) /\ w.stage = "tx" /\ w.half = v.half /\ w.tx = v.tx + 1
          /\ w.group = AddRecords(v.group, Records(Txs(h)[v.tx], v.half))
      BY <1>1, <2>1, <3>1 DEF IsWorker, Start
    <3>3. Moves(h, w)
      BY <2>4, <3>1
    <3> QED BY <1>1, <2>1, <2>4, <3>2, <3>3, ReadGroups
  <2> QED BY <1>4, <2>2, <2>3, <2>4 DEF GetTx
<1>5. CASE GetBlockFails(h)
  <2>1. PICK w : w = [v EXCEPT !.stage = "error", !.err = "rpc"]
    OBVIOUS
  <2>2. /\ IsWorker(w) /\ w.stage = "error" /\ Moves(h, w)
        /\ UNCHANGED <<content, packets, caller, dropped>> /\ failed \subseteq failed'
    BY <1>1, <1>5, <2>1 DEF GetBlockFails, FailsWith, IsWorker, Start
  <2> QED BY <1>1, <2>2, StageGroups
<1>6. CASE GetTxFails(h)
  BY <1>1, <1>6, DropGroups
<1>7. CASE Expire(h)
  <2>1. PICK w : w = [v EXCEPT !.expired = TRUE]
    OBVIOUS
  <2>2. /\ IsWorker(w) /\ w.stage = v.stage /\ w.tx = v.tx /\ w.half = v.half /\ w.group = v.group
        /\ Moves(h, w) /\ v.stage \in {"block", "tx"}
        /\ UNCHANGED <<content, packets, caller, dropped, failed>>
    BY <1>1, <1>7, <2>1 DEF Expire, HasTx, At, IsWorker, Start
  <2>3. \A half, i : Over(w, half, i) <=> Over(v, half, i)
    BY <2>2 DEF Over
  <2> QED BY <1>1, <1>2, <2>2, <2>3, StageGroups
<1>8. CASE EndHalf(h)
  <2>0. /\ v.stage = "tx" /\ v.tx > Len(Txs(h))
        /\ UNCHANGED <<content, packets, caller, dropped, failed>>
    BY <1>2, <1>8 DEF EndHalf, HasTx, At
  <2>1. CASE v.half = "xibc"
    <3>1. PICK w : w = [v EXCEPT !.stage = "block", !.half = "ibc"]
      OBVIOUS
    <3>2. /\ IsWorker(w) /\ w.stage = "block" /\ w.half = "ibc" /\ w.group = v.group
          /\ Moves(h, w)
      BY <1>1, <1>8, <2>1, <3>1 DEF EndHalf, IsWorker, Start
    <3>3. \A half \in Halves, i \in Nat \ {0} :
            i <= Len(Txs(h)) => (Over(w, half, i) <=> Over(v, half, i))
      BY <1>2, <2>0, <2>1, <3>2 DEF Over, Halves
    <3>4. \A half \in Halves, i \in Nat : Over(v, half, i) => Over(w, half, i)
      BY <2>0, <2>1, <3>2 DEF Over
    <3>5. w.half \in Halves
      BY <3>2 DEF Halves
    <3> QED BY <1>1, <2>0, <3>2, <3>3, <3>4, <3>5, StageGroups
  <2>2. CASE v.half # "xibc"
    <3>1. PICK w : w = [v EXCEPT !.stage = "store"]
      OBVIOUS
    <3>2. /\ IsWorker(w) /\ w.stage = "store" /\ w.half = v.half /\ w.tx = v.tx
          /\ w.group = v.group /\ Moves(h, w)
      BY <1>1, <1>8, <2>2, <3>1 DEF EndHalf, IsWorker, Start
    <3>3. \A half, i : Over(w, half, i) <=> Over(v, half, i)
      BY <2>0, <3>2 DEF Over
    <3>4. v.half = "ibc"
      BY <1>2, <2>0, <2>2 DEF Halves
    <3> QED BY <1>1, <1>2, <2>0, <3>2, <3>3, <3>4, StageGroups
  <2> QED BY <2>1, <2>2
<1>9. CASE Store(h)
  BY <1>1, <1>9, StoreGroups
<1>10. CASE SetAnyErr(h)
  <2>1. PICK word \in {"type", "data"}, stage \in {"type", "data", "leaving"} :
          WriteWord(h, word, stage) /\ v.stage \in {"error", "type", "data"}
    BY <1>10 DEF SetAnyErr, At
  <2>2. h \in failed
    BY <2>1 DEF IndInv, FailedCarryError
  <2>3. PICK w : w = [v EXCEPT !.stage = stage]
    OBVIOUS
  <2>4. /\ IsWorker(w) /\ w.stage = stage /\ Moves(h, w)
        /\ UNCHANGED <<content, packets, caller, dropped, failed>>
    BY <1>1, <2>1, <2>3, FieldsStay DEF WriteWord
  <2> QED BY <1>1, <2>1, <2>2, <2>4, StageGroups
<1>11. CASE Leave(h)
  <2>1. PICK w : w = Finished
    OBVIOUS
  <2>2. /\ IsWorker(w) /\ w.stage = "done" /\ Moves(h, w) /\ v.stage = "leaving"
        /\ UNCHANGED <<content, packets, caller, dropped, failed>>
    BY <1>11, <2>1, StartIsWorker DEF Leave, At, Finished, Start
  <2> QED BY <1>1, <2>2, StageGroups
<1> QED BY <1>3, <1>4, <1>5, <1>6, <1>7, <1>8, <1>9, <1>10, <1>11 DEF Goroutine

LEMMA NextGroups == IndInv /\ GroupsInv /\ [Next]_vars => GroupsInv'
<1> SUFFICES ASSUME IndInv, GroupsInv, [Next]_vars PROVE GroupsInv'
  OBVIOUS
<1>1. CASE Call
  BY <1>1, CallGroups
<1>2. CASE Return \/ Restart \/ UNCHANGED vars
  BY <1>2, CallerGroups
<1>3. CASE TornErrorKills
  BY <1>3, DiesGroups DEF TornErrorKills
<1>4. CASE \E h \in Blocks : Goroutine(h)
  BY <1>4, GoroutineGroups
<1> QED BY <1>1, <1>2, <1>3, <1>4 DEF Next

(***************************************************************************)
(* What GetPackets returns without an error has a group for every block, in   *)
(* the block's place, with each packet of the block once, but for what a      *)
(* failing query or an event that cannot be parsed hides, for every range     *)
(* and every content of the blocks (teleport.go:144-170, 177-266).            *)
(***************************************************************************)
THEOREM AllBlocksReturned == Spec => []AllBlocksOrError
<1>1. IndInv /\ GroupsInv => AllBlocksOrError
  <2> SUFFICES ASSUME IndInv, GroupsInv, caller = "groups", NEW h \in Blocks, NEW kind \in Kinds
               PROVE  /\ packets[h] # NoGroup
                      /\ ToSet(packets[h][kind]) = Wanted(h, kind)
                      /\ Len(packets[h][kind]) = Cardinality(Wanted(h, kind))
    BY DEF AllBlocksOrError, Kinds
  <2>1. worker[h].stage = "done" /\ h \notin failed
    BY DEF IndInv, WaitGroup, Running, ErrorIffFailed
  <2>2. packets[h] # NoGroup /\ Holds(packets[h][kind], Wanted(h, kind))
    BY <2>1 DEF GroupsInv, Delivers
  <2> QED BY <2>2, HoldsLen DEF Holds
<1> QED BY InitInv, NextInv, InitGroups, NextGroups, <1>1, PTL DEF Spec

=============================================================================
