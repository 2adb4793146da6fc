----------------------------- MODULE BlockFetch -----------------------------
(***************************************************************************)
(* One call of the Teleport client's GetPackets (chains/teleport.go:144): a  *)
(* goroutine per block queries the block and its transactions twice, first   *)
(* for the events of the XIBC packet module, under a deadline of 60 seconds  *)
(* for all its queries, then, through the Tendermint client                  *)
(* (chains/tendermint.go:126), for those of IBC, without a deadline.  The    *)
(* first failure of a block ends its goroutine with an error, which it       *)
(* leaves in anyErr, a variable that all of them write without a lock.       *)
(*                                                                          *)
(* PacketTable takes the call as one step, Fetch.  This module shows what    *)
(* that step promises: the groups of all blocks, or an error.                *)
(***************************************************************************)
EXTENDS Integers, Sequences, SequencesExt, FiniteSets

CONSTANTS
  Blocks,     \* the range of the call
  Contents    \* the blocks' transactions, one of these functions on Blocks

ASSUME BlocksOK == IsFiniteSet(Blocks) /\ Blocks # {}

VARIABLES
  content,   \* [Blocks -> sequence of transactions]
  worker,    \* the goroutine of each block
  packets,   \* Packets, the result's array
  anyErr,    \* an interface: two words, written one after the other
  pending,   \* the WaitGroup's counter
  caller,    \* the job that called GetPackets
  dropped,   \* history: the queries for a transaction that failed
  failed     \* history: the blocks whose goroutine returned an error

vars == <<content, worker, packets, anyErr, pending, caller, dropped, failed>>

-----------------------------------------------------------------------------
(***************************************************************************)
(* A transaction is the sequence of its messages' logs, a log a sequence of   *)
(* events.  Only the first log is read.  An event's id tells it from others,  *)
(* its data what becomes of it:                                              *)
(*   transfer    it becomes a record                                         *)
(*   other       no transfer data, another port, or an unknown channel: it    *)
(*               is left out                                                 *)
(*   unparsable  not an event of its type                                    *)
(*   malformed   its packet, transfer data or acknowledgement cannot be       *)
(*               decoded                                                     *)
(*   badJson     the data of an IBC transfer is not JSON                      *)
(***************************************************************************)
Kinds == {"send", "ack", "receivedAck"}
Halves == {"xibc", "ibc"}
Events ==
  [id : Nat, half : Halves, kind : Kinds, code : {"ok", "fail"},
   data : {"transfer", "other", "unparsable", "malformed", "badJson"}]

EventsRead(tx) == IF tx = <<>> THEN <<>> ELSE Head(tx)

(* An event happens once. *)
ASSUME ContentsOK ==
  /\ Contents \subseteq [Blocks -> Seq(Seq(Seq(Events)))]
  /\ \A c \in Contents, h \in Blocks : \A i, j \in DOMAIN c[h] :
       \A k \in DOMAIN EventsRead(c[h][i]), l \in DOMAIN EventsRead(c[h][j]) :
         EventsRead(c[h][i])[k] = EventsRead(c[h][j])[l] => i = j /\ k = l

(* The events of a set, in their order. *)
Kept(events, set) ==
  LET kept[n \in 0 .. Len(events)] ==
        IF n = 0 THEN <<>>
        ELSE IF events[n] \in set THEN Append(kept[n - 1], events[n]) ELSE kept[n - 1]
  IN  kept[Len(events)]

EventsOf(tx, half, kind) ==
  Kept(EventsRead(tx), {e \in Events : e.half = half /\ e.kind = kind})

Has(events, data) == \E i \in DOMAIN events : events[i].data = data

(* getEventsVals: one event that cannot be parsed hides those of its type. *)
ParsedEvents(tx, half, kind) ==
  LET events == EventsOf(tx, half, kind)
  IN  IF half = "xibc" /\ Has(events, "unparsable") THEN <<>> ELSE events

(* Only the received acks of XIBC are known to be refunds. *)
BecomesRecord(e) ==
  /\ e.data = "transfer"
  /\ e.half = "xibc" /\ e.kind = "receivedAck" => e.code = "fail"

Records(tx, half) ==
  [kind \in Kinds |-> Kept(ParsedEvents(tx, half, kind), {e \in Events : BecomesRecord(e)})]

(* The panic comes before the acks are looked at, but after all sends are. *)
Panics(tx, half) ==
  LET sends == EventsOf(tx, half, "send")
  IN  half = "ibc" /\ Has(sends, "badJson") /\ ~Has(sends, "malformed")

Undecodable(tx, half) ==
  \E kind \in Kinds : Has(ParsedEvents(tx, half, kind), "malformed")

-----------------------------------------------------------------------------
NoGroup == [kind \in {} |-> <<>>]
EmptyGroup == [kind \in Kinds |-> <<>>]

NoError == [type |-> "nil", data |-> "nil"]

Start == [stage |-> "block", half |-> "xibc", tx |-> 1, expired |-> FALSE,
          err |-> "nil", group |-> EmptyGroup]
Finished == [Start EXCEPT !.stage = "done"]

Init ==
  /\ content \in Contents
  /\ worker = [h \in Blocks |-> Finished]
  /\ packets = [h \in Blocks |-> NoGroup]
  /\ anyErr = NoError
  /\ pending = 0
  /\ caller = "idle"
  /\ dropped = {} /\ failed = {}

(* The job calls, the first time or again after an error, a restart or a     *)
(* RevisedHeight.                                                            *)
Call ==
  /\ caller \in {"idle", "error", "groups"}
  /\ caller' = "waiting"
  /\ worker' = [h \in Blocks |-> Start]
  /\ packets' = [h \in Blocks |-> NoGroup]
  /\ anyErr' = NoError
  /\ pending' = Cardinality(Blocks)
  /\ dropped' = {} /\ failed' = {}
  /\ UNCHANGED content

Dies ==
  /\ caller' = "dead"
  /\ worker' = [h \in Blocks |-> Finished]
  /\ pending' = 0
  /\ UNCHANGED <<content, packets, anyErr, dropped, failed>>

Restart ==
  /\ caller = "dead"
  /\ caller' = "idle"
  /\ UNCHANGED <<content, worker, packets, anyErr, pending, dropped, failed>>

-----------------------------------------------------------------------------
(* A goroutine.  A query under an expired deadline can only fail. *)

At(h, stage) == worker[h].stage = stage
Expired(h) == worker[h].half = "xibc" /\ worker[h].expired
Txs(h) == content[h]
HasTx(h) == At(h, "tx") /\ worker[h].tx <= Len(Txs(h))

Moves(h, to) == worker' = [worker EXCEPT ![h] = to]

FailsWith(h, err) ==
  /\ Moves(h, [worker[h] EXCEPT !.stage = "error", !.err = err])
  /\ failed' = failed \cup {h}
  /\ UNCHANGED <<content, packets, anyErr, pending, caller, dropped>>

GetBlock(h) ==
  /\ At(h, "block") /\ ~Expired(h)
  /\ Moves(h, [worker[h] EXCEPT !.stage = "tx", !.tx = 1])
  /\ UNCHANGED <<content, packets, anyErr, pending, caller, dropped, failed>>

GetBlockFails(h) == At(h, "block") /\ FailsWith(h, "rpc")

(* Records are added to what the block's earlier transactions gave. *)
OnlyLastTx(group, records) == records
AddRecords(group, records) == [kind \in Kinds |-> group[kind] \o records[kind]]

GetTx(h) ==
  /\ HasTx(h) /\ ~Expired(h)
  /\ LET w == worker[h]
         tx == Txs(h)[w.tx]
     IN  \/ Panics(tx, w.half) /\ Dies
         \/ /\ ~Panics(tx, w.half) /\ Undecodable(tx, w.half)
            /\ FailsWith(h, "decode")
         \/ /\ ~Panics(tx, w.half) /\ ~Undecodable(tx, w.half)
            /\ Moves(h, [w EXCEPT !.tx = @ + 1,
                                  !.group = AddRecords(@, Records(tx, w.half))])
            /\ UNCHANGED <<content, packets, anyErr, pending, caller, dropped, failed>>

(* teleport.go:199: the transaction is passed over. *)
GetTxFails(h) ==
  /\ HasTx(h)
  /\ Moves(h, [worker[h] EXCEPT !.tx = @ + 1])
  /\ dropped' = dropped \cup {<<h, worker[h].half, worker[h].tx>>}
  /\ UNCHANGED <<content, packets, anyErr, pending, caller, failed>>

NeverExpires(h) == FALSE /\ UNCHANGED vars

Expire(h) ==
  /\ At(h, "block") \/ HasTx(h)
  /\ worker[h].half = "xibc" /\ ~worker[h].expired
  /\ Moves(h, [worker[h] EXCEPT !.expired = TRUE])
  /\ UNCHANGED <<content, packets, anyErr, pending, caller, dropped, failed>>

(* The XIBC half is followed by the IBC half, which queries the block anew. *)
EndHalf(h) ==
  /\ At(h, "tx") /\ ~HasTx(h)
  /\ Moves(h, IF worker[h].half = "xibc"
              THEN [worker[h] EXCEPT !.stage = "block", !.half = "ibc"]
              ELSE [worker[h] EXCEPT !.stage = "store"])
  /\ UNCHANGED <<content, packets, anyErr, pending, caller, dropped, failed>>

(* Under the mutex. *)
StoreResetsError(h) ==
  /\ At(h, "store")
  /\ packets' = [packets EXCEPT ![h] = worker[h].group]
  /\ anyErr' = NoError
  /\ Moves(h, [worker[h] EXCEPT !.stage = "leaving"])
  /\ UNCHANGED <<content, pending, caller, dropped, failed>>

Store(h) ==
  /\ At(h, "store")
  /\ packets' = [packets EXCEPT ![h] = worker[h].group]
  /\ Moves(h, [worker[h] EXCEPT !.stage = "leaving"])
  /\ UNCHANGED <<content, anyErr, pending, caller, dropped, failed>>

(* anyErr = err, a word at a time, in either order. *)
WriteWord(h, word, stage) ==
  /\ anyErr' = [anyErr EXCEPT ![word] = worker[h].err]
  /\ Moves(h, [worker[h] EXCEPT !.stage = stage])
  /\ UNCHANGED <<content, packets, pending, caller, dropped, failed>>

SetAnyErr(h) ==
  \/ At(h, "error") /\ (WriteWord(h, "type", "data") \/ WriteWord(h, "data", "type"))
  \/ At(h, "data") /\ WriteWord(h, "data", "leaving")
  \/ At(h, "type") /\ WriteWord(h, "type", "leaving")

(* wg.Done, deferred. *)
Leave(h) ==
  /\ At(h, "leaving")
  /\ Moves(h, Finished)
  /\ pending' = pending - 1
  /\ UNCHANGED <<content, packets, anyErr, caller, dropped, failed>>

-----------------------------------------------------------------------------
(* wg.Wait has returned.  Only the type word tells whether there is an error *)
(* (teleport.go:166); an error of two goroutines' words cannot be trusted:   *)
(* the job, which prints it, may do so or die of it.                         *)
Return ==
  /\ caller = "waiting" /\ pending = 0
  /\ caller' = IF anyErr.type = "nil" THEN "groups" ELSE "error"
  /\ UNCHANGED <<content, worker, packets, anyErr, pending, dropped, failed>>

TornErrorKills ==
  /\ caller = "waiting" /\ pending = 0
  /\ anyErr.type # anyErr.data
  /\ Dies

Goroutine(h) ==
  \/ GetBlock(h) \/ GetBlockFails(h)
  \/ GetTx(h) \/ GetTxFails(h) \/ Expire(h)
  \/ EndHalf(h) \/ Store(h) \/ SetAnyErr(h) \/ Leave(h)

Next ==
  \/ Call \/ Return \/ TornErrorKills \/ Restart
  \/ \E h \in Blocks : Goroutine(h)

Spec == Init /\ [][Next]_vars

(***************************************************************************)
(* The goroutines run.  The node need not answer the queries of the XIBC      *)
(* half: their deadline passes, and then they fail.  The queries of the IBC   *)
(* half have no deadline (tendermint.go:130): that the node answers them, or  *)
(* closes the connection, is an assumption about the node.                    *)
(***************************************************************************)
Runs(h) ==
  \/ Expire(h)
  \/ Expired(h) /\ (GetBlockFails(h) \/ GetTxFails(h))
  \/ EndHalf(h) \/ Store(h) \/ SetAnyErr(h) \/ Leave(h)

NodeAnswers(h) ==
  worker[h].half = "ibc" /\ (GetBlock(h) \/ GetBlockFails(h) \/ GetTx(h) \/ GetTxFails(h))

FairSpec ==
  /\ Spec
  /\ WF_vars(Return \/ TornErrorKills)
  /\ \A h \in Blocks : WF_vars(Runs(h)) /\ WF_vars(NodeAnswers(h))

-----------------------------------------------------------------------------
(* Properties *)

(* The packets of block h that no failing query and no event that cannot be  *)
(* parsed keeps from being read: those of its i-th transaction, and all.     *)
WantedOf(h, i, kind) ==
  LET events == EventsRead(Txs(h)[i])
  IN  {events[j] : j \in {j \in DOMAIN events :
         /\ events[j].kind = kind /\ BecomesRecord(events[j])
         /\ <<h, events[j].half, i>> \notin dropped
         /\ events[j].half = "xibc" =>
              ~\E k \in DOMAIN events :
                 /\ events[k].half = "xibc" /\ events[k].kind = kind
                 /\ events[k].data = "unparsable"}}

Wanted(h, kind) == UNION {WantedOf(h, i, kind) : i \in DOMAIN Txs(h)}

(***************************************************************************)
(* What GetPackets returns without an error is complete: a group for every    *)
(* block of the range, in the block's place, with each packet of the block    *)
(* once; saveCrossChainPacketsByHeight dereferences every group               *)
(* (packet.go:172).  What is missing was dropped by a transaction's query.    *)
(***************************************************************************)
AllBlocksOrError ==
  caller = "groups" =>
    \A h \in Blocks :
      /\ packets[h] # NoGroup
      /\ \A kind \in Kinds :
           /\ ToSet(packets[h][kind]) = Wanted(h, kind)
           /\ Len(packets[h][kind]) = Cardinality(Wanted(h, kind))

(***************************************************************************)
(* GetPackets returns an error exactly when some block failed, although the   *)
(* goroutines race for anyErr (teleport.go:157): otherwise the cursor would   *)
(* move over a block that was not read, or stay before one that was.          *)
(***************************************************************************)
ErrorIffFailed ==
  /\ caller = "groups" => failed = {}
  /\ caller = "error" => failed # {}

(***************************************************************************)
(* A call ends, with a result or with the process, even if the node never     *)
(* answers an XIBC query: the deadline of teleport.go:181 does its work, and   *)
(* no goroutine leaves the WaitGroup without Done.                            *)
(***************************************************************************)
CallEnds == caller = "waiting" ~> caller # "waiting"

=============================================================================
