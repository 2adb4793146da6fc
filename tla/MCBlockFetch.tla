---------------------------- MODULE MCBlockFetch ----------------------------
(* Two blocks, each with one of six contents. *)
EXTENDS BlockFetch

E(id, half, kind, data) ==
  [id |-> id, half |-> half, kind |-> kind, data |-> data, code |-> "fail"]
Ok(e) == [e EXCEPT !.code = "ok"]

TwoSends == << <<E(1, "xibc", "send", "transfer"), E(2, "xibc", "ack", "transfer"),
                 E(3, "xibc", "send", "transfer")>> >>
Mixed == << <<E(4, "ibc", "send", "transfer"), E(5, "ibc", "send", "other"),
              E(6, "xibc", "send", "transfer")>>,
            <<E(7, "xibc", "send", "transfer")>> >>
Hidden == << <<E(8, "xibc", "send", "unparsable"), E(9, "xibc", "send", "malformed"),
               E(10, "xibc", "ack", "transfer")>> >>
Acks == << <<Ok(E(11, "xibc", "receivedAck", "transfer")),
             E(12, "xibc", "receivedAck", "transfer"),
             Ok(E(13, "ibc", "receivedAck", "transfer"))>> >>
NoLogs == <<>>
Malformed == << <<E(14, "xibc", "ack", "malformed")>> >>
BadAck == << <<E(15, "ibc", "ack", "malformed")>> >>
BadJson == << <<E(16, "ibc", "send", "badJson")>> >>

MCBlocks == {1, 2}
MCContents ==
  [MCBlocks -> {<<TwoSends, Mixed>>, <<Hidden, Acks>>, <<NoLogs>>,
                <<Malformed>>, <<BadAck>>, <<BadJson>>}]

=============================================================================
