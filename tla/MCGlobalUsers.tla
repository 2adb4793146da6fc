--------------------------- MODULE MCGlobalUsers ---------------------------
(* Two packets, one each way between Teleport and an EVM chain; the one from  *)
(* Teleport is refunded.  Their senders differ.                              *)
EXTENDS GlobalUsers, TLC

CONSTANTS tele, evm, out, in, u1, u2

MCSender == out :> u1 @@ in :> u2
Ev(p, kind) == [pkt |-> p, kind |-> kind]
MCLog ==
  [j \in {tele, evm} |->
    IF j = tele THEN <<Ev(out, "send"), Ev(in, "ack"), Ev(out, "refund")>>
    ELSE <<Ev(in, "send"), Ev(out, "ack")>>]
=============================================================================
