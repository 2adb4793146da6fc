--------------------------- MODULE MCPacketTable ---------------------------
(* PacketTable for TLC: Teleport and one EVM chain, with packets both ways. *)
EXTENDS PacketTable

CONSTANTS teleport, bsc,   \* the chains
          in, out          \* a packet from bsc to teleport, and one back

MCSrc == [p \in Packets |-> IF p = out THEN teleport ELSE bsc]
MCDst == [p \in Packets |-> IF p = out THEN bsc ELSE teleport]
=============================================================================
