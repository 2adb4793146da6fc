-------------------------- MODULE MCBridgeMetrics --------------------------
(* BridgeMetrics for TLC: Teleport, one EVM chain and the bridge between them. *)
EXTENDS BridgeMetrics

CONSTANTS teleport, bsc,   \* the chains
          in, out          \* a packet from bsc to teleport, and one back

MCSrc == [p \in Packets |-> IF p = out THEN teleport ELSE bsc]
MCDst == [p \in Packets |-> IF p = out THEN bsc ELSE teleport]
MCAdjList == {<<bsc, teleport>>}
=============================================================================
