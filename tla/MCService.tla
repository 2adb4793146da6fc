----------------------------- MODULE MCService -----------------------------
(* Teleport, two EVM chains and a cosmos chain.  The first version of the      *)
(* lists has a bridge of each kind; the second brings a token for the first     *)
(* EVM chain, and the second EVM chain with its bridge.                        *)
EXTENDS Service, TLC

CONSTANTS tevm, tibc, bsc, rinkeby, atom, usdt, eth

MCName == tevm :> "teleport" @@ tibc :> "teleport" @@ bsc :> "bsc" @@
          rinkeby :> "rinkeby" @@ atom :> "cosmoshub"
MCNames == {"teleport", "bsc", "rinkeby", "cosmoshub"}
MCChainMap == "teleport" :> tevm @@ "bsc" :> bsc @@ "rinkeby" :> rinkeby @@
              "cosmoshub" :> atom

First == {<<<<bsc, tevm>>, usdt>>, <<<<atom, tibc>>, usdt>>}
Second == First \cup {<<<<bsc, tevm>>, eth>>, <<<<rinkeby, tevm>>, eth>>}
Published(bridges) ==
  [bridges |-> bridges,
   chains |-> UNION {{b[1][1], b[1][2], tevm} : b \in bridges},
   tokens |-> UNION {{<<b[1][1], b[2]>>, <<b[1][2], b[2]>>} : b \in bridges}]
MCUpstream == <<Published(First), Published(Second)>>
=============================================================================
