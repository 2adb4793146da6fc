------------------------------ MODULE Service ------------------------------
(***************************************************************************)
(* The start of the process and its reference data: the lists of chains,     *)
(* tokens and bridges that LoadState asks a repository for, once before        *)
(* anything else (jobs.go:25) and then every ReloadPeriod (datas.go:65).       *)
(*                                                                          *)
(* A load makes four requests, one after the other, builds four values from   *)
(* the answers and assigns them to four package variables without a lock.     *)
(* The start goes on meanwhile: it connects to the chains, builds the bridges *)
(* manager from one of the variables and starts the jobs, one of which fills  *)
(* the bridge metrics from two of them.                                      *)
(*                                                                          *)
(* A token is its name, and of its address only counts whether the token list *)
(* has one.  The order of a list does not matter.                            *)
(***************************************************************************)
EXTENDS Integers, Sequences, FiniteSets

CONSTANTS
  Chains,            \* chain ids
  Cosmos,            \* those of the cosmos list
  TeleEvm, TeleIbc,  \* Teleport's own, one in each chain list
  NoChain,           \* the zero EvmChain
  Names, Tokens,
  Name,              \* [Chains -> Names]
  Configured,        \* the chain ids of the configuration
  ChainMap,          \* [Names -> Chains]: its chain id under that name
  Upstream,          \* the versions of the lists, as they are published
  Loaders,           \* loads that may run at a time
  MaxFailures        \* bound: requests, answers and calls that fail

Pairs == Chains \X Chains

(* The order of the requests. *)
TokensFirst == <<"tokens", "evm", "cosmos", "bridges">>
Documents == <<"bridges", "evm", "cosmos", "tokens">>

Lists == [bridges : SUBSET (Pairs \X Tokens), chains : SUBSET Chains,
          tokens : SUBSET (Chains \X Tokens)]

(* Every version has the chains and tokens that its bridges name, and what is  *)
(* published stays published.                                                *)
ASSUME UpstreamOK ==
  /\ Cosmos \subseteq Chains /\ Configured \subseteq Chains
  /\ TeleEvm \in Chains /\ TeleIbc \in Cosmos /\ NoChain \notin Chains
  /\ Name \in [Chains -> Names] /\ ChainMap \in [Names -> Chains]
  /\ Len(Upstream) > 0
  /\ Upstream \in Seq(Lists)
  /\ \A v \in DOMAIN Upstream : \A b \in Upstream[v].bridges :
       /\ b[1][1] \in Upstream[v].chains /\ b[1][2] \in Upstream[v].chains
       /\ <<b[1][1], b[2]>> \in Upstream[v].tokens
       /\ <<b[1][2], b[2]>> \in Upstream[v].tokens
  /\ \A v, w \in DOMAIN Upstream : v <= w =>
       /\ Upstream[v].bridges \subseteq Upstream[w].bridges
       /\ Upstream[v].chains \subseteq Upstream[w].chains
       /\ Upstream[v].tokens \subseteq Upstream[w].tokens

VARIABLES
  version,                      \* what the repository publishes now
  ChainList, CounterpartyChains, Bridges, BridgeNameAdjList,
  load,                         \* the loads under way
  phase,                        \* how far NewPacketService and Run have come
  manager,                      \* the names the bridges manager can give
  fill,                         \* InitSingleDirectionBridgeMetrics and its rows
  bare,                         \* history: a load had a document without bridges
  failures

lists == <<ChainList, CounterpartyChains, Bridges, BridgeNameAdjList>>
vars == <<version, bare, lists, load, phase, manager, fill, failures>>

-----------------------------------------------------------------------------
(* What a load makes of its four answers *)

(* "partial": an entry lacks a required field; "none": the list is missing. *)
Answer == [version : DOMAIN Upstream, body : {"whole", "partial", "none"}]

Of(d, document) == d[CHOOSE i \in DOMAIN Documents : Documents[i] = document]

(* checkRequired panics; the other documents' UnmarshalJSON returns an error,  *)
(* but a cosmos document without chains, or bridges, is taken as it is.        *)
Panics(d) == Of(d, "bridges").body = "partial"
EvmRefused(d) == Of(d, "evm").body # "whole"
CosmosRefused(d) == Of(d, "cosmos").body = "partial"
TokensRefused(d) == Of(d, "tokens").body # "whole"
RefusedButEvm(d) == CosmosRefused(d) \/ TokensRefused(d)
Refused(d) == EvmRefused(d) \/ CosmosRefused(d) \/ TokensRefused(d)

(* What an answer holds; one without its list, if it is not refused, is empty. *)
Held(answer, list) == IF answer.body = "none" THEN {} ELSE list
Listed(d) ==
  LET answer == Of(d, "bridges") IN Held(answer, Upstream[answer.version].bridges)
IdsIn(answer) == Held(answer, Upstream[answer.version].chains)
NewChainList(d) == (IdsIn(Of(d, "evm")) \ Cosmos) \cup (IdsIn(Of(d, "cosmos")) \cap Cosmos)

HasAddress(d, chain, token) == <<chain, token>> \in Upstream[Of(d, "tokens").version].tokens

Token(d, pair, token) ==
  [pair |-> pair, name |-> token,
   src |-> HasAddress(d, pair[1], token), dest |-> HasAddress(d, pair[2], token)]

(* A bridge is entered in both directions, if its two chains are listed. *)
NewBridges(d) ==
  UNION {{Token(d, b[1], b[2]), Token(d, <<b[1][2], b[1][1]>>, b[2])} :
           b \in {b \in Listed(d) : {b[1][1], b[1][2]} \subseteq NewChainList(d)}}

NewAdjList(d) == {<<Name[b[1][1]], Name[b[1][2]]>> : b \in Listed(d)}

(* Teleport's bridges are listed under its EVM id too, and the cosmos chains   *)
(* are given its EVM chain for its cosmos one.                                *)
NewCounterparties(d) ==
  LET pairs == {t.pair : t \in NewBridges(d)}
      all == pairs \cup {<<TeleEvm, p[2]>> : p \in {p \in pairs : p[1] = TeleIbc}}
      evm == IF TeleEvm \in NewChainList(d) THEN TeleEvm ELSE NoChain
  IN  {IF p[1] \in Cosmos \ {TeleIbc} /\ p[2] = TeleIbc THEN <<p[1], evm>> ELSE p :
         p \in all}

-----------------------------------------------------------------------------
NotLoading == [stage |-> "idle", docs |-> <<>>]
AtLoad(l, stage) == load[l].stage = stage
ToStage(l, stage) == load' = [load EXCEPT ![l].stage = stage]

NotFilled == [stage |-> "none", todo |-> {}, rows |-> {}]

Init ==
  /\ version = 1
  /\ ChainList = {} /\ CounterpartyChains = {}
  /\ Bridges = {} /\ BridgeNameAdjList = {}
  /\ load = [l \in Loaders |-> NotLoading]
  /\ phase = "loading"
  /\ manager = {}
  /\ fill = NotFilled
  /\ bare = FALSE
  /\ failures = 0

Publish ==
  /\ version < Len(Upstream)
  /\ version' = version + 1
  /\ UNCHANGED <<bare, lists, load, phase, manager, fill, failures>>

MayFail == failures < MaxFailures /\ failures' = failures + 1

(* The process ends; what the metrics' transaction has not committed is lost. *)
Dies ==
  /\ phase' = "dead"
  /\ load' = [l \in Loaders |-> NotLoading]
  /\ fill' = IF fill.stage = "filling" THEN NotFilled ELSE fill
  /\ ChainList' = {} /\ CounterpartyChains' = {}
  /\ Bridges' = {} /\ BridgeNameAdjList' = {}
  /\ manager' = {}

Restart ==
  /\ phase = "dead"
  /\ phase' = "loading"
  /\ UNCHANGED <<version, bare, lists, load, manager, fill, failures>>

(* The first load is alone; later ones are started by the reload scheduler. *)
BeginLoad(l) ==
  /\ AtLoad(l, "idle")
  /\ phase # "dead"
  /\ phase = "loading" => \A k \in Loaders : AtLoad(k, "idle")
  /\ ToStage(l, "asking")
  /\ UNCHANGED <<version, bare, lists, phase, manager, fill, failures>>

(* syncDatas: the answer is the list as it is published at that moment. *)
Get(l, body) ==
  /\ AtLoad(l, "asking") /\ Len(load[l].docs) < Len(Documents)
  /\ load' = [load EXCEPT ![l].docs =
                Append(@, [version |-> version, body |-> body])]
  /\ UNCHANGED <<version, bare, lists, phase, manager, fill>>

GetWhole(l) == Get(l, "whole") /\ UNCHANGED failures
GetPartial(l) == Get(l, "partial") /\ MayFail
GetNone(l) == Get(l, "none") /\ MayFail

LoadFailsEmptied(l) ==
  /\ load' = [load EXCEPT ![l] = NotLoading]
  /\ Bridges' = {}
  /\ UNCHANGED <<version, bare, ChainList, CounterpartyChains, BridgeNameAdjList, phase,
                 manager, fill>>

LoadFailsParsesAgain(l) == UNCHANGED <<version, bare, lists, load, phase, manager, fill>>

(* Without a first load the start panics; a reload that fails is logged, one   *)
(* that panics is recovered, and the variables stay as they are.              *)
LoadFails(l) ==
  IF phase = "loading" THEN Dies /\ UNCHANGED <<version, bare>>
  ELSE /\ load' = [load EXCEPT ![l] = NotLoading]
       /\ UNCHANGED <<version, bare, lists, phase, manager, fill>>

RequestFailsIgnored(l) ==
  /\ AtLoad(l, "asking") /\ Len(load[l].docs) < Len(Documents)
  /\ MayFail
  /\ load' = [load EXCEPT ![l].docs = Append(@, [version |-> version, body |-> "error"])]
  /\ UNCHANGED <<version, bare, lists, phase, manager, fill>>

RequestFails(l) ==
  /\ AtLoad(l, "asking") /\ Len(load[l].docs) < Len(Documents)
  /\ MayFail
  /\ LoadFails(l)

Refuse(l) ==
  /\ AtLoad(l, "asking") /\ Len(load[l].docs) = Len(Documents)
  /\ Panics(load[l].docs) \/ Refused(load[l].docs)
  /\ LoadFails(l)
  /\ UNCHANGED failures

(* The assignments at the end of LoadState, one by one. *)
SetChainList(l) ==
  /\ AtLoad(l, "asking") /\ Len(load[l].docs) = Len(Documents)
  /\ ~Panics(load[l].docs) /\ ~Refused(load[l].docs)
  /\ ChainList' = NewChainList(load[l].docs)
  /\ bare' = (bare \/ Of(load[l].docs, "bridges").body = "none")
  /\ ToStage(l, "counterparties")
  /\ UNCHANGED <<version, CounterpartyChains, Bridges, BridgeNameAdjList, phase, manager,
                 fill, failures>>

SetCounterpartiesAndNames(l) ==
  /\ AtLoad(l, "counterparties")
  /\ CounterpartyChains' = NewCounterparties(load[l].docs)
  /\ BridgeNameAdjList' = NewAdjList(load[l].docs)
  /\ ToStage(l, "bridges")
  /\ UNCHANGED <<version, bare, ChainList, Bridges, phase, manager, fill, failures>>

SetCounterparties(l) ==
  /\ AtLoad(l, "counterparties")
  /\ CounterpartyChains' = NewCounterparties(load[l].docs)
  /\ ToStage(l, "bridges")
  /\ UNCHANGED <<version, bare, ChainList, Bridges, BridgeNameAdjList, phase, manager, fill,
                 failures>>

SetBridges(l) ==
  /\ AtLoad(l, "bridges")
  /\ Bridges' = NewBridges(load[l].docs)
  /\ ToStage(l, "adjacency")
  /\ UNCHANGED <<version, bare, ChainList, CounterpartyChains, BridgeNameAdjList, phase,
                 manager, fill, failures>>

SetAdjList(l) ==
  /\ AtLoad(l, "adjacency")
  /\ BridgeNameAdjList' = NewAdjList(load[l].docs)
  /\ load' = [load EXCEPT ![l] = NotLoading]
  /\ phase' = IF phase = "loading" THEN "connecting" ELSE phase
  /\ UNCHANGED <<version, bare, ChainList, CounterpartyChains, Bridges, manager, fill,
                 failures>>

Load(l) ==
  \/ BeginLoad(l) \/ GetWhole(l) \/ Refuse(l)
  \/ SetChainList(l) \/ SetCounterparties(l) \/ SetBridges(l) \/ SetAdjList(l)

LoadFault(l) == GetPartial(l) \/ GetNone(l) \/ RequestFails(l)

-----------------------------------------------------------------------------
(* The rest of the start: the clients, the bridges manager, the jobs *)

Connect ==
  /\ phase = "connecting"
  /\ phase' = "assembling"
  /\ UNCHANGED <<version, bare, lists, load, manager, fill, failures>>

(* NewBridge: the tokens of Teleport's bridges between configured chains. *)
Managed ==
  {t \in Bridges : /\ {t.pair[1], t.pair[2]} \subseteq Configured
                   /\ {t.pair[1], t.pair[2]} \cap {TeleEvm, TeleIbc} # {}}

(* NewTokenQuery takes an EVM token without an address for a cosmos one, and   *)
(* panics because the chain is not.                                          *)
Unqueryable ==
  \E t \in Managed : \/ ~t.src /\ t.pair[1] \notin Cosmos
                     \/ ~t.dest /\ t.pair[2] \notin Cosmos

Assemble ==
  /\ phase = "assembling" /\ ~Unqueryable
  /\ manager' = UNION {{<<t.pair[1], t.name>>, <<t.pair[2], t.name>>} : t \in Managed}
  /\ phase' = "running"
  /\ UNCHANGED <<version, bare, lists, load, fill, failures>>

(* A chain's client, or the database, cannot be had. *)
ClientFails ==
  /\ phase = "connecting"
  /\ MayFail
  /\ Dies
  /\ UNCHANGED <<version, bare>>

(* The decimals of a token cannot be had, or it cannot be asked for them. *)
ManagerFails ==
  /\ phase = "assembling"
  /\ IF Unqueryable THEN UNCHANGED failures ELSE MayFail
  /\ Dies
  /\ UNCHANGED <<version, bare>>

-----------------------------------------------------------------------------
(* The job that finds no bridge metrics (packet.go:682) *)

Reversed(pair) == <<pair[2], pair[1]>>

TakeAdjList ==
  /\ phase = "running" /\ fill.stage = "none"
  /\ fill' = [stage |-> "filling", rows |-> {},
              todo |-> BridgeNameAdjList \cup {Reversed(n) : n \in BridgeNameAdjList}]
  /\ UNCHANGED <<version, bare, lists, load, phase, manager, failures>>

BridgeKey(names) == <<ChainMap[names[1]], ChainMap[names[2]]>>

FillDirection ==
  /\ fill.stage = "filling"
  /\ \E names \in fill.todo :
       LET found == {t \in Bridges : t.pair = BridgeKey(names)}
       IN  fill' = [fill EXCEPT !.todo = @ \ {names},
                                !.rows = @ \cup {<<names, {t.name : t \in found}>>}]
  /\ UNCHANGED <<version, bare, lists, load, phase, manager, failures>>

(* With no row the metrics are still empty. *)
CommitFill ==
  /\ fill.stage = "filling" /\ fill.todo = {}
  /\ fill' = IF fill.rows = {} THEN NotFilled ELSE [fill EXCEPT !.stage = "filled"]
  /\ UNCHANGED <<version, bare, lists, load, phase, manager, failures>>

FillFails ==
  /\ fill.stage = "filling"
  /\ MayFail
  /\ fill' = NotFilled
  /\ UNCHANGED <<version, bare, lists, load, phase, manager>>

-----------------------------------------------------------------------------
Next ==
  \/ Publish \/ Restart
  \/ \E l \in Loaders : Load(l) \/ LoadFault(l)
  \/ Connect \/ Assemble \/ ClientFails \/ ManagerFails
  \/ TakeAdjList \/ FillDirection \/ CommitFill \/ FillFails

Spec == Init /\ [][Next]_vars

(* The reload scheduler keeps starting loads, and a request ends in 45 s. *)
FairSpec == Spec /\ \A l \in Loaders : WF_vars(Load(l))

-----------------------------------------------------------------------------
(* Properties *)

BridgeToken == [pair : Pairs, name : Tokens, src : BOOLEAN, dest : BOOLEAN]
LoadStages == {"idle", "asking", "counterparties", "bridges", "adjacency"}

TypeOK ==
  /\ version \in DOMAIN Upstream
  /\ ChainList \subseteq Chains
  /\ CounterpartyChains \subseteq Chains \X (Chains \cup {NoChain})
  /\ Bridges \subseteq BridgeToken
  /\ BridgeNameAdjList \subseteq Names \X Names
  /\ load \in [Loaders -> [stage : LoadStages, docs : Seq(Answer)]]
  /\ \A l \in Loaders : Len(load[l].docs) <= Len(Documents)
  /\ phase \in {"loading", "connecting", "assembling", "running", "dead"}
  /\ manager \subseteq Chains \X Tokens
  /\ fill \in [stage : {"none", "filling", "filled"}, todo : SUBSET (Names \X Names),
               rows : SUBSET ((Names \X Names) \X SUBSET Tokens)]
  /\ bare \in BOOLEAN /\ failures \in Nat

(***************************************************************************)
(* A token of a bridge always has its two addresses, although the lists may   *)
(* change between two of a load's requests: the bridges are asked for before   *)
(* the tokens they name (sync.go:19-36).  A token without one kills the start. *)
(***************************************************************************)
TokensHaveAddresses == \A t \in Bridges : t.src /\ t.dest

Xibc(pair) == {pair[1], pair[2]} \cap Cosmos = {}
ListedPairs(v) == {b[1] : b \in Upstream[v].bridges}

(***************************************************************************)
(* A direction whose chains are configured is never filled without its tokens *)
(* (packet.go:733), although its name and its tokens are read from variables   *)
(* that a load replaces one after the other: names are published last          *)
(* (datas.go:229-232).  For loads that do not overlap, and as long as none     *)
(* had a bridge document without bridges (types/bridges.go:135).               *)
(***************************************************************************)
FilledWithTokens ==
  ~bare =>
    \A r \in fill.rows :
      LET pair == BridgeKey(r[1])
      IN  Xibc(pair) /\ {pair, Reversed(pair)} \cap ListedPairs(version) # {} => r[2] # {}

Offered == {<<t.pair, t.name>> : t \in Bridges}

(* A load about to replace the bridges was answered without the list of the   *)
(* bridges, or of the chains of this one: only an EVM list is required.       *)
LacksListOf(l, pair) ==
  /\ AtLoad(l, "bridges")
  /\ \/ Of(load[l].docs, "bridges").body = "none"
     \/ ~Xibc(pair) /\ Of(load[l].docs, "cosmos").body = "none"

(***************************************************************************)
(* What is published stays published, so a reload takes no token of a bridge  *)
(* away, whatever it is answered and wherever it fails.  The exceptions are    *)
(* the two lists whose absence LoadState does not notice: a document without   *)
(* bridges takes all bridges away (types/bridges.go:135), a cosmos document     *)
(* without chains those between cosmos chains.                                *)
(***************************************************************************)
BridgesStay ==
  [][phase' # "dead" =>
       \A x \in Offered \ Offered' : \E l \in Loaders : LacksListOf(l, x[1])]_vars

(***************************************************************************)
(* The manager is built once from the lists of the start (jobs.go:86): what it *)
(* names between EVM chains remains on offer through every reload, as long as  *)
(* none had a bridge document without bridges; what is listed later it does    *)
(* not name.                                                                 *)
(***************************************************************************)
ManagedIsOffered ==
  ~bare =>
    \A n \in manager : n[1] \in Cosmos \/ \E t \in Bridges : t.pair[1] = n[1] /\ t.name = n[2]

(***************************************************************************)
(* While the service runs, each published bridge between EVM chains is in the  *)
(* lists after a while, because the scheduler goes on after errors and panics. *)
(***************************************************************************)
Covers(v) == \A b \in Upstream[v].bridges : Xibc(b[1]) => b \in Offered
CatchesUp ==
  \A v \in DOMAIN Upstream : (phase = "running" /\ version = v) ~> Covers(v)

=============================================================================
