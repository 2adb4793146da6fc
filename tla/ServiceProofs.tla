--------------------------- MODULE ServiceProofs ---------------------------
(*****************************************************************************)
(* Proofs about Service, for any lists and any faults.                       *)
(*                                                                           *)
(* TokensHaveAddresses holds for any number of loads at a time.  What makes  *)
(* it inductive is the order of a load's answers: each is of the same        *)
(* version as the one before it, or of a later one (InOrder).                *)
(*                                                                           *)
(* BridgesStay, ManagedIsOffered and FilledWithTokens are about what a load  *)
(* may take away.  They need loads that follow each other (LoadsApart).      *)
(* Offering follows the tokens on offer from one load to the next,    *)
(* Managing those that the bridges manager names, and Naming the names that  *)
(* a job has taken in order to fill the metrics.                             *)
(*****************************************************************************)
EXTENDS Service, TLAPS

(* The answers of a load are of versions that do not go back. *)
InOrder(d) ==
  /\ \A i \in 1 .. Len(d) : d[i].version <= version
  /\ \A i, j \in 1 .. Len(d) : i <= j => d[i].version <= d[j].version

(* A load that publishes has its four answers. *)
LoadFits(l) ==
  /\ InOrder(load[l].docs)
  /\ load[l].stage \in {"counterparties", "bridges", "adjacency"} =>
       Len(load[l].docs) = Len(Documents)

Inv == TypeOK /\ TokensHaveAddresses /\ \A l \in Loaders : LoadFits(l)

(* Where an answer is among the four. *)
LEMMA Positions ==
  ASSUME NEW d
  PROVE  /\ Of(d, "bridges") = d[1] /\ Of(d, "evm") = d[2]
         /\ Of(d, "cosmos") = d[3] /\ Of(d, "tokens") = d[4]
         /\ Len(Documents) = 4
<1>1. DOMAIN Documents = 1 .. 4 /\ Len(Documents) = 4
  <2>1. Documents = <<"bridges", "evm", "cosmos", "tokens">>
    BY DEF Documents
  <2>2. Len(Documents) = 4
    BY <2>1
  <2>3. Documents \in [1 .. 4 -> {"bridges", "evm", "cosmos", "tokens"}]
    BY <2>1
  <2> QED
    BY <2>2, <2>3
<1>2. /\ Documents[1] = "bridges" /\ Documents[2] = "evm"
      /\ Documents[3] = "cosmos" /\ Documents[4] = "tokens"
  BY DEF Documents
<1>3. \A i \in DOMAIN Documents : i = 1 \/ i = 2 \/ i = 3 \/ i = 4
  BY <1>1
<1>4. (CHOOSE i \in DOMAIN Documents : Documents[i] = "bridges") = 1
  BY <1>1, <1>2, <1>3
<1>5. (CHOOSE i \in DOMAIN Documents : Documents[i] = "evm") = 2
  BY <1>1, <1>2, <1>3
<1>6. (CHOOSE i \in DOMAIN Documents : Documents[i] = "cosmos") = 3
  BY <1>1, <1>2, <1>3
<1>7. (CHOOSE i \in DOMAIN Documents : Documents[i] = "tokens") = 4
  BY <1>1, <1>2, <1>3
<1> QED
  BY <1>1, <1>4, <1>5, <1>6, <1>7 DEF Of

(* What a load takes for the list of bridges is bridges of one version. *)
LEMMA ListedPublished ==
  ASSUME NEW d \in Seq(Answer), Len(d) = Len(Documents)
  PROVE  /\ d[1] \in Answer /\ d[2] \in Answer /\ d[3] \in Answer /\ d[4] \in Answer
         /\ Listed(d) \subseteq Upstream[d[1].version].bridges
<1>1. Len(d) = 4
  BY Positions
<1>2. d[1] \in Answer /\ d[2] \in Answer /\ d[3] \in Answer /\ d[4] \in Answer
  <2>1. \A i \in 1 .. Len(d) : d[i] \in Answer
    OBVIOUS
  <2> QED
    BY <1>1, <2>1
<1>3. Listed(d) \subseteq Upstream[d[1].version].bridges
  BY Positions DEF Listed, Held
<1> QED
  BY <1>2, <1>3

(* A version of the lists. *)
LEMMA Version ==
  ASSUME NEW v \in DOMAIN Upstream
  PROVE  /\ Upstream[v].bridges \subseteq Pairs \X Tokens
         /\ Upstream[v].chains \subseteq Chains
<1>1. Upstream \in Seq(Lists)
  BY UpstreamOK
<1>2. Upstream[v] \in Lists
  BY <1>1
<1> QED
  BY <1>2 DEF Lists

(* Both entries of a bridge are bridges' tokens, and have their addresses when *)
(* the bridges were asked for before the tokens.                              *)
LEMMA EntriesFit ==
  ASSUME NEW d \in Seq(Answer), Len(d) = Len(Documents)
  PROVE  /\ NewBridges(d) \subseteq BridgeToken
         /\ d[1].version <= d[4].version => \A t \in NewBridges(d) : t.src /\ t.dest
<1>1. d[1].version \in DOMAIN Upstream /\ d[4].version \in DOMAIN Upstream
  BY ListedPublished DEF Answer
<1>2. ASSUME NEW t \in NewBridges(d)
      PROVE  /\ t \in BridgeToken
             /\ d[1].version <= d[4].version => t.src /\ t.dest
  <2>1. PICK b \in Listed(d) :
          t \in {Token(d, b[1], b[2]), Token(d, <<b[1][2], b[1][1]>>, b[2])}
    BY <1>2 DEF NewBridges
  <2>2. b \in Upstream[d[1].version].bridges
    BY <2>1, ListedPublished
  <2>3. b \in Pairs \X Tokens
    BY <1>1, <2>2, Version
  <2>4. b[1] \in Pairs /\ b[2] \in Tokens /\ b[1][1] \in Chains /\ b[1][2] \in Chains
    BY <2>3 DEF Pairs
  <2>5. <<b[1][2], b[1][1]>> \in Pairs
    BY <2>4 DEF Pairs
  <2>6. t \in BridgeToken
    <3>1. CASE t = Token(d, b[1], b[2])
      BY <2>4, <3>1 DEF Token, HasAddress, BridgeToken
    <3>2. CASE t = Token(d, <<b[1][2], b[1][1]>>, b[2])
      BY <2>4, <2>5, <3>2 DEF Token, HasAddress, BridgeToken
    <3> QED
      BY <2>1, <3>1, <3>2
  <2>7. ASSUME d[1].version <= d[4].version
        PROVE  t.src /\ t.dest
    <3>1. /\ <<b[1][1], b[2]>> \in Upstream[d[1].version].tokens
          /\ <<b[1][2], b[2]>> \in Upstream[d[1].version].tokens
      BY <1>1, <2>2, UpstreamOK
    <3>2. Upstream[d[1].version].tokens \subseteq Upstream[d[4].version].tokens
      BY <1>1, <2>7, UpstreamOK
    <3>3. HasAddress(d, b[1][1], b[2]) /\ HasAddress(d, b[1][2], b[2])
      BY <3>1, <3>2, Positions DEF HasAddress
    <3>4. CASE t = Token(d, b[1], b[2])
      BY <3>3, <3>4 DEF Token
    <3>5. CASE t = Token(d, <<b[1][2], b[1][1]>>, b[2])
      <4>1. t.src = HasAddress(d, b[1][2], b[2]) /\ t.dest = HasAddress(d, b[1][1], b[2])
        BY <3>5 DEF Token
      <4> QED
        BY <3>3, <4>1
    <3> QED
      BY <2>1, <3>4, <3>5
  <2> QED
    BY <2>6, <2>7
<1> QED
  BY <1>2

(* The other three values have the types of their variables. *)
LEMMA ListsFit ==
  ASSUME NEW d \in Seq(Answer), Len(d) = Len(Documents)
  PROVE  /\ NewChainList(d) \subseteq Chains
         /\ NewCounterparties(d) \subseteq Chains \X (Chains \cup {NoChain})
         /\ NewAdjList(d) \subseteq Names \X Names
<1>1. NewChainList(d) \subseteq Chains
  <2>1. d[2].version \in DOMAIN Upstream /\ d[3].version \in DOMAIN Upstream
    BY ListedPublished DEF Answer
  <2>2. IdsIn(d[2]) \subseteq Chains /\ IdsIn(d[3]) \subseteq Chains
    BY <2>1, Version DEF IdsIn, Held
  <2> QED
    BY <2>2, Positions DEF NewChainList
<1>2. NewAdjList(d) \subseteq Names \X Names
  <2>1. Listed(d) \subseteq Pairs \X Tokens
    BY ListedPublished, Version DEF Answer
  <2>2. \A b \in Listed(d) : b[1][1] \in Chains /\ b[1][2] \in Chains
    BY <2>1 DEF Pairs
  <2>3. Name \in [Chains -> Names]
    BY UpstreamOK
  <2> QED
    BY <2>2, <2>3 DEF NewAdjList
<1>3. NewCounterparties(d) \subseteq Chains \X (Chains \cup {NoChain})
  <2> DEFINE pairs == {t.pair : t \in NewBridges(d)}
             all == pairs \cup {<<TeleEvm, p[2]>> : p \in {p \in pairs : p[1] = TeleIbc}}
             evm == IF TeleEvm \in NewChainList(d) THEN TeleEvm ELSE NoChain
  <2>1. pairs \subseteq Chains \X Chains
    BY EntriesFit DEF BridgeToken, Pairs
  <2>2. TeleEvm \in Chains
    BY UpstreamOK
  <2>3. all \subseteq Chains \X Chains
    BY <2>1, <2>2
  <2>4. evm \in Chains \cup {NoChain}
    BY <2>2
  <2>5. NewCounterparties(d) =
          {IF p[1] \in Cosmos \ {TeleIbc} /\ p[2] = TeleIbc THEN <<p[1], evm>> ELSE p :
             p \in all}
    BY DEF NewCounterparties
  <2> HIDE DEF pairs, all, evm
  <2>6. \A p \in all : p \in Chains \X Chains /\ p[1] \in Chains
    BY <2>3
  <2> QED
    BY <2>4, <2>5, <2>6
<1> QED
  BY <1>1, <1>2, <1>3

-----------------------------------------------------------------------------
(* What becomes of a load *)

LEMMA TypeParts ==
  ASSUME Inv, NEW l \in Loaders
  PROVE  /\ load[l] \in [stage : LoadStages, docs : Seq(Answer)]
         /\ load[l].docs \in Seq(Answer) /\ load[l].stage \in LoadStages
         /\ Len(load[l].docs) <= Len(Documents)
         /\ LoadFits(l)
         /\ version \in Nat /\ version \in 1 .. Len(Upstream)
         /\ \A i \in 1 .. Len(load[l].docs) : load[l].docs[i] \in Answer
         /\ \A i \in 1 .. Len(load[l].docs) : load[l].docs[i].version \in Nat
<1>1. load \in [Loaders -> [stage : LoadStages, docs : Seq(Answer)]] /\ LoadFits(l)
  BY DEF Inv, TypeOK
<1>2. Upstream \in Seq(Lists)
  BY UpstreamOK
<1>3. version \in 1 .. Len(Upstream) /\ DOMAIN Upstream \subseteq Nat
  BY <1>2 DEF Inv, TypeOK
<1>4. load[l].docs \in Seq(Answer)
  BY <1>1
<1>5. \A i \in 1 .. Len(load[l].docs) : load[l].docs[i] \in Answer
  BY <1>4
<1>6. \A a \in Answer : a.version \in Nat
  BY <1>3 DEF Answer
<1>7. Len(load[l].docs) <= Len(Documents)
  BY DEF Inv, TypeOK
<1> QED
  BY <1>1, <1>3, <1>4, <1>5, <1>6, <1>7

(* One field of a load's record is replaced. *)
LEMMA FieldOfLoad ==
  ASSUME NEW x \in [stage : LoadStages, docs : Seq(Answer)], NEW v
  PROVE  /\ [x EXCEPT !.stage = v] = [stage |-> v, docs |-> x.docs]
         /\ [x EXCEPT !.docs = v] = [stage |-> x.stage, docs |-> v]
OBVIOUS

(* A new record for one load: the others fit as before. *)
LEMMA OneLoad ==
  ASSUME Inv, NEW l \in Loaders,
         NEW r \in [stage : LoadStages, docs : Seq(Answer)],
         Len(r.docs) <= Len(Documents),
         load' = [load EXCEPT ![l] = r], version' = version,
         InOrder(r.docs),
         r.stage \in {"counterparties", "bridges", "adjacency"} =>
           Len(r.docs) = Len(Documents)
  PROVE  /\ load' \in [Loaders -> [stage : LoadStages, docs : Seq(Answer)]]
         /\ \A k \in Loaders : Len(load'[k].docs) <= Len(Documents)
         /\ \A k \in Loaders : LoadFits(k)'
<1>1. load \in [Loaders -> [stage : LoadStages, docs : Seq(Answer)]]
  BY DEF Inv, TypeOK
<1>2. load' \in [Loaders -> [stage : LoadStages, docs : Seq(Answer)]]
  BY <1>1
<1>3. ASSUME NEW k \in Loaders
      PROVE  Len(load'[k].docs) <= Len(Documents) /\ LoadFits(k)'
  <2>1. CASE k = l
    <3>1. load'[k] = r
      BY <1>1, <2>1
    <3>2. InOrder(r.docs)'
      BY DEF InOrder
    <3> QED
      BY <3>1, <3>2 DEF LoadFits, Documents
  <2>2. CASE k # l
    <3>1. load'[k] = load[k]
      BY <1>1, <2>2
    <3>2. LoadFits(k) /\ Len(load[k].docs) <= Len(Documents)
      BY DEF Inv, TypeOK
    <3> QED
      BY <3>1, <3>2 DEF LoadFits, InOrder, Documents
  <2> QED
    BY <2>1, <2>2
<1> QED
  BY <1>2, <1>3

(* No load under way, as after a death of the process. *)
LEMMA Idle ==
  /\ NotLoading \in [stage : LoadStages, docs : Seq(Answer)]
  /\ Len(NotLoading.docs) = 0
  /\ InOrder(NotLoading.docs)
  /\ NotLoading.stage = "idle" /\ Len(NotLoading.docs) <= Len(Documents)
<1>1. NotLoading.docs = <<>> /\ NotLoading.stage = "idle"
  BY DEF NotLoading
<1>2. Len(Documents) = 4
  BY Positions
<1>3. <<>> \in Seq(Answer) /\ Len(<<>>) = 0
  OBVIOUS
<1> QED
  BY <1>1, <1>2, <1>3 DEF NotLoading, LoadStages, InOrder

LEMMA FillType ==
  NotFilled \in [stage : {"none", "filling", "filled"}, todo : SUBSET (Names \X Names),
                 rows : SUBSET ((Names \X Names) \X SUBSET Tokens)]
BY DEF NotFilled

LEMMA DiesKeeps ==
  ASSUME Inv, Dies, UNCHANGED <<version, bare>>, failures' \in Nat
  PROVE  Inv'
<1>1. load' \in [Loaders -> [stage : LoadStages, docs : Seq(Answer)]]
  BY Idle DEF Dies
<1>2. \A l \in Loaders : load'[l] = NotLoading
  BY DEF Dies
<1>3. \A l \in Loaders : Len(load'[l].docs) <= Len(Documents)
  BY <1>2, Idle
<1>4. \A l \in Loaders : LoadFits(l)'
  BY <1>2, Idle DEF LoadFits, InOrder, NotLoading
<1>5. TypeOK'
  BY <1>1, <1>3, FillType DEF Dies, Inv, TypeOK, Documents
<1>6. TokensHaveAddresses'
  BY DEF Dies, TokensHaveAddresses
<1> QED
  BY <1>4, <1>5, <1>6 DEF Inv

-----------------------------------------------------------------------------
(* The inductive step, action by action *)

LEMMA InitInv == Init => Inv
<1> SUFFICES ASSUME Init PROVE Inv
  OBVIOUS
<1>1. version \in DOMAIN Upstream
  BY UpstreamOK DEF Init
<1>2. /\ load \in [Loaders -> [stage : LoadStages, docs : Seq(Answer)]]
      /\ \A l \in Loaders : load[l] = NotLoading
  BY Idle DEF Init
<1>3. \A l \in Loaders : Len(load[l].docs) <= Len(Documents) /\ LoadFits(l)
  BY <1>2, Idle DEF LoadFits
<1>4. TypeOK
  BY <1>1, <1>2, <1>3, FillType DEF Init, TypeOK
<1> QED
  BY <1>3, <1>4 DEF Init, Inv, TokensHaveAddresses

LEMMA PublishInv == Inv /\ Publish => Inv'
<1> SUFFICES ASSUME Inv, Publish PROVE Inv'
  OBVIOUS
<1>1. Upstream \in Seq(Lists)
  BY UpstreamOK
<1>2. version \in 1 .. Len(Upstream) /\ version' = version + 1
  BY <1>1 DEF Inv, TypeOK, Publish
<1>3. version' \in DOMAIN Upstream
  BY <1>1, <1>2 DEF Publish
<1>4. TypeOK'
  BY <1>3 DEF Publish, lists, Inv, TypeOK
<1>5. ASSUME NEW l \in Loaders PROVE LoadFits(l)'
  <2>1. load'[l] = load[l]
    BY DEF Publish
  <2>2. InOrder(load[l].docs) /\ \A i \in 1 .. Len(load[l].docs) : load[l].docs[i].version \in Nat
    BY TypeParts DEF LoadFits
  <2>3. InOrder(load[l].docs)'
    BY <1>2, <2>1, <2>2 DEF InOrder
  <2> QED
    BY <2>1, <2>3 DEF Inv, LoadFits
<1> QED
  BY <1>4, <1>5 DEF Publish, lists, Inv, TokensHaveAddresses

(* Steps that leave the lists and the loads alone. *)
LEMMA OtherInv ==
  ASSUME Inv, UNCHANGED <<version, bare, lists, load>>,
         phase' \in {"loading", "connecting", "assembling", "running", "dead"},
         manager' \subseteq Chains \X Tokens,
         fill' \in [stage : {"none", "filling", "filled"}, todo : SUBSET (Names \X Names),
                    rows : SUBSET ((Names \X Names) \X SUBSET Tokens)],
         failures' \in Nat
  PROVE  Inv'
<1>1. TypeOK'
  BY DEF lists, Inv, TypeOK
<1>2. \A l \in Loaders : LoadFits(l)'
  BY DEF Inv, LoadFits, InOrder
<1> QED
  BY <1>1, <1>2 DEF lists, Inv, TokensHaveAddresses

LEMMA StartInv == Inv /\ (Restart \/ Connect \/ Assemble \/ ClientFails \/ ManagerFails) => Inv'
<1> SUFFICES ASSUME Inv, Restart \/ Connect \/ Assemble \/ ClientFails \/ ManagerFails PROVE Inv'
  OBVIOUS
<1>1. TypeOK
  BY DEF Inv
<1>2. CASE Restart \/ Connect
  BY <1>1, <1>2, OtherInv DEF Restart, Connect, TypeOK
<1>3. CASE Assemble
  <2>1. Managed \subseteq BridgeToken
    BY <1>1 DEF Managed, TypeOK
  <2>2. manager' \subseteq Chains \X Tokens
    BY <1>3, <2>1 DEF Assemble, BridgeToken, Pairs
  <2> QED
    BY <1>1, <1>3, <2>2, OtherInv DEF Assemble, TypeOK
<1>4. CASE ClientFails
  BY <1>1, <1>4, DiesKeeps DEF ClientFails, MayFail, TypeOK
<1>5. CASE ManagerFails
  BY <1>1, <1>5, DiesKeeps DEF ManagerFails, MayFail, TypeOK
<1> QED
  BY <1>2, <1>3, <1>4, <1>5

LEMMA FillInv == Inv /\ (TakeAdjList \/ FillDirection \/ CommitFill \/ FillFails) => Inv'
<1> SUFFICES ASSUME Inv, TakeAdjList \/ FillDirection \/ CommitFill \/ FillFails PROVE Inv'
  OBVIOUS
<1> DEFINE Fills == [stage : {"none", "filling", "filled"}, todo : SUBSET (Names \X Names),
                     rows : SUBSET ((Names \X Names) \X SUBSET Tokens)]
<1>1. TypeOK
  BY DEF Inv
<1>2. /\ fill \in Fills /\ NotFilled \in Fills
      /\ manager \subseteq Chains \X Tokens /\ failures \in Nat
      /\ phase \in {"loading", "connecting", "assembling", "running", "dead"}
  BY <1>1, FillType DEF TypeOK
<1>3. UNCHANGED <<version, bare, lists, load, phase, manager>> /\ failures' \in Nat
  <2>1. CASE TakeAdjList \/ FillDirection \/ CommitFill
    BY <1>2, <2>1 DEF TakeAdjList, FillDirection, CommitFill
  <2>2. CASE FillFails
    BY <1>2, <2>2 DEF FillFails, MayFail
  <2> QED
    BY <2>1, <2>2
<1>4. CASE TakeAdjList
  <2>1. BridgeNameAdjList \subseteq Names \X Names
    BY <1>1 DEF TypeOK
  <2>2. BridgeNameAdjList \cup {Reversed(n) : n \in BridgeNameAdjList} \subseteq Names \X Names
    BY <2>1 DEF Reversed
  <2>3. fill' \in Fills
    BY <1>4, <2>2 DEF TakeAdjList
  <2> QED
    BY <1>2, <1>3, <2>3, OtherInv
<1>5. CASE FillDirection
  <2>1. PICK names \in fill.todo :
          fill' = [fill EXCEPT !.todo = @ \ {names},
                     !.rows = @ \cup {<<names,
                        {t.name : t \in {t \in Bridges : t.pair = BridgeKey(names)}}>>}]
    BY <1>5 DEF FillDirection
  <2>2. {t.name : t \in {t \in Bridges : t.pair = BridgeKey(names)}} \subseteq Tokens
    BY <1>1 DEF TypeOK, BridgeToken
  <2>3. fill.todo \subseteq Names \X Names /\ names \in Names \X Names
    BY <1>2, <2>1
  <2>4. /\ fill' = [stage |-> fill.stage, todo |-> fill.todo \ {names},
                    rows |-> fill.rows \cup {<<names,
                      {t.name : t \in {t \in Bridges : t.pair = BridgeKey(names)}}>>}]
        /\ fill.stage \in {"none", "filling", "filled"}
        /\ fill.rows \subseteq (Names \X Names) \X SUBSET Tokens
    BY <1>2, <2>1
  <2>5. fill' \in Fills
    BY <2>2, <2>3, <2>4
  <2> QED
    BY <1>2, <1>3, <2>5, OtherInv, SMTT(60)
<1>6. CASE CommitFill \/ FillFails
  <2>1. fill' \in Fills
    BY <1>2, <1>6 DEF CommitFill, FillFails
  <2> QED
    BY <1>2, <1>3, <2>1, OtherInv
<1> QED
  BY <1>4, <1>5, <1>6

LEMMA GetInv ==
  \A l \in Loaders :
    Inv /\ (BeginLoad(l) \/ GetWhole(l) \/ GetPartial(l) \/ GetNone(l)) => Inv'
<1> SUFFICES ASSUME NEW l \in Loaders, Inv,
                    BeginLoad(l) \/ GetWhole(l) \/ GetPartial(l) \/ GetNone(l)
             PROVE  Inv'
  OBVIOUS
<1>1. TypeOK /\ UNCHANGED <<version, lists, phase, manager, fill>>
  BY DEF Inv, BeginLoad, GetWhole, GetPartial, GetNone, Get
<1>2. failures' \in Nat
  BY <1>1 DEF TypeOK, BeginLoad, GetWhole, GetPartial, GetNone, MayFail
<1>3. PICK r \in [stage : LoadStages, docs : Seq(Answer)] :
        /\ Len(r.docs) <= Len(Documents)
        /\ load' = [load EXCEPT ![l] = r]
        /\ InOrder(r.docs)
        /\ r.stage = "asking"
  <2>1. CASE BeginLoad(l)
    <3> DEFINE r == [stage |-> "asking", docs |-> load[l].docs]
    <3>1. load' = [load EXCEPT ![l] = r]
      <4>1. load' = [load EXCEPT ![l] = [load[l] EXCEPT !.stage = "asking"]]
        BY <2>1 DEF BeginLoad, ToStage
      <4> QED
        BY <4>1, TypeParts, FieldOfLoad
    <3>2. r \in [stage : LoadStages, docs : Seq(Answer)] /\ InOrder(r.docs)
      BY TypeParts DEF LoadFits, LoadStages
    <3> QED
      BY <3>1, <3>2, TypeParts
  <2>2. CASE GetWhole(l) \/ GetPartial(l) \/ GetNone(l)
    <3>1. PICK body \in {"whole", "partial", "none"} : Get(l, body)
      BY <2>2 DEF GetWhole, GetPartial, GetNone
    <3> DEFINE a == [version |-> version, body |-> body]
               r == [stage |-> "asking", docs |-> Append(load[l].docs, a)]
    <3>2. load' = [load EXCEPT ![l] = r]
      <4>1. load' = [load EXCEPT ![l] = [load[l] EXCEPT !.docs = Append(load[l].docs, a)]]
        <5>1. load' = [load EXCEPT ![l].docs =
                         Append(@, [version |-> version, body |-> body])]
          BY <3>1 DEF Get
        <5> QED
          BY <5>1
      <4>2. load[l].stage = "asking"
        BY <3>1 DEF Get, AtLoad
      <4>3. [load[l] EXCEPT !.docs = Append(load[l].docs, a)] =
              [stage |-> load[l].stage, docs |-> Append(load[l].docs, a)]
        BY TypeParts, FieldOfLoad
      <4> QED
        BY <4>1, <4>2, <4>3
    <3>3. a \in Answer
      BY <1>1 DEF TypeOK, Answer
    <3>4. /\ r.docs \in Seq(Answer) /\ Len(r.docs) = Len(load[l].docs) + 1
          /\ r.docs[Len(load[l].docs) + 1] = a
          /\ \A i \in 1 .. Len(load[l].docs) : r.docs[i] = load[l].docs[i]
      BY <3>3, TypeParts
    <3>5. Len(r.docs) <= Len(Documents)
      BY <3>1, <3>4, TypeParts, Positions DEF Get
    <3>6. InOrder(r.docs)
      <4>1. InOrder(load[l].docs) /\ a.version = version /\ version \in Nat
        BY TypeParts DEF LoadFits
      <4>2. Len(load[l].docs) \in Nat
        BY TypeParts
      <4>3. ASSUME NEW i \in 1 .. Len(r.docs)
            PROVE  i \in 1 .. Len(load[l].docs) \/ i = Len(load[l].docs) + 1
        BY <3>4, <4>2
      <4>4. \A i \in 1 .. Len(r.docs) : r.docs[i].version <= version
        BY <3>4, <4>1, <4>2, <4>3 DEF InOrder
      <4>5. ASSUME NEW i \in 1 .. Len(r.docs), NEW j \in 1 .. Len(r.docs), i <= j
            PROVE  r.docs[i].version <= r.docs[j].version
        <5>1. CASE j \in 1 .. Len(load[l].docs)
          <6>1. i \in 1 .. Len(load[l].docs)
            BY <4>5, <5>1, <4>2
          <6> QED
            BY <3>4, <4>1, <4>5, <5>1, <6>1 DEF InOrder
        <5>2. CASE j = Len(load[l].docs) + 1
          BY <3>4, <4>1, <4>4, <5>2
        <5> QED
          BY <4>3, <5>1, <5>2
      <4> QED
        BY <4>4, <4>5 DEF InOrder
    <3>7. r \in [stage : LoadStages, docs : Seq(Answer)]
      BY <3>4 DEF LoadStages
    <3> QED
      BY <3>2, <3>5, <3>6, <3>7
  <2> QED
    BY <2>1, <2>2
<1>4. /\ load' \in [Loaders -> [stage : LoadStages, docs : Seq(Answer)]]
      /\ \A k \in Loaders : Len(load'[k].docs) <= Len(Documents)
      /\ \A k \in Loaders : LoadFits(k)'
  BY <1>1, <1>3, OneLoad
<1>5. bare' = bare
  BY DEF BeginLoad, GetWhole, GetPartial, GetNone, Get
<1>6. TypeOK'
  BY <1>1, <1>2, <1>4, <1>5 DEF TypeOK, lists, Documents
<1>7. TokensHaveAddresses'
  BY <1>1 DEF Inv, TokensHaveAddresses, lists
<1> QED
  BY <1>4, <1>6, <1>7 DEF Inv

LEMMA FailInv == \A l \in Loaders : Inv /\ (RequestFails(l) \/ Refuse(l)) => Inv'
<1> SUFFICES ASSUME NEW l \in Loaders, Inv, RequestFails(l) \/ Refuse(l) PROVE Inv'
  OBVIOUS
<1>1. TypeOK
  BY DEF Inv
<1>2. LoadFails(l) /\ failures' \in Nat /\ UNCHANGED <<version, bare>>
  BY <1>1 DEF RequestFails, Refuse, MayFail, TypeOK, LoadFails
<1>3. CASE phase = "loading"
  BY <1>2, <1>3, DiesKeeps DEF LoadFails
<1>4. CASE phase # "loading"
  <2>1. /\ load' = [load EXCEPT ![l] = NotLoading]
        /\ UNCHANGED <<version, bare, lists, phase, manager, fill>>
    BY <1>2, <1>4 DEF LoadFails
  <2>2. /\ load' \in [Loaders -> [stage : LoadStages, docs : Seq(Answer)]]
        /\ \A k \in Loaders : Len(load'[k].docs) <= Len(Documents)
        /\ \A k \in Loaders : LoadFits(k)'
    BY <2>1, OneLoad, Idle
  <2>3. TypeOK'
    BY <1>1, <1>2, <2>1, <2>2 DEF TypeOK, lists, Documents
  <2> QED
    BY <2>1, <2>2, <2>3 DEF Inv, TokensHaveAddresses, lists
<1> QED
  BY <1>3, <1>4

LEMMA SetInv ==
  \A l \in Loaders :
    Inv /\ (SetChainList(l) \/ SetCounterparties(l) \/ SetBridges(l) \/ SetAdjList(l)) => Inv'
<1> SUFFICES ASSUME NEW l \in Loaders, Inv,
                    SetChainList(l) \/ SetCounterparties(l) \/ SetBridges(l) \/ SetAdjList(l)
             PROVE  Inv'
  OBVIOUS
<1> DEFINE d == load[l].docs
<1>1. TypeOK /\ TokensHaveAddresses
  BY DEF Inv
<1>2. d \in Seq(Answer) /\ Len(d) = Len(Documents)
  BY TypeParts DEF LoadFits, SetChainList, SetCounterparties, SetBridges, SetAdjList, AtLoad
<1>3. d[1].version <= d[4].version
  <2>1. Len(d) = 4 /\ InOrder(d)
    BY <1>2, Positions, TypeParts DEF LoadFits
  <2> QED
    BY <2>1 DEF InOrder
<1>4. UNCHANGED <<version, manager, fill, failures>>
  BY DEF SetChainList, SetCounterparties, SetBridges, SetAdjList
<1>5. PICK r \in [stage : LoadStages, docs : Seq(Answer)] :
        /\ load' = [load EXCEPT ![l] = r]
        /\ r = NotLoading \/ r.docs = d
  <2>1. CASE SetAdjList(l)
    BY <2>1, Idle DEF SetAdjList
  <2>2. ASSUME NEW stage \in LoadStages, ToStage(l, stage)
        PROVE  /\ load' = [load EXCEPT ![l] = [stage |-> stage, docs |-> d]]
               /\ [stage |-> stage, docs |-> d] \in [stage : LoadStages, docs : Seq(Answer)]
    <3>1. load' = [load EXCEPT ![l] = [load[l] EXCEPT !.stage = stage]]
      BY <2>2 DEF ToStage
    <3> QED
      BY <1>2, <3>1, TypeParts, FieldOfLoad
  <2>3. CASE SetChainList(l) \/ SetCounterparties(l) \/ SetBridges(l)
    <3>1. PICK stage \in LoadStages : ToStage(l, stage)
      BY <2>3 DEF SetChainList, SetCounterparties, SetBridges, LoadStages
    <3> QED
      BY <2>2, <3>1
  <2> QED
    BY <2>1, <2>3
<1>6. /\ load' \in [Loaders -> [stage : LoadStages, docs : Seq(Answer)]]
      /\ \A k \in Loaders : Len(load'[k].docs) <= Len(Documents)
      /\ \A k \in Loaders : LoadFits(k)'
  <2>1. /\ InOrder(r.docs) /\ Len(r.docs) <= Len(Documents)
        /\ r.stage \in {"counterparties", "bridges", "adjacency"} =>
             Len(r.docs) = Len(Documents)
    BY <1>2, <1>5, TypeParts, Idle, Positions DEF LoadFits
  <2> QED
    BY <1>4, <1>5, <2>1, OneLoad
<1>7. /\ NewBridges(d) \subseteq BridgeToken
      /\ \A t \in NewBridges(d) : t.src /\ t.dest
      /\ NewChainList(d) \subseteq Chains
      /\ NewCounterparties(d) \subseteq Chains \X (Chains \cup {NoChain})
      /\ NewAdjList(d) \subseteq Names \X Names
  BY <1>2, <1>3, EntriesFit, ListsFit
<1> HIDE DEF d
<1>8. /\ ChainList' \subseteq Chains
      /\ CounterpartyChains' \subseteq Chains \X (Chains \cup {NoChain})
      /\ BridgeNameAdjList' \subseteq Names \X Names
      /\ Bridges' = Bridges \/ Bridges' = NewBridges(d)
      /\ phase' \in {"loading", "connecting", "assembling", "running", "dead"}
  <2>1. CASE SetChainList(l)
    BY <1>1, <1>7, <2>1 DEF SetChainList, TypeOK, d
  <2>2. CASE SetCounterparties(l)
    BY <1>1, <1>7, <2>2 DEF SetCounterparties, TypeOK, d
  <2>3. CASE SetBridges(l)
    BY <1>1, <1>7, <2>3 DEF SetBridges, TypeOK, d
  <2>4. CASE SetAdjList(l)
    BY <1>1, <1>7, <2>4 DEF SetAdjList, TypeOK, d
  <2> QED
    BY <2>1, <2>2, <2>3, <2>4
<1>9. TypeOK'
  <2>1. bare' \in BOOLEAN
    BY <1>1 DEF SetChainList, SetCounterparties, SetBridges, SetAdjList, TypeOK
  <2> QED
    BY <1>1, <1>4, <1>6, <1>7, <1>8, <2>1 DEF TypeOK, Documents
<1>10. TokensHaveAddresses'
  BY <1>1, <1>7, <1>8 DEF TokensHaveAddresses
<1> QED
  BY <1>6, <1>9, <1>10 DEF Inv

LEMMA StepInv == Inv /\ [Next]_vars => Inv'
<1> SUFFICES ASSUME Inv, [Next]_vars PROVE Inv'
  OBVIOUS
<1>1. CASE Publish
  BY <1>1, PublishInv
<1>2. CASE Restart \/ Connect \/ Assemble \/ ClientFails \/ ManagerFails
  BY <1>2, StartInv
<1>3. CASE TakeAdjList \/ FillDirection \/ CommitFill \/ FillFails
  BY <1>3, FillInv
<1>4. CASE \E l \in Loaders : Load(l) \/ LoadFault(l)
  BY <1>4, GetInv, FailInv, SetInv DEF Load, LoadFault
<1>5. CASE UNCHANGED vars
  BY <1>5, OtherInv DEF vars, Inv, TypeOK
<1> QED
  BY <1>1, <1>2, <1>3, <1>4, <1>5 DEF Next

-----------------------------------------------------------------------------
(* The variables hold what LoadState and the start can give them.             *)
THEOREM TypeCorrect == Spec => []TypeOK
<1>1. Inv => TypeOK
  BY DEF Inv
<1> QED
  BY InitInv, StepInv, <1>1, PTL DEF Spec

(* Every token of datas.Bridges has the addresses of its two chains, whatever *)
(* is published between the requests of a load and however loads overlap.      *)
THEOREM TokensAreKnown == Spec => []TokensHaveAddresses
<1>1. Inv => TokensHaveAddresses
  BY DEF Inv
<1> QED
  BY InitInv, StepInv, <1>1, PTL DEF Spec

-----------------------------------------------------------------------------
(* What stays on offer *)

(* Loads follow each other. *)
LoadsApart == \A k, l \in Loaders : k = l

(* A bridge connects two EVM chains or two cosmos chains. *)
BridgesOfAKind ==
  \A v \in DOMAIN Upstream : \A b \in Upstream[v].bridges :
    b[1][1] \in Cosmos <=> b[1][2] \in Cosmos

(* The names of a bridge lead back to its chains, if they lead to EVM chains. *)
NamesLeadBack ==
  \A v \in DOMAIN Upstream : \A b \in Upstream[v].bridges :
    LET key == BridgeKey(<<Name[b[1][1]], Name[b[1][2]]>>)
    IN  Xibc(key) => key = b[1]

(* The tokens of version v's bridges, in both directions. *)
PublishedBy(v) ==
  {x \in Pairs \X Tokens :
     \E b \in Upstream[v].bridges :
       b[2] = x[2] /\ (x[1] = b[1] \/ x[1] = Reversed(b[1]))}

(* The tokens of bridges between EVM chains, which no load takes away whose   *)
(* bridge document has its bridges.                                          *)
XibcOffered == {x \in Offered : Xibc(x[1])}

Publishes(l) == load[l].stage \in {"counterparties", "bridges", "adjacency"}

(* What a load brings is not less than what is on offer. *)
LoadOffers(l) ==
  LET d == load[l].docs
  IN  /\ Len(d) > 0 => Offered \subseteq PublishedBy(d[1].version)
      /\ Publishes(l) => ~Panics(d) /\ ~Refused(d) /\ (d[1].body = "none" => bare)

Offering == Offered \subseteq PublishedBy(version) /\ \A l \in Loaders : LoadOffers(l)

(* Both directions of a bridge are there, and they are of one kind. *)
BothWays ==
  \A t \in Bridges :
    /\ t.pair[1] \in Cosmos <=> t.pair[2] \in Cosmos
    /\ \E u \in Bridges : u.pair = Reversed(t.pair) /\ u.name = t.name

ManagerOffered ==
  ~bare => \A n \in manager : n[1] \in Cosmos \/ \E pair : pair[1] = n[1] /\ <<pair, n[2]>> \in XibcOffered

Managing == BothWays /\ ManagerOffered

(* Names that lead to EVM chains lead to a token on offer, either way. *)
HasToken(names) ==
  Xibc(BridgeKey(names)) => \E token : <<BridgeKey(names), token>> \in XibcOffered

Naming ==
  /\ \A l \in Loaders : AtLoad(l, "adjacency") => Bridges = NewBridges(load[l].docs)
  /\ ~bare =>
       /\ \A names \in BridgeNameAdjList : HasToken(names) /\ HasToken(Reversed(names))
       /\ fill.stage = "filling" => \A names \in fill.todo : HasToken(names)
       /\ \A r \in fill.rows : Xibc(BridgeKey(r[1])) => r[2] # {}

LEMMA PublishedGrows ==
  ASSUME NEW v \in DOMAIN Upstream, NEW w \in DOMAIN Upstream, v <= w
  PROVE  PublishedBy(v) \subseteq PublishedBy(w)
<1>1. Upstream[v].bridges \subseteq Upstream[w].bridges
  BY UpstreamOK
<1> QED
  BY <1>1 DEF PublishedBy

(* A load that publishes offers the bridges of its version, but for those     *)
(* that an answer without its list leaves out.                               *)
LEMMA OffersVersion ==
  ASSUME Inv, NEW l \in Loaders, LoadOffers(l), Publishes(l)
  PROVE  LET d == load[l].docs
         IN  /\ {<<t.pair, t.name>> : t \in NewBridges(d)} \subseteq PublishedBy(d[1].version)
             /\ \A x \in PublishedBy(d[1].version) :
                  \/ x \in {<<t.pair, t.name>> : t \in NewBridges(d)}
                  \/ d[1].body = "none" \/ (~Xibc(x[1]) /\ d[3].body = "none")
<1> DEFINE d == load[l].docs
           v == d[1].version
<1>1. /\ d \in Seq(Answer) /\ Len(d) = 4 /\ InOrder(d)
      /\ ~Panics(d) /\ ~Refused(d)
  BY Positions, TypeParts DEF LoadFits, Publishes, LoadOffers
<1>2. /\ d[1] \in Answer /\ d[2] \in Answer /\ d[3] \in Answer
      /\ v \in DOMAIN Upstream /\ d[2].version \in DOMAIN Upstream /\ v <= d[2].version
      /\ d[3].version \in DOMAIN Upstream /\ v <= d[3].version
  <2>1. d[1] \in Answer /\ d[2] \in Answer /\ d[3] \in Answer
    BY <1>1
  <2>2. v <= d[2].version /\ v <= d[3].version
    BY <1>1 DEF InOrder
  <2> QED
    BY <2>1, <2>2 DEF Answer
<1>3. d[1].body \in {"whole", "none"} /\ d[2].body = "whole" /\ d[3].body \in {"whole", "none"}
  BY <1>1, <1>2, Positions DEF Panics, Refused, EvmRefused, CosmosRefused, Answer
<1>4. /\ Listed(d) \subseteq Upstream[v].bridges
      /\ d[1].body # "none" => Listed(d) = Upstream[v].bridges
  BY <1>3, Positions DEF Listed, Held
<1>5. /\ \A c \in Upstream[d[2].version].chains : c \notin Cosmos => c \in NewChainList(d)
      /\ d[3].body # "none" =>
           \A c \in Upstream[d[3].version].chains : c \in Cosmos => c \in NewChainList(d)
  BY <1>3, Positions DEF NewChainList, IdsIn, Held
<1>6. ASSUME NEW b \in Upstream[v].bridges
      PROVE  /\ b[1] \in Pairs /\ b[2] \in Tokens
             /\ Reversed(b[1]) \in Pairs /\ b[1] = <<b[1][1], b[1][2]>>
             /\ Xibc(b[1]) \/ d[3].body # "none" =>
                  {b[1][1], b[1][2]} \subseteq NewChainList(d)
             /\ Xibc(Reversed(b[1])) <=> Xibc(b[1])
  <2>1. b \in Pairs \X Tokens
    BY <1>2, Version
  <2>2. b[1] \in Pairs /\ b[2] \in Tokens /\ Reversed(b[1]) \in Pairs
        /\ b[1] = <<b[1][1], b[1][2]>>
    BY <2>1 DEF Pairs, Reversed
  <2>3. /\ b[1][1] \in Upstream[d[2].version].chains /\ b[1][1] \in Upstream[d[3].version].chains
        /\ b[1][2] \in Upstream[d[2].version].chains /\ b[1][2] \in Upstream[d[3].version].chains
    <3>1. b[1][1] \in Upstream[v].chains /\ b[1][2] \in Upstream[v].chains
      BY <1>2, UpstreamOK
    <3>2. /\ Upstream[v].chains \subseteq Upstream[d[2].version].chains
          /\ Upstream[v].chains \subseteq Upstream[d[3].version].chains
      BY <1>2, UpstreamOK
    <3> QED
      BY <3>1, <3>2
  <2>4. Xibc(b[1]) \/ d[3].body # "none" => {b[1][1], b[1][2]} \subseteq NewChainList(d)
    BY <1>5, <2>3 DEF Xibc
  <2>5. Xibc(Reversed(b[1])) <=> Xibc(b[1])
    BY DEF Xibc, Reversed
  <2> QED
    BY <2>2, <2>4, <2>5
<1> HIDE DEF d, v
<1>7. ASSUME NEW t \in NewBridges(d)
      PROVE  <<t.pair, t.name>> \in PublishedBy(v)
  <2>1. PICK b \in Upstream[v].bridges :
          t \in {Token(d, b[1], b[2]), Token(d, <<b[1][2], b[1][1]>>, b[2])}
    BY <1>4, <1>7 DEF NewBridges
  <2>2. t.name = b[2] /\ (t.pair = b[1] \/ t.pair = Reversed(b[1]))
    BY <2>1 DEF Token, Reversed
  <2> QED
    BY <1>6, <1>7, <2>2 DEF PublishedBy
<1>8. ASSUME NEW x \in PublishedBy(v),
             d[1].body # "none", Xibc(x[1]) \/ d[3].body # "none"
      PROVE  \E t \in NewBridges(d) : x = <<t.pair, t.name>>
  <2>1. PICK b \in Upstream[v].bridges :
          b[2] = x[2] /\ (x[1] = b[1] \/ x[1] = Reversed(b[1]))
    BY <1>8 DEF PublishedBy
  <2>2. {b[1][1], b[1][2]} \subseteq NewChainList(d)
    BY <1>6, <1>8, <2>1
  <2>3. Token(d, b[1], b[2]) \in NewBridges(d)
        /\ Token(d, <<b[1][2], b[1][1]>>, b[2]) \in NewBridges(d)
    BY <1>4, <1>8, <2>2 DEF NewBridges
  <2>4. x = <<x[1], x[2]>>
    BY <1>8 DEF PublishedBy
  <2>5. \A pair, token : Token(d, pair, token).pair = pair /\ Token(d, pair, token).name = token
    BY DEF Token
  <2> QED
    BY <2>1, <2>3, <2>4, <2>5 DEF Reversed
<1> QED
  BY <1>7, <1>8 DEF d, v

(* After a death nothing is on offer and no load is under way. *)
LEMMA DiesOffers == ASSUME Dies PROVE Offering'
<1>1. Offered' = {}
  BY DEF Dies, Offered
<1>2. \A l \in Loaders : load'[l] = NotLoading
  BY DEF Dies
<1>3. NotLoading.docs = <<>> /\ NotLoading.stage = "idle"
  BY DEF NotLoading
<1>4. ASSUME NEW l \in Loaders PROVE LoadOffers(l)'
  <2>1. load'[l].docs = <<>> /\ load'[l].stage = "idle"
    BY <1>2, <1>3
  <2> QED
    BY <2>1 DEF LoadOffers, Publishes
<1> QED
  BY <1>1, <1>4 DEF Offering

(* A load that follows its course while the lists stay as they are. *)
LEMMA RequestOffers ==
  ASSUME LoadsApart, Inv, Offering, NEW l \in Loaders,
         \/ BeginLoad(l) \/ GetWhole(l) \/ GetPartial(l) \/ GetNone(l)
         \/ phase # "loading" /\ LoadFails(l)
  PROVE  Offering' /\ Offered' = Offered
<1> DEFINE d == load[l].docs
<1>1. UNCHANGED <<version, lists>>
  BY DEF BeginLoad, GetWhole, GetPartial, GetNone, Get, LoadFails
<1>2. Offered' = Offered
  BY <1>1 DEF lists, Offered
<1>3. /\ d \in Seq(Answer) /\ Len(d) \in Nat /\ load[l] \in [stage : LoadStages, docs : Seq(Answer)]
      /\ load \in [Loaders -> [stage : LoadStages, docs : Seq(Answer)]]
      /\ LoadOffers(l) /\ Offered \subseteq PublishedBy(version)
  BY TypeParts DEF Inv, TypeOK, Offering
<1>4. LoadOffers(l)'
  <2>1. CASE BeginLoad(l)
    <3>1. load'[l].docs = d /\ load'[l].stage = "asking"
      BY <1>3, <2>1, FieldOfLoad DEF BeginLoad, ToStage
    <3> QED
      BY <1>2, <1>3, <3>1 DEF LoadOffers, Publishes, Documents
  <2>2. CASE GetWhole(l) \/ GetPartial(l) \/ GetNone(l)
    <3>1. PICK body \in {"whole", "partial", "none"} : Get(l, body)
      BY <2>2 DEF GetWhole, GetPartial, GetNone
    <3> DEFINE a == [version |-> version, body |-> body]
    <3>2. load'[l].docs = Append(d, a) /\ load'[l].stage = "asking"
      <4>1. load' = [load EXCEPT ![l].docs = Append(@, a)] /\ load[l].stage = "asking"
        BY <3>1 DEF Get, AtLoad
      <4> QED
        BY <1>3, <4>1
    <3>3. a \in Answer /\ a.version = version /\ a.body = body
      BY DEF Inv, TypeOK, Answer
    <3> HIDE DEF a, d
    <3>4. /\ Len(load'[l].docs) = Len(d) + 1 /\ load'[l].docs[Len(d) + 1] = a
          /\ \A i \in 1 .. Len(d) : load'[l].docs[i] = d[i]
          /\ \A i \in 1 .. Len(d) + 1 : i \in 1 .. Len(d) \/ i = Len(d) + 1
      BY <1>3, <3>2, <3>3 DEF d
    <3>5. Offered \subseteq PublishedBy(load'[l].docs[1].version)
      <4>1. CASE Len(d) = 0
        <5>1. load'[l].docs[1] = a
          BY <3>4, <4>1
        <5> QED
          BY <1>3, <3>3, <5>1
      <4>2. CASE Len(d) > 0
        <5>1. load'[l].docs[1] = d[1]
          BY <1>3, <3>4, <4>2 DEF d
        <5> QED
          BY <1>3, <4>2, <5>1 DEF LoadOffers, d
      <4> QED
        BY <1>3, <4>1, <4>2 DEF d
    <3>6. Offered' \subseteq PublishedBy(load'[l].docs[1].version)
      BY <1>2, <3>5
    <3>7. ~Publishes(l)'
      BY <3>2 DEF Publishes
    <3> QED
      BY <3>4, <3>6, <3>7 DEF LoadOffers, Documents, PublishedBy, Pairs
  <2>3. CASE phase # "loading" /\ LoadFails(l)
    <3>1. load'[l] = NotLoading
      BY <1>3, <2>3 DEF LoadFails
    <3>2. load'[l].docs = <<>> /\ load'[l].stage = "idle"
      BY <3>1 DEF NotLoading
    <3> QED
      BY <3>2 DEF LoadOffers, Publishes
  <2> QED
    BY <2>1, <2>2, <2>3
<1>5. \A k \in Loaders : LoadOffers(k)'
  BY <1>4 DEF LoadsApart
<1>6. Offered' \subseteq PublishedBy(version)'
  BY <1>1, <1>2, <1>3 DEF PublishedBy
<1> QED
  BY <1>2, <1>5, <1>6 DEF Offering

(* The assignments: only Bridges matters for what is on offer. *)
LEMMA SetOffers ==
  ASSUME LoadsApart, Inv, Offering, NEW l \in Loaders,
         SetChainList(l) \/ SetCounterparties(l) \/ SetBridges(l) \/ SetAdjList(l)
  PROVE  Offering' /\ \A x \in Offered \ Offered' : LacksListOf(l, x[1])
<1> DEFINE d == load[l].docs
<1>1. /\ d \in Seq(Answer) /\ load[l] \in [stage : LoadStages, docs : Seq(Answer)]
      /\ load \in [Loaders -> [stage : LoadStages, docs : Seq(Answer)]]
      /\ Len(d) = 4 /\ InOrder(d) /\ d[1] \in Answer
      /\ LoadOffers(l) /\ Offered \subseteq PublishedBy(version) /\ version' = version
      /\ version \in DOMAIN Upstream
  <2>1. Len(d) = 4 /\ d \in Seq(Answer)
    BY Positions, TypeParts DEF LoadFits, SetChainList, SetCounterparties, SetBridges, SetAdjList,
                                AtLoad
  <2>2. d[1] \in Answer
    BY <2>1
  <2> QED
    BY <2>1, <2>2, TypeParts DEF Inv, TypeOK, Offering, LoadFits, SetChainList, SetCounterparties,
                                 SetBridges, SetAdjList
<1>2. Offered \subseteq PublishedBy(d[1].version)
  BY <1>1 DEF LoadOffers
<1>3. /\ Offered' = Offered \/ Offered' \subseteq PublishedBy(d[1].version)
      /\ \A x \in Offered \ Offered' : LacksListOf(l, x[1])
  <2>1. CASE SetBridges(l)
    <3>1. Publishes(l) /\ AtLoad(l, "bridges")
      BY <2>1 DEF SetBridges, AtLoad, Publishes
    <3>2. Offered' = {<<t.pair, t.name>> : t \in NewBridges(d)}
      BY <2>1 DEF SetBridges, Offered
    <3>3. Offered' \subseteq PublishedBy(d[1].version)
      BY <1>1, <3>1, <3>2, OffersVersion
    <3>4. ASSUME NEW x \in Offered \ Offered'
          PROVE  LacksListOf(l, x[1])
      <4>1. d[1].body = "none" \/ (~Xibc(x[1]) /\ d[3].body = "none")
        BY <1>1, <1>2, <3>1, <3>2, OffersVersion
      <4> QED
        BY <3>1, <4>1, Positions DEF LacksListOf
    <3> QED
      BY <3>3, <3>4
  <2>2. CASE ~SetBridges(l)
    BY <2>2 DEF SetChainList, SetCounterparties, SetAdjList, Offered
  <2> QED
    BY <2>1, <2>2
<1>4. Offered' \subseteq PublishedBy(d[1].version)
  BY <1>2, <1>3
<1>5. PublishedBy(d[1].version) \subseteq PublishedBy(version)
  <2>1. d[1].version <= version /\ d[1].version \in DOMAIN Upstream
    BY <1>1 DEF InOrder, Answer
  <2> QED
    BY <1>1, <2>1, PublishedGrows
<1>6. LoadOffers(l)'
  <2>1. CASE SetAdjList(l)
    <3>1. load'[l] = NotLoading
      BY <1>1, <2>1 DEF SetAdjList
    <3>2. load'[l].docs = <<>> /\ load'[l].stage = "idle"
      BY <3>1, SMTT(60) DEF NotLoading
    <3> QED
      BY <3>2 DEF LoadOffers, Publishes
  <2>2. CASE SetChainList(l) \/ SetCounterparties(l) \/ SetBridges(l)
    <3>1. load'[l].docs = d
      <4>1. \E stage : ToStage(l, stage)
        BY <2>2 DEF SetChainList, SetCounterparties, SetBridges
      <4> QED
        BY <1>1, <4>1, FieldOfLoad DEF ToStage
    <3>2. /\ ~Panics(d) /\ ~Refused(d)
          /\ d[1].body = "none" => bare'
      BY <1>1, <2>2, Positions DEF SetChainList, SetCounterparties, SetBridges, LoadOffers,
                                   Publishes, AtLoad
    <3>3. ~Panics(load'[l].docs) /\ ~Refused(load'[l].docs)
      BY <3>1, <3>2
    <3>4. Offered' \subseteq PublishedBy(load'[l].docs[1].version)
      BY <1>4, <3>1
    <3>5. load'[l].docs[1].body = "none" => bare'
      BY <3>1, <3>2
    <3> QED
      BY <3>3, <3>4, <3>5 DEF LoadOffers, Documents, PublishedBy, Pairs, Panics, Refused,
                              EvmRefused, CosmosRefused, TokensRefused, Of
  <2> QED
    BY <2>1, <2>2
<1>7. \A k \in Loaders : LoadOffers(k)'
  BY <1>6 DEF LoadsApart
<1>8. Offered' \subseteq PublishedBy(version)'
  BY <1>1, <1>4, <1>5 DEF PublishedBy
<1> QED
  BY <1>3, <1>7, <1>8 DEF Offering

(* Steps that leave the loads and the lists alone, but for a new version. *)
LEMMA OthersOffer ==
  ASSUME Inv, Offering, UNCHANGED <<bare, lists, load>>, version' = version \/ Publish
  PROVE  Offering' /\ Offered' = Offered
<1>1. Offered' = Offered
  BY DEF lists, Offered
<1>2. \A l \in Loaders : LoadOffers(l)'
  BY <1>1 DEF Offering, LoadOffers, Publishes, Documents, PublishedBy, Pairs, Panics, Refused,
              EvmRefused, CosmosRefused, TokensRefused, Of
<1>3. PublishedBy(version) \subseteq PublishedBy(version')
  <2>1. CASE Publish
    <3>1. version \in DOMAIN Upstream /\ version' \in DOMAIN Upstream /\ version <= version'
      <4>1. Inv'
        BY <2>1, PublishInv
      <4>2. Upstream \in Seq(Lists)
        BY UpstreamOK
      <4> QED
        BY <2>1, <4>1, <4>2 DEF Inv, TypeOK, Publish
    <3> QED
      BY <3>1, PublishedGrows
  <2> QED
    BY <2>1
<1>4. Offered' \subseteq PublishedBy(version)'
  BY <1>1, <1>3 DEF Offering, PublishedBy
<1> QED
  BY <1>1, <1>2, <1>4 DEF Offering

LEMMA BareStays == ASSUME Inv, [Next]_vars, bare PROVE bare'
<1>1. CASE Publish \/ Restart \/ Connect \/ Assemble \/ UNCHANGED vars
  BY <1>1 DEF Publish, Restart, Connect, Assemble, vars
<1>2. CASE ClientFails \/ ManagerFails
  BY <1>2 DEF ClientFails, ManagerFails
<1>3. CASE TakeAdjList \/ FillDirection \/ CommitFill \/ FillFails
  BY <1>3 DEF TakeAdjList, FillDirection, CommitFill, FillFails
<1>4. ASSUME NEW l \in Loaders, Load(l) \/ LoadFault(l)
      PROVE  bare'
  BY <1>4 DEF Load, LoadFault, BeginLoad, GetWhole, GetPartial, GetNone, Get, RequestFails,
              Refuse, LoadFails, SetChainList, SetCounterparties, SetBridges, SetAdjList
<1> QED
  BY <1>1, <1>2, <1>3, <1>4 DEF Next

LEMMA OfferingNext ==
  ASSUME LoadsApart, Inv, Offering, [Next]_vars
  PROVE  /\ Offering'
         /\ Dies \/ \A x \in Offered \ Offered' : \E l \in Loaders : LacksListOf(l, x[1])
<1>1. CASE Publish
  BY <1>1, OthersOffer DEF Publish
<1>2. CASE \/ Restart \/ Connect \/ Assemble
           \/ TakeAdjList \/ FillDirection \/ CommitFill \/ FillFails \/ UNCHANGED vars
  BY <1>2, OthersOffer DEF Restart, Connect, Assemble, TakeAdjList, FillDirection, CommitFill,
                           FillFails, vars
<1>3. CASE ClientFails \/ ManagerFails
  BY <1>3, DiesOffers DEF ClientFails, ManagerFails
<1>4. ASSUME NEW l \in Loaders, Load(l) \/ LoadFault(l)
      PROVE  Offering' /\ (Dies \/ \A x \in Offered \ Offered' : LacksListOf(l, x[1]))
  <2>1. CASE BeginLoad(l) \/ GetWhole(l) \/ GetPartial(l) \/ GetNone(l)
    BY <2>1, RequestOffers
  <2>2. CASE RequestFails(l) \/ Refuse(l)
    <3>1. LoadFails(l)
      BY <2>2 DEF RequestFails, Refuse
    <3>2. CASE phase = "loading"
      BY <3>1, <3>2, DiesOffers DEF LoadFails
    <3> QED
      BY <3>1, <3>2, RequestOffers
  <2>3. CASE SetChainList(l) \/ SetCounterparties(l) \/ SetBridges(l) \/ SetAdjList(l)
    BY <2>3, SetOffers
  <2> QED
    BY <1>4, <2>1, <2>2, <2>3 DEF Load, LoadFault
<1> QED
  BY <1>1, <1>2, <1>3, <1>4 DEF Next

(* Between EVM chains nothing is taken away, if no load was without bridges. *)
LEMMA XibcStays ==
  ASSUME LoadsApart, Inv, Offering, [Next]_vars, ~bare'
  PROVE  Dies \/ XibcOffered \subseteq XibcOffered'
<1> SUFFICES ASSUME ~Dies, NEW x \in Offered \ Offered', Xibc(x[1]) PROVE FALSE
  BY DEF XibcOffered
<1>1. PICK l \in Loaders : LacksListOf(l, x[1])
  BY OfferingNext
<1>2. load[l].docs[1].body = "none" /\ Publishes(l)
  BY <1>1, Positions DEF LacksListOf, Publishes, AtLoad
<1> QED
  BY <1>2, BareStays DEF Offering, LoadOffers

LEMMA OfferingInit == Init => Offering
<1> SUFFICES ASSUME Init PROVE Offering
  OBVIOUS
<1>1. Offered = {}
  BY DEF Init, Offered
<1>2. NotLoading.docs = <<>> /\ NotLoading.stage = "idle"
  BY DEF NotLoading
<1>3. ASSUME NEW l \in Loaders PROVE LoadOffers(l)
  <2>1. load[l].docs = <<>> /\ load[l].stage = "idle"
    BY <1>2 DEF Init
  <2> QED
    BY <2>1 DEF LoadOffers, Publishes
<1> QED
  BY <1>1, <1>3 DEF Offering

(***************************************************************************)
(* However the answers of a reload are cut or refused, and wherever it stops  *)
(* between its requests and its assignments (datas.go:65-234), it takes no    *)
(* token of a bridge away, if it does not overlap another reload, unless it   *)
(* was answered without the list of the bridges or, for a bridge of a cosmos  *)
(* chain, of the cosmos chains.                                               *)
(***************************************************************************)
THEOREM BridgesRemain == ASSUME LoadsApart PROVE Spec => BridgesStay
<1>1. LoadsApart
  OBVIOUS
<1>2. Inv /\ Offering /\ [Next]_vars => Offering'
  BY <1>1, OfferingNext
<1>3. Inv /\ Offering /\ [Next]_vars =>
        [phase' # "dead" =>
           \A x \in Offered \ Offered' : \E l \in Loaders : LacksListOf(l, x[1])]_vars
  BY <1>1, OfferingNext DEF Dies
<1> QED
  BY InitInv, StepInv, OfferingInit, <1>2, <1>3, PTL DEF Spec, BridgesStay

-----------------------------------------------------------------------------
(* What the manager names *)

LEMMA EntriesBothWays ==
  ASSUME BridgesOfAKind, NEW d \in Seq(Answer), Len(d) = Len(Documents),
         NEW t \in NewBridges(d)
  PROVE  /\ t.pair[1] \in Cosmos <=> t.pair[2] \in Cosmos
         /\ \E u \in NewBridges(d) : u.pair = Reversed(t.pair) /\ u.name = t.name
<1>1. d[1].version \in DOMAIN Upstream /\ Listed(d) \subseteq Upstream[d[1].version].bridges
  BY ListedPublished DEF Answer
<1>2. PICK b \in Listed(d) :
        /\ {b[1][1], b[1][2]} \subseteq NewChainList(d)
        /\ t \in {Token(d, b[1], b[2]), Token(d, <<b[1][2], b[1][1]>>, b[2])}
  BY DEF NewBridges
<1>3. b \in Pairs \X Tokens /\ (b[1][1] \in Cosmos <=> b[1][2] \in Cosmos)
  BY <1>1, Version DEF BridgesOfAKind
<1>4. b[1] = <<b[1][1], b[1][2]>>
  BY <1>3 DEF Pairs
<1>5. /\ Token(d, b[1], b[2]) \in NewBridges(d)
      /\ Token(d, <<b[1][2], b[1][1]>>, b[2]) \in NewBridges(d)
  BY <1>2 DEF NewBridges
<1>6. \A pair, token : Token(d, pair, token).pair = pair /\ Token(d, pair, token).name = token
  BY DEF Token
<1>7. CASE t = Token(d, b[1], b[2])
  BY <1>3, <1>5, <1>6, <1>7 DEF Reversed
<1>8. CASE t = Token(d, <<b[1][2], b[1][1]>>, b[2])
  <2>1. t.pair = <<b[1][2], b[1][1]>> /\ t.name = b[2]
    BY <1>6, <1>8
  <2>2. Reversed(t.pair) = b[1]
    BY <1>4, <2>1 DEF Reversed
  <2> QED
    BY <1>3, <1>5, <1>6, <2>1, <2>2
<1> QED
  BY <1>2, <1>7, <1>8

LEMMA BothWaysNext == BridgesOfAKind /\ Inv /\ BothWays /\ [Next]_vars => BothWays'
<1> SUFFICES ASSUME BridgesOfAKind, Inv, BothWays, [Next]_vars PROVE BothWays'
  OBVIOUS
<1>1. CASE Bridges' = Bridges
  BY <1>1 DEF BothWays
<1>2. CASE Bridges' = {}
  BY <1>2 DEF BothWays
<1>3. ASSUME NEW l \in Loaders, SetBridges(l) PROVE BothWays'
  <2>1. Bridges' = NewBridges(load[l].docs)
    BY <1>3 DEF SetBridges
  <2>2. load[l].docs \in Seq(Answer) /\ Len(load[l].docs) = Len(Documents)
    BY <1>3, TypeParts DEF LoadFits, SetBridges, AtLoad
  <2> QED
    BY <2>1, <2>2, EntriesBothWays DEF BothWays
<1>4. \/ Bridges' = Bridges \/ Bridges' = {} \/ \E l \in Loaders : SetBridges(l)
  <2>1. CASE Publish \/ Restart \/ Connect \/ Assemble \/ UNCHANGED vars
    BY <2>1 DEF Publish, Restart, Connect, Assemble, vars, lists
  <2>2. CASE ClientFails \/ ManagerFails
    BY <2>2 DEF ClientFails, ManagerFails, Dies
  <2>3. CASE TakeAdjList \/ FillDirection \/ CommitFill \/ FillFails
    BY <2>3 DEF TakeAdjList, FillDirection, CommitFill, FillFails, lists
  <2>4. ASSUME NEW l \in Loaders, Load(l) \/ LoadFault(l)
        PROVE  Bridges' = Bridges \/ Bridges' = {} \/ SetBridges(l)
    BY <2>4 DEF Load, LoadFault, BeginLoad, GetWhole, GetPartial, GetNone, Get, RequestFails,
                Refuse, LoadFails, Dies, SetChainList, SetCounterparties, SetAdjList, lists
  <2> QED
    BY <2>1, <2>2, <2>3, <2>4 DEF Next
<1> QED
  BY <1>1, <1>2, <1>3, <1>4

LEMMA ManagerNext ==
  ASSUME Inv, BothWays, ManagerOffered, [Next]_vars,
         bare' \/ Dies \/ XibcOffered \subseteq XibcOffered'
  PROVE  ManagerOffered'
<1>1. CASE Dies
  BY <1>1 DEF Dies, ManagerOffered
<1>2. CASE ~Dies /\ manager' = manager
  BY <1>2, BareStays DEF ManagerOffered
<1>3. CASE Assemble
  <2>1. XibcOffered' = XibcOffered
    BY <1>3 DEF Assemble, lists, Offered, XibcOffered
  <2>2. manager' = UNION {{<<t.pair[1], t.name>>, <<t.pair[2], t.name>>} : t \in Managed}
    BY <1>3 DEF Assemble
  <2>3. ASSUME NEW n \in manager', n[1] \notin Cosmos
        PROVE  \E pair : pair[1] = n[1] /\ <<pair, n[2]>> \in XibcOffered
    <3>1. PICK t \in Bridges : n = <<t.pair[1], t.name>> \/ n = <<t.pair[2], t.name>>
      BY <2>2, <2>3 DEF Managed
    <3>2. t.pair[1] \notin Cosmos /\ t.pair[2] \notin Cosmos
      BY <2>3, <3>1 DEF BothWays
    <3>3. PICK u \in Bridges : u.pair = Reversed(t.pair) /\ u.name = t.name
      BY DEF BothWays
    <3>4. Xibc(t.pair) /\ Xibc(u.pair) /\ u.pair[1] = t.pair[2]
      BY <3>2, <3>3 DEF Xibc, Reversed
    <3>5. <<t.pair, t.name>> \in XibcOffered /\ <<u.pair, u.name>> \in XibcOffered
      BY <3>4 DEF XibcOffered, Offered
    <3>6. CASE n = <<t.pair[1], t.name>>
      <4>1. t.pair[1] = n[1] /\ <<t.pair, n[2]>> \in XibcOffered
        BY <3>5, <3>6
      <4> QED
        BY <4>1
    <3>7. CASE n = <<t.pair[2], t.name>>
      <4>1. u.pair[1] = n[1] /\ <<u.pair, n[2]>> \in XibcOffered
        BY <3>3, <3>4, <3>5, <3>7
      <4> QED
        BY <4>1
    <3> QED
      BY <3>1, <3>6, <3>7
  <2> QED
    BY <2>1, <2>3 DEF ManagerOffered
<1>4. manager' = manager \/ Assemble \/ Dies
  <2>1. CASE Publish \/ Restart \/ Connect \/ UNCHANGED vars
    BY <2>1 DEF Publish, Restart, Connect, vars
  <2>2. CASE ClientFails \/ ManagerFails
    BY <2>2 DEF ClientFails, ManagerFails
  <2>3. CASE TakeAdjList \/ FillDirection \/ CommitFill \/ FillFails
    BY <2>3 DEF TakeAdjList, FillDirection, CommitFill, FillFails
  <2>4. ASSUME NEW l \in Loaders, Load(l) \/ LoadFault(l)
        PROVE  manager' = manager \/ Dies
    BY <2>4 DEF Load, LoadFault, BeginLoad, GetWhole, GetPartial, GetNone, Get, RequestFails,
                Refuse, LoadFails, SetChainList, SetCounterparties, SetBridges, SetAdjList
  <2> QED
    BY <2>1, <2>2, <2>3, <2>4 DEF Next
<1> QED
  BY <1>1, <1>2, <1>3, <1>4

(***************************************************************************)
(* What the bridges manager took from the lists of the start (jobs.go:86,     *)
(* bridges.go:41-86) is on offer ever after: every token it names on an EVM   *)
(* chain is still one of datas.Bridges, whatever reloads follow.              *)
(***************************************************************************)
THEOREM ManagedRemains ==
  ASSUME LoadsApart, BridgesOfAKind
  PROVE  Spec => []ManagedIsOffered
<1>1. LoadsApart /\ BridgesOfAKind
  OBVIOUS
<1>2. Inv /\ Offering /\ Managing /\ [Next]_vars => Offering' /\ Managing'
  BY <1>1, OfferingNext, XibcStays, BothWaysNext, ManagerNext DEF Managing
<1>3. Init => Managing
  BY DEF Init, Managing, BothWays, ManagerOffered
<1>4. Managing => ManagedIsOffered
  BY DEF Managing, ManagerOffered, ManagedIsOffered, XibcOffered, Offered
<1> QED
  BY InitInv, StepInv, OfferingInit, <1>2, <1>3, <1>4, PTL DEF Spec

-----------------------------------------------------------------------------
(* What the metrics are filled with *)

LEMMA KeyReversed ==
  ASSUME NEW names
  PROVE  /\ BridgeKey(Reversed(names)) = Reversed(BridgeKey(names))
         /\ Xibc(Reversed(BridgeKey(names))) <=> Xibc(BridgeKey(names))
BY DEF BridgeKey, Reversed, Xibc

(* The names a load publishes have tokens, once its bridges are published. *)
LEMMA NewNamesHaveTokens ==
  ASSUME ~bare, NamesLeadBack, Inv, NEW l \in Loaders, LoadOffers(l), Publishes(l),
         Bridges = NewBridges(load[l].docs), NEW names \in NewAdjList(load[l].docs)
  PROVE  HasToken(names) /\ HasToken(Reversed(names))
<1> DEFINE d == load[l].docs
           v == d[1].version
           key == BridgeKey(names)
<1>1. d \in Seq(Answer) /\ Len(d) = Len(Documents)
  BY TypeParts DEF LoadFits, Publishes
<1>2. \A x \in PublishedBy(v) : Xibc(x[1]) => x \in XibcOffered
  <2>1. d[1].body # "none"
    BY DEF LoadOffers
  <2> QED
    BY <2>1, OffersVersion DEF XibcOffered, Offered
<1>3. v \in DOMAIN Upstream /\ Listed(d) \subseteq Upstream[v].bridges
  BY <1>1, ListedPublished DEF Answer
<1>4. PICK b \in Upstream[v].bridges : names = <<Name[b[1][1]], Name[b[1][2]]>>
  BY <1>3 DEF NewAdjList
<1>5. Xibc(key) => key = b[1]
  BY <1>3, <1>4 DEF NamesLeadBack
<1>6. b[1] \in Pairs /\ b[2] \in Tokens /\ Reversed(b[1]) \in Pairs
  <2>1. b \in Pairs \X Tokens
    BY <1>3, Version
  <2> QED
    BY <2>1 DEF Pairs, Reversed
<1> HIDE DEF key, v, d
<1>7. ASSUME Xibc(key)
      PROVE  <<key, b[2]>> \in XibcOffered /\ <<Reversed(key), b[2]>> \in XibcOffered
  <2>1. key = b[1] /\ Xibc(b[1]) /\ Xibc(Reversed(b[1]))
    BY <1>5, <1>7 DEF Xibc, Reversed
  <2> QED
    BY <1>2, <1>6, <2>1 DEF PublishedBy
<1>8. HasToken(names)
  BY <1>7 DEF HasToken, key
<1>9. HasToken(Reversed(names))
  BY <1>7, KeyReversed DEF HasToken, key
<1> QED
  BY <1>8, <1>9

LEMMA FilledNext ==
  ASSUME Inv, Naming, [Next]_vars, ~Dies, ~bare
  PROVE  /\ fill'.stage = "filling" =>
              \A names \in fill'.todo :
                (names \in fill.todo /\ fill.stage = "filling")
                  \/ \E n \in BridgeNameAdjList : names = n \/ names = Reversed(n)
         /\ \A r \in fill'.rows : Xibc(BridgeKey(r[1])) => r[2] # {}
<1>1. CASE fill' = fill
  BY <1>1 DEF Naming
<1>2. CASE fill' = NotFilled
  BY <1>2 DEF NotFilled
<1>3. CASE TakeAdjList
  <2>1. fill'.rows = {} /\ fill'.todo = BridgeNameAdjList \cup {Reversed(n) : n \in BridgeNameAdjList}
    BY <1>3 DEF TakeAdjList
  <2> QED
    BY <2>1
<1>4. CASE FillDirection
  <2>1. PICK names \in fill.todo :
          fill' = [fill EXCEPT !.todo = @ \ {names},
                     !.rows = @ \cup {<<names,
                        {t.name : t \in {t \in Bridges : t.pair = BridgeKey(names)}}>>}]
    BY <1>4 DEF FillDirection
  <2> DEFINE found == {t.name : t \in {t \in Bridges : t.pair = BridgeKey(names)}}
  <2>2. fill.stage = "filling" /\ HasToken(names)
    BY <1>4 DEF FillDirection, Naming
  <2>3. Xibc(BridgeKey(names)) => found # {}
    <3> SUFFICES ASSUME Xibc(BridgeKey(names)) PROVE found # {}
      OBVIOUS
    <3>1. PICK token : <<BridgeKey(names), token>> \in XibcOffered
      BY <2>2 DEF HasToken
    <3>2. PICK t \in Bridges : <<BridgeKey(names), token>> = <<t.pair, t.name>>
      BY <3>1 DEF XibcOffered, Offered
    <3>3. t.name \in found
      BY <3>2
    <3> QED
      BY <3>3
  <2> HIDE DEF found
  <2>4. /\ fill'.todo \subseteq fill.todo
        /\ \A r \in fill'.rows : r \in fill.rows \/ r = <<names, found>>
    <3>1. fill' = [fill EXCEPT !.todo = @ \ {names}, !.rows = @ \cup {<<names, found>>}]
      BY <2>1 DEF found
    <3> QED
      BY <3>1 DEF Inv, TypeOK
  <2> QED
    BY <2>2, <2>3, <2>4, SMTT(60) DEF Naming
<1>5. CASE CommitFill
  <2>1. fill' = NotFilled \/ fill' = [fill EXCEPT !.stage = "filled"]
    BY <1>5 DEF CommitFill
  <2>2. fill' = NotFilled \/ (fill'.stage # "filling" /\ fill'.rows = fill.rows)
    <3>1. /\ [fill EXCEPT !.stage = "filled"].stage = "filled"
          /\ [fill EXCEPT !.stage = "filled"].rows = fill.rows
      BY DEF Inv, TypeOK
    <3> QED
      BY <2>1, <3>1
  <2> QED
    BY <1>2, <2>2 DEF Naming
<1>6. \/ fill' = fill \/ fill' = NotFilled
      \/ TakeAdjList \/ FillDirection \/ CommitFill
  <2>1. CASE Publish \/ Restart \/ Connect \/ Assemble \/ FillFails \/ UNCHANGED vars
    BY <2>1 DEF Publish, Restart, Connect, Assemble, FillFails, vars
  <2>2. CASE ClientFails \/ ManagerFails
    BY <2>2 DEF ClientFails, ManagerFails
  <2>3. ASSUME NEW l \in Loaders, Load(l) \/ LoadFault(l)
        PROVE  fill' = fill
    BY <2>3 DEF Load, LoadFault, BeginLoad, GetWhole, GetPartial, GetNone, Get, RequestFails,
                Refuse, LoadFails, SetChainList, SetCounterparties, SetBridges, SetAdjList
  <2> QED
    BY <2>1, <2>2, <2>3 DEF Next
<1> QED
  BY <1>1, <1>2, <1>3, <1>4, <1>5, <1>6

(* The names are replaced by a load whose bridges are published. *)
LEMMA NamesNext ==
  ASSUME LoadsApart, Inv, Naming, [Next]_vars, ~Dies
  PROVE  /\ \/ BridgeNameAdjList' = BridgeNameAdjList
            \/ \E l \in Loaders : SetAdjList(l)
         /\ \A l \in Loaders : AtLoad(l, "adjacency")' => Bridges' = NewBridges(load'[l].docs)
<1>1. CASE UNCHANGED <<lists, load>>
  <2>1. load' = load /\ Bridges' = Bridges /\ BridgeNameAdjList' = BridgeNameAdjList
    BY <1>1 DEF lists
  <2>2. ASSUME NEW l \in Loaders, AtLoad(l, "adjacency")'
        PROVE  Bridges' = NewBridges(load'[l].docs)
    <3>1. AtLoad(l, "adjacency") /\ load'[l].docs = load[l].docs
      BY <2>1, <2>2 DEF AtLoad
    <3>2. Bridges = NewBridges(load[l].docs)
      BY <3>1 DEF Naming
    <3> QED
      BY <2>1, <3>1, <3>2
  <2> QED
    BY <2>1, <2>2
<1>2. ASSUME NEW l \in Loaders, Load(l) \/ LoadFault(l)
      PROVE  /\ BridgeNameAdjList' = BridgeNameAdjList \/ SetAdjList(l)
             /\ \A k \in Loaders : AtLoad(k, "adjacency")' => Bridges' = NewBridges(load'[k].docs)
  <2>1. load[l] \in [stage : LoadStages, docs : Seq(Answer)] /\ DOMAIN load = Loaders
    BY TypeParts DEF Inv, TypeOK
  <2>2. BridgeNameAdjList' = BridgeNameAdjList \/ SetAdjList(l)
    <3>1. CASE SetAdjList(l)
      BY <3>1
    <3>2. CASE ~SetAdjList(l)
      BY <1>2, <3>2 DEF Load, LoadFault, BeginLoad, GetWhole, GetPartial, GetNone, Get, RequestFails,
                Refuse, LoadFails, SetChainList, SetCounterparties, SetBridges, lists
    <3> QED
      BY <3>1, <3>2
  <2>3. CASE SetBridges(l)
    <3>1. Bridges' = NewBridges(load[l].docs) /\ load'[l].docs = load[l].docs
      BY <2>1, <2>3, FieldOfLoad DEF SetBridges, ToStage
    <3> QED
      BY <2>2, <3>1 DEF LoadsApart
  <2>4. CASE ~SetBridges(l)
    <3>1. load'[l].stage # "adjacency"
      <4>1. CASE BeginLoad(l) \/ SetChainList(l) \/ SetCounterparties(l)
        <5>1. \E stage \in {"asking", "counterparties", "bridges"} : ToStage(l, stage)
          BY <4>1 DEF BeginLoad, SetChainList, SetCounterparties
        <5> QED
          BY <2>1, <5>1, FieldOfLoad DEF ToStage
      <4>2. CASE GetWhole(l) \/ GetPartial(l) \/ GetNone(l)
        <5>1. PICK body : Get(l, body)
          BY <4>2 DEF GetWhole, GetPartial, GetNone
        <5>2. PICK docs : load' = [load EXCEPT ![l].docs = docs]
          BY <5>1, Zenon DEF Get
        <5>3. load[l].stage = "asking"
          BY <5>1 DEF Get, AtLoad
        <5> QED
          BY <2>1, <5>2, <5>3
      <4>3. CASE RequestFails(l) \/ Refuse(l) \/ SetAdjList(l)
        <5>1. load'[l] = NotLoading
          <6>1. load' = [load EXCEPT ![l] = NotLoading]
            BY <4>3 DEF RequestFails, Refuse, LoadFails, SetAdjList
          <6> QED
            BY <2>1, <6>1
        <5> QED
          BY <5>1 DEF NotLoading
      <4> QED
        BY <1>2, <2>4, <4>1, <4>2, <4>3 DEF Load, LoadFault
    <3> QED
      BY <2>2, <3>1 DEF AtLoad, LoadsApart
  <2> QED
    BY <2>3, <2>4
<1>3. UNCHANGED <<lists, load>> \/ \E l \in Loaders : Load(l) \/ LoadFault(l)
  BY DEF Next, Publish, Restart, Connect, Assemble, ClientFails, ManagerFails, TakeAdjList,
         FillDirection, CommitFill, FillFails, vars
<1> QED
  BY <1>1, <1>2, <1>3

LEMMA NamingNext ==
  ASSUME LoadsApart, NamesLeadBack, Inv, Offering, Naming, [Next]_vars,
         bare' \/ Dies \/ XibcOffered \subseteq XibcOffered'
  PROVE  Naming'
<1>1. CASE Dies
  <2>1. BridgeNameAdjList' = {} /\ \A l \in Loaders : load'[l].stage = "idle"
    BY <1>1 DEF Dies, NotLoading
  <2>2. fill' = NotFilled \/ (fill' = fill /\ fill.stage # "filling")
    <3>1. fill' = IF fill.stage = "filling" THEN NotFilled ELSE fill
      BY <1>1 DEF Dies
    <3> QED
      BY <3>1, Zenon
  <2>3. /\ fill'.stage # "filling"
        /\ ~bare => \A r \in fill'.rows : Xibc(BridgeKey(r[1])) => r[2] # {}
    BY <2>2 DEF Naming, NotFilled
  <2> QED
    BY <2>1, <2>3, BareStays DEF Naming, AtLoad
<1>2. CASE ~Dies /\ bare'
  BY <1>2, NamesNext DEF Naming, AtLoad
<1>3. CASE ~Dies /\ ~bare'
  <2>0. ~bare
    BY <1>3, BareStays
  <2>1. ASSUME NEW names, HasToken(names)
        PROVE  HasToken(names)'
    BY <1>3, <2>1 DEF HasToken
  <2>2. /\ \/ BridgeNameAdjList' = BridgeNameAdjList
           \/ \E l \in Loaders : SetAdjList(l)
        /\ \A l \in Loaders : AtLoad(l, "adjacency")' => Bridges' = NewBridges(load'[l].docs)
    BY <1>3, NamesNext
  <2>3. ASSUME NEW names \in BridgeNameAdjList'
        PROVE  HasToken(names)' /\ HasToken(Reversed(names))'
    <3>1. CASE BridgeNameAdjList' = BridgeNameAdjList
      BY <2>0, <2>1, <2>3, <3>1 DEF Naming
    <3>2. ASSUME NEW l \in Loaders, SetAdjList(l)
          PROVE  HasToken(names)' /\ HasToken(Reversed(names))'
      <4>1. names \in NewAdjList(load[l].docs) /\ AtLoad(l, "adjacency")
        BY <2>3, <3>2 DEF SetAdjList
      <4>2. Bridges = NewBridges(load[l].docs) /\ LoadOffers(l) /\ Publishes(l)
        BY <4>1 DEF Naming, Offering, AtLoad, Publishes
      <4>3. HasToken(names) /\ HasToken(Reversed(names))
        BY <2>0, <4>1, <4>2, NewNamesHaveTokens
      <4> QED
        BY <2>1, <4>3
    <3> QED
      BY <2>2, <3>1, <3>2
  <2>4. /\ fill'.stage = "filling" =>
             \A names \in fill'.todo :
               (names \in fill.todo /\ fill.stage = "filling")
                 \/ \E n \in BridgeNameAdjList : names = n \/ names = Reversed(n)
        /\ \A r \in fill'.rows : Xibc(BridgeKey(r[1])) => r[2] # {}
    BY <1>3, <2>0, FilledNext
  <2>5. ASSUME fill'.stage = "filling", NEW names \in fill'.todo
        PROVE  HasToken(names)'
    <3>1. HasToken(names)
      BY <2>0, <2>4, <2>5 DEF Naming
    <3> QED
      BY <2>1, <3>1
  <2> QED
    BY <2>2, <2>3, <2>4, <2>5 DEF Naming, AtLoad
<1> QED
  BY <1>1, <1>2, <1>3

(***************************************************************************)
(* The job that fills the bridge metrics takes the names of the bridges from  *)
(* one variable and, one name after the other, their tokens from another       *)
(* (packet.go:682-733), while loads replace both (datas.go:229-232): it never  *)
(* fills a direction between EVM chains without its tokens.                    *)
(***************************************************************************)
THEOREM FillsWithTokens ==
  ASSUME LoadsApart, NamesLeadBack
  PROVE  Spec => []FilledWithTokens
<1>1. LoadsApart /\ NamesLeadBack
  OBVIOUS
<1>2. Inv /\ Offering /\ Naming /\ [Next]_vars => Offering' /\ Naming'
  BY <1>1, OfferingNext, XibcStays, NamingNext
<1>3. Init => Naming
  BY DEF Init, Naming, AtLoad, NotLoading, NotFilled
<1>4. Naming => FilledWithTokens
  BY DEF Naming, FilledWithTokens
<1> QED
  BY InitInv, StepInv, OfferingInit, <1>2, <1>3, <1>4, PTL DEF Spec

=============================================================================
