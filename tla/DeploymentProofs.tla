--------------------------- MODULE DeploymentProofs --------------------------
(***************************************************************************)
(* What the config file says of the deployed bridge is true of the two     *)
(* chains, for any number of commands at a time, any accounts and keys,    *)
(* and any calls that fail.                                                *)
(***************************************************************************)
EXTENDS DeploymentNearProofs
USE SMTT(30)
-----------------------------------------------------------------------------
(* Initialising the contracts on NEAR.                                     *)

(* A link that is set where there was none. *)
LEMMA LinkSet ==
  ASSUME NEW n, AreAccounts(n), NEW a \in NearAccounts, n[a] # Absent, n[a].link = None,
         NEW link
  PROVE  /\ AreAccounts(WithLink(n, a, link)) /\ Grown(n, WithLink(n, a, link))
         /\ WithLink(n, a, link)[a].link = link
<1>1. PICK v : v = [n[a] EXCEPT !.link = link]
  BY Zenon
<1>2. /\ IsAccount(v) /\ v.key = n[a].key /\ v.link = link
      /\ WithLink(n, a, link) = Placed(n, a, v)
  BY <1>1 DEF AreAccounts, IsAccount, Placed, WithLink
<1> QED
  BY <1>2, AccountSet

(* SetLink, or a contract that is initialised already: what the call       *)
(* leaves.                                                                 *)
LEMMA LinkStep ==
  ASSUME IInv, NEW p \in Procs, NEW call \in NearCalls, At(p, call), NEW link,
         \/ near[Account(p)].link = None /\ SetLink(p, link)
         \/ near[Account(p)].link # None /\ UNCHANGED near
  PROVE  /\ AreAccounts(near') /\ Grown(near, near')
         /\ near[Account(p)].link = None => near'[Account(p)].link = link
         /\ Progress(proc[p], near', eth, config, stale)
<1>1. /\ IsProcess(proc[p], eth) /\ Progress(proc[p], near, eth, config, stale)
      /\ Account(p) \in NearAccounts /\ near[Account(p)] # Absent
      /\ AreAccounts(near) /\ AreContracts(eth)
  BY Zenon, NearCall DEF IInv, DeployTypeOK
<1>2. /\ AreAccounts(near') /\ Grown(near, near')
      /\ near[Account(p)].link = None => near'[Account(p)].link = link
  <2>1. CASE near[Account(p)].link = None /\ SetLink(p, link)
    <3>1. near' = WithLink(near, Account(p), link)
      BY Zenon, <2>1 DEF SetLink, WithLink
    <3> QED
      BY <1>1, <2>1, <3>1, LinkSet
  <2> QED
    BY Zenon, <2>1, <1>1, NothingLost
<1> QED
  BY Zenon, <1>2, <1>1, NothingLost, ProgressKept

(* EthOnNearClientContract.maybeInitialize keeps the invariant. *)
LEMMA InitClientInv == ASSUME IInv, NEW p \in Procs, initClient(p) PROVE IInv'
<1>1. /\ At(p, "initClient") /\ stale' = stale
      /\ UNCHANGED <<eth, pending, config, following>>
      /\ \/ near[Account(p)].link = None /\ SetLink(p, "header")
         \/ near[Account(p)].link # None /\ UNCHANGED near
      /\ GoOn(p) \/ Exit(p)
  BY Zenon DEF initClient, SetLink
<1>2. "initClient" \in NearCalls
  BY Zenon DEF NearCalls
<1>3. PICK r, v, a, k : r = proc[p] /\ v = Onward(proc[p]) /\ a = Account(p) /\ k = Key(p)
  BY Zenon
<1>4. /\ IsNearCall(r, "initClient", a, k) /\ a \in NearAccounts /\ near[a] # Absent
      /\ Same(v, r) /\ v.at = r.at + 1 /\ v.sub = "begin"
  BY Zenon, <1>1, <1>2, <1>3, NearCall
<1>5. /\ AreAccounts(near') /\ Grown(near, near') /\ Progress(r, near', eth, config, stale)
      /\ near[a].link = None => near'[a].link = "header"
  BY Zenon, <1>1, <1>2, <1>3, LinkStep
<1>6. near'[a].link # None
  BY Zenon, <1>4, <1>5, DeployAssumption DEF Grown
<1>7. NearProgress(v, near', stale) /\ FactoryProgress(v, near')
  BY <1>4, <1>5, <1>6
     DEF IsNearCall, Progress, NearProgress, FactoryProgress, Same, NearContracts, TokenFactory
<1> QED
  BY Zenon, <1>1, <1>2, <1>3, <1>5, <1>7, NearCallInv

(* EthOnNearProverContract.maybeInitialize keeps the invariant: the prover *)
(* is linked to the client of the command, or the pair is marked.          *)
LEMMA InitProverInv == ASSUME IInv, NEW p \in Procs, initProver(p) PROVE IInv'
<1>1. /\ At(p, "initProver")
      /\ UNCHANGED <<eth, pending, config, following>>
      /\ \/ near[Account(p)].link = None /\ SetLink(p, proc[p].client)
         \/ near[Account(p)].link # None /\ UNCHANGED near
      /\ GoOn(p) \/ Exit(p)
      /\ stale \subseteq stale'
      /\ near[Account(p)].link \in {None, proc[p].client} \/ <<"prover", "client">> \in stale'
  BY Zenon DEF initProver, SetLink
<1>2. "initProver" \in NearCalls
  BY Zenon DEF NearCalls
<1>3. PICK r, v, a, k : r = proc[p] /\ v = Onward(proc[p]) /\ a = Account(p) /\ k = Key(p)
  BY Zenon
<1>4. /\ IsNearCall(r, "initProver", a, k) /\ a \in NearAccounts /\ near[a] # Absent
      /\ Same(v, r) /\ v.at = r.at + 1 /\ v.sub = "begin"
  BY Zenon, <1>1, <1>2, <1>3, NearCall
<1>5. /\ AreAccounts(near') /\ Grown(near, near') /\ Progress(r, near', eth, config, stale)
      /\ near[a].link = None => near'[a].link = r.client
  BY Zenon, <1>1, <1>2, <1>3, LinkStep
<1>6. near'[a].link = r.client \/ <<"prover", "client">> \in stale'
  BY Zenon, <1>1, <1>3, <1>4, <1>5 DEF Grown
<1>7. /\ r.command = NearContracts /\ r.at = 6 /\ a = "prover" /\ v.at = 7
      /\ v.command = NearContracts /\ v.client = r.client /\ v.key = r.key
  BY <1>4 DEF IsNearCall, Same, NearContracts, TokenFactory
<1>8. /\ near'[r.client] # Absent /\ near'[r.client].key = r.key /\ near'["prover"] # Absent
      /\ near'[r.client].link # None
  BY <1>5, <1>7 DEF Progress, NearProgress
<1>9. NearProgress(v, near', stale') /\ FactoryProgress(v, near')
  BY Zenon, <1>6, <1>7, <1>8 DEF NearProgress, FactoryProgress, NearContracts, TokenFactory
<1> QED
  BY Zenon, <1>1, <1>2, <1>3, <1>5, <1>9, NearCallInv

(* The call of new keeps the invariant. *)
LEMMA NewFactoryInv == ASSUME IInv, NEW p \in Procs, newFactory(p) PROVE IInv'
<1>1. /\ At(p, "new") /\ stale' = stale /\ UNCHANGED <<eth, pending, config, following>>
      /\ \/ /\ near[Account(p)].link = None /\ "locker" \in DOMAIN proc[p].inputs
            /\ SetLink(p, proc[p].inputs["locker"])
         \/ Exit(p) /\ near' = near
  BY Zenon DEF newFactory
<1>2. "new" \in NearCalls
  BY Zenon DEF NearCalls
<1>3. PICK r, v, a, k : r = proc[p] /\ v = Onward(proc[p]) /\ a = Account(p) /\ k = Key(p)
  BY Zenon
<1>4. /\ IsNearCall(r, "new", a, k) /\ a \in NearAccounts /\ near[a] # Absent
      /\ Same(v, r) /\ v.at = r.at + 1 /\ v.sub = "begin"
  BY Zenon, <1>1, <1>2, <1>3, NearCall
<1>5. CASE Exit(p) /\ near' = near
  <2>1. AreAccounts(near') /\ Grown(near, near') /\ stale \subseteq stale'
    BY Zenon, <1>1, <1>5, NothingLost DEF IInv, DeployTypeOK
  <2> QED
    BY Zenon, <1>1, <1>2, <1>5, <2>1, NearCallInv
<1>6. CASE /\ near[Account(p)].link = None /\ "locker" \in DOMAIN proc[p].inputs
           /\ SetLink(p, proc[p].inputs["locker"])
  <2>1. /\ AreAccounts(near') /\ Grown(near, near') /\ Progress(r, near', eth, config, stale)
        /\ near'[a].link = r.inputs["locker"] /\ "locker" \in DOMAIN r.inputs
    BY Zenon, <1>1, <1>2, <1>3, <1>6, LinkStep
  <2>2. NearProgress(v, near', stale) /\ FactoryProgress(v, near')
    BY <1>4, <2>1
       DEF IsNearCall, Progress, NearProgress, FactoryProgress, Same, NearContracts, TokenFactory
  <2>3. GoOn(p) \/ Exit(p)
    BY Zenon, <1>6 DEF SetLink
  <2> QED
    BY Zenon, <1>1, <1>2, <1>3, <2>1, <2>2, <2>3, NearCallInv
<1> QED
  BY Zenon, <1>1, <1>5, <1>6

(* A token that the factory gets leaves its key and its link. *)
LEMMA TokensSet ==
  ASSUME NEW n, AreAccounts(n), NEW a \in NearAccounts, n[a] # Absent, NEW t, t \subseteq Nat
  PROVE  AreAccounts(WithTokens(n, a, t)) /\ Grown(n, WithTokens(n, a, t))
<1>1. PICK v : v = [n[a] EXCEPT !.tokens = t]
  BY Zenon
<1>2. IsAccount(v) /\ v.key = n[a].key /\ v.link = n[a].link
  BY <1>1 DEF AreAccounts, IsAccount
<1>3. AreAccounts(Placed(n, a, v)) /\ Grown(n, Placed(n, a, v))
  BY Zenon, <1>2, AccountSet
<1> QED
  BY Zenon, <1>1, <1>3 DEF Placed, WithTokens

(* DeployToken keeps the invariant. *)
LEMMA TokenInv == ASSUME IInv, NEW p \in Procs, deployBridgeToken(p) PROVE IInv'
<1>1. /\ At(p, "token") /\ stale' = stale /\ UNCHANGED <<eth, pending, config, following>>
      /\ GoOn(p) \/ Exit(p)
      /\ \/ near' = near
         \/ /\ "erc20" \in DOMAIN proc[p].inputs
            /\ near' = WithTokens(near, Account(p),
                                  near[Account(p)].tokens \cup {proc[p].inputs["erc20"]})
  BY Zenon DEF deployBridgeToken, WithTokens
<1>2. PICK r, v, a, k : r = proc[p] /\ v = Onward(proc[p]) /\ a = Account(p) /\ k = Key(p)
  BY Zenon
<1>3. /\ IsNearCall(r, "token", a, k) /\ a \in NearAccounts /\ near[a] # Absent
      /\ Same(v, r) /\ v.at = r.at + 1 /\ v.sub = "begin"
      /\ IsProcess(r, eth) /\ Progress(r, near, eth, config, stale)
      /\ AreContracts(eth) /\ AreAccounts(near)
  BY Zenon, <1>1, <1>2, NearCall DEF NearCalls, IInv, DeployTypeOK
<1>4. "erc20" \in DOMAIN r.inputs => near[a].tokens \cup {r.inputs["erc20"]} \subseteq Nat
  BY <1>3 DEF AreAccounts, IsAccount, IsProcess, IsConfig, EthRoles, AreContracts
<1>5. Progress(r, near', eth, config, stale)
  BY <1>3, <1>1, <1>2, <1>4, TokensSet, ProgressKept, NothingLost
<1>6. NearProgress(v, near', stale) /\ FactoryProgress(v, near')
  BY <1>3, <1>5
     DEF IsNearCall, Progress, NearProgress, FactoryProgress, Same, NearContracts,
         TokenFactory
<1> QED
  BY <1>1, <1>2, <1>3, <1>4, <1>6, TokensSet, NothingLost, NearCallInv DEF NearCalls

-----------------------------------------------------------------------------
(* Ethereum.                                                               *)

(* A contract that gets earlier contracts of the right roles for its links *)
(* may follow the ones that were deployed.                                 *)
LEMMA ContractAdded ==
  ASSUME NEW e, AreContracts(e), NEW x \in EthRoles, NEW links,
         links = [y \in Links(x) |-> links[y]],
         \A y \in Links(x) : links[y] \in DOMAIN e /\ e[links[y]].role = y
  PROVE  LET f == Append(e, [role |-> x, links |-> links])
         IN  /\ AreContracts(f) /\ Longer(e, f)
             /\ Len(e) + 1 \in DOMAIN f /\ f[Len(e) + 1].role = x
             /\ f[Len(e) + 1].links = links
  BY LinksTable DEF AreContracts, EthRoles, Contracts, Longer

(* The process after its contract was mined. *)
Mined(r, k) == [r EXCEPT !.at = @ + 1, !.made = k]

(* It goes on to the save. *)
LEMMA MinedSet ==
  ASSUME NEW r, NEW e, IsProcess(r, e), r.at = 1, Len(Plan(r.command)) = 2, NEW k \in Nat
  PROVE  /\ IsProcess(Mined(r, k), e) /\ Same(Mined(r, k), r) /\ Mined(r, k).at = 2
         /\ Mined(r, k).made = k
<1>1. PICK v : v = [r EXCEPT !.at = @ + 1, !.made = k]
  BY Zenon
<1>2. /\ Same(v, r) /\ v.at = r.at + 1 /\ v.sub = r.sub /\ v.made = k /\ v.tries = r.tries
      /\ v = [command |-> v.command, at |-> v.at, sub |-> v.sub, tries |-> v.tries,
              client |-> v.client, key |-> v.key, inputs |-> v.inputs, made |-> v.made,
              unset |-> v.unset, last |-> v.last, newer |-> v.newer]
  BY Zenon, <1>1 DEF IsProcess, Same
<1>3. r.at + 1 = 2 /\ 2 \in 1..Len(Plan(r.command))
  OBVIOUS
<1>4. IsProcess(v, e)
  BY Zenon, <1>2, <1>3 DEF IsProcess, Same
<1> QED
  BY Zenon, <1>1, <1>2, <1>3, <1>4 DEF Mined

(* send keeps the invariant. *)
LEMMA SendInv == ASSUME IInv, NEW p \in Procs, send(p) PROVE IInv'
<1>1. /\ At(p, "send") /\ near' = near /\ pending' = pending /\ config' = config
      /\ following' = following /\ stale' = stale
      /\ proc[p] # Idle /\ Step(p).call = "send" /\ AreContracts(eth) /\ AreAccounts(near)
      /\ pending \subseteq [account : NearAccounts, key : KeyNames]
  BY Zenon DEF send, At, IInv, DeployTypeOK
<1>2. PICK r, here : r = proc[p] /\ here = Step(p)
  BY Zenon
<1>3. /\ IsAt(r, here) /\ here.call = "send" /\ IsProcess(r, eth)
      /\ Progress(r, near, eth, config, stale)
      /\ r.command \notin {NearContracts, TokenFactory} /\ Len(Plan(r.command)) = 2
      /\ r.at = 1 /\ here.of = Saves(r.command) /\ here.of \in EthRoles
  BY <1>1, <1>2, Running DEF IsAt
<1>4. CASE eth' = eth /\ proc' = [proc EXCEPT ![p].tries = @ + 1]
  <2> DEFINE v == Within(r, r.sub, r.tries + 1)
  <2>1. proc' = [proc EXCEPT ![p] = v]
    BY Zenon, <1>2, <1>3, <1>4 DEF IsProcess, Within
  <2>2. r.tries + 1 \in Nat /\ r.sub \in Parts
    BY <1>3 DEF IsProcess
  <2>3. /\ IsProcess(v, eth) /\ Same(v, r) /\ v.at = r.at
    BY <1>3, <2>2, SubSet
  <2> HIDE DEF v
  <2>4. Progress(v, near, eth, config, stale)
    BY <1>3, <2>3
       DEF Progress, NearProgress, FactoryProgress, EthProgress, FreshInputs, FreshClient, Same
  <2> QED
    BY Zenon, <1>1, <1>4, <2>1, <2>3, <2>4, QuietStep DEF chains
<1>5. CASE /\ Links(Step(p).of) \subseteq DOMAIN proc[p].inputs
           /\ eth' = Append(eth, Contract(p))
           /\ \/ proc' = [proc EXCEPT ![p].at = @ + 1, ![p].made = Len(eth) + 1]
              \/ Exit(p)
  <2> DEFINE links == [y \in Links(here.of) |-> r.inputs[y]]
  <2>1. /\ Contract(p) = [role |-> here.of, links |-> links]
        /\ \A y \in Links(here.of) : /\ y \in DOMAIN r.inputs /\ r.inputs[y] \in DOMAIN eth
                                     /\ eth[r.inputs[y]].role = y
        /\ links = [y \in Links(here.of) |-> links[y]]
        /\ \A y \in Links(here.of) : /\ links[y] = r.inputs[y] /\ links[y] \in DOMAIN eth
                                     /\ eth[links[y]].role = y
    BY <1>2, <1>3, <1>5, LinksTable DEF Contract, EthRoles, IsProcess, IsConfig
  <2> HIDE DEF links
  <2>2. /\ AreContracts(eth') /\ Longer(eth, eth')
        /\ Len(eth) + 1 \in DOMAIN eth' /\ eth'[Len(eth) + 1].role = here.of
        /\ eth'[Len(eth) + 1].links = links
        /\ Grown(near, near') /\ stale \subseteq stale'
    BY <1>1, <1>3, <1>5, <2>1, ContractAdded, NothingLost
  <2>3. CASE Exit(p)
    BY Zenon, <1>1, <2>2, <2>3, ProcessStep DEF Exit
  <2>4. CASE proc' = [proc EXCEPT ![p].at = @ + 1, ![p].made = Len(eth) + 1]
    <3> DEFINE v == Mined(r, Len(eth) + 1)
    <3>1. proc' = [proc EXCEPT ![p] = v]
      BY Zenon, <1>2, <1>3, <2>4 DEF IsProcess, Mined
    <3>2. IsProcess(r, eth') /\ Progress(r, near, eth', config, stale)
      BY Zenon, <1>1, <1>3, <2>2, ProgressKept, NothingLost
    <3>3. IsProcess(v, eth') /\ Same(v, r) /\ v.at = 2 /\ v.made = Len(eth) + 1
      BY <1>3, <3>2, <1>1, MinedSet DEF AreContracts
    <3> HIDE DEF v
    <3>4. Progress(v, near', eth', config, stale')
      BY <1>1, <1>3, <2>1, <2>2, <3>3, <3>2
         DEF Progress, EthProgress, Same, NearProgress, FactoryProgress, FreshInputs, FreshClient
    <3> QED
      BY Zenon, <1>1, <2>2, <3>1, <3>3, <3>4, ProcessStep
  <2> QED
    BY Zenon, <1>5, <2>3, <2>4
<1> QED
  BY Zenon, <1>1, <1>4, <1>5, ExitStep DEF send, chains

-----------------------------------------------------------------------------
(* Starting.                                                               *)

(* What a command returns. *)
LEMMA SavesTable ==
  /\ Saves(NearContracts) = "clientKey" /\ Saves(TokenFactory) = "factory"
  /\ NearContracts # TokenFactory
  BY DEF Saves, Plan, NearContracts, TokenFactory, InitNearContracts, InitNearTokenFactory

(* A command that starts has read the config file, and has nothing else.   *)
LEMMA StartInv ==
  ASSUME IInv, NEW p \in Procs, NEW c \in Commands, NEW a \in Accounts \cup {None},
         NEW k \in Keys \cup {None}, Start(p, c, a, k), c # NearContracts => a = None,
         following' \in {following, FALSE}
  PROVE  IInv'
<1> DEFINE client == IF a = None THEN Get("client", "client") ELSE a
           key == IF k = None THEN Get("clientKey", "master") ELSE k
           unset == {Saves(c)} \cup (IF a = None THEN {} ELSE {"client"})
           w(last) == [command |-> c, at |-> 1, sub |-> "begin", tries |-> 0,
                       client |-> client, key |-> key, inputs |-> config, made |-> None,
                       unset |-> unset, last |-> last, newer |-> {}]
<1>0. PICK last : proc' = [proc EXCEPT ![p] = w(last)]
  BY Zenon DEF Start
<1> DEFINE v == w(last)
<1>1. proc' = [proc EXCEPT ![p] = v]
  BY Zenon, <1>0
<1>2. client \in Accounts /\ key \in KeyNames
  BY Zenon, DeployAssumption DEF IInv, DeployTypeOK, IsConfig, Get, KeyNames
<1>9. /\ unset # {} /\ unset \subseteq {"client", Saves(c)}
      /\ c # "init-near-contracts" => unset = {Saves(c)}
      /\ Saves(c) \in unset /\ (a # None => "client" \in unset)
      /\ a = None => client = ClientIn(config)
  BY Zenon DEF NearContracts, Get, ClientIn
<1> HIDE DEF client, key, unset
<1>3. 1 \in 1..Len(Plan(c))
  <2>1. Len(Plan(c)) \in {2, 5, 7}
    BY PlanTable DEF InitNearContracts, InitNearTokenFactory, EthContract
  <2>2. PICK l : l = Len(Plan(c))
    BY Zenon
  <2>3. 1 \in 1..l
    BY <2>1, <2>2
  <2> QED
    BY Zenon, <2>2, <2>3
<1>4. IsProcess(v, eth)
  BY Zenon, <1>2, <1>3, <1>9 DEF IsProcess, IInv, DeployTypeOK, Parts
<1>5. /\ v.command = c /\ v.at = 1 /\ v.sub = "begin" /\ v.inputs = config
      /\ v.client = client /\ v.unset = unset
  BY Zenon
<1> HIDE DEF v
<1>6. NearProgress(v, near, stale) /\ FactoryProgress(v, near)
  BY <1>5 DEF NearProgress, FactoryProgress
<1>7. EthProgress(v, eth) /\ FreshInputs(v, config)
  BY <1>5 DEF EthProgress, FreshInputs
<1>10. FreshClient(v, config)
  BY Zenon, <1>5, <1>9, SavesTable DEF FreshClient
<1>8. UNCHANGED <<chains, config, stale>> /\ Progress(v, near, eth, config, stale)
  BY Zenon, <1>6, <1>7, <1>10 DEF Start, Progress
<1> QED
  BY Zenon, <1>1, <1>4, <1>8, QuietStep

-----------------------------------------------------------------------------
(* Saving.                                                                 *)

(* The function g is f with a value for the name. *)
IsPut(g, f, name, v) ==
  /\ DOMAIN g = DOMAIN f \cup {name} /\ g = [n \in DOMAIN g |-> g[n]] /\ g[name] = v
  /\ \A n \in DOMAIN f : n # name => g[n] = f[n]

(* What Put returns. *)
LEMMA PutFacts == \A f, name, v : IsPut(Put(f, name, v), f, name, v)
  BY DEF Put, IsPut

(* The config file after a name is set, in terms of what the process had. *)
Saved(c, d, r, name) ==
  /\ DOMAIN d = DOMAIN c \cup {name} /\ d = [n \in DOMAIN d |-> d[n]]
  /\ \A n \in DOMAIN c : n # name => d[n] = c[n]
  /\ name = "client" => d[name] = r.client
  /\ name = "clientKey" => d[name] = r.key
  /\ name \in EthRoles => d[name] = r.made

KeyPair == <<"clientKey", "client">>

(* Which pairs are marked after it. *)
Marked(s, t, r, name) ==
  /\ <<"prover", "client">> \in s => <<"prover", "client">> \in t
  /\ \A x \in {"ethClient", "ethProver", "locker", "factory"} :
       /\ name \in Links(x) => <<x, name>> \in t
       /\ x # name => \A y \in Links(x) : <<x, y>> \in s => <<x, y>> \in t
  /\ \A y \in Links(name) : y \in r.newer => <<name, y>> \in t
  /\ name = "clientKey" /\ KeyPair \notin t => "client" \notin r.newer \cup r.unset
  /\ name = "client" /\ KeyPair \notin t => "clientKey" \notin r.newer \cup r.unset
  /\ name \notin {"client", "clientKey"} /\ KeyPair \in s => KeyPair \in t

(* Which command sets a name, and when. *)
Setting(r, name) ==
  \/ r.command = NearContracts /\ r.at = 7 /\ name \in {"client", "clientKey"}
  \/ r.command = TokenFactory /\ r.at = 5 /\ name = "factory" /\ r.unset = {name}
  \/ /\ r.command \notin {NearContracts, TokenFactory} /\ r.at = 2
     /\ name \in EthRoles /\ name = Saves(r.command) /\ r.unset = {name}

(* The processes after it. *)
ProcsAfter(p, name) ==
  [q \in Procs |->
     IF q = p
     THEN IF proc[p].unset = {name} THEN Idle ELSE [proc[p] EXCEPT !.unset = @ \ {name}]
     ELSE IF proc[q] = Idle THEN Idle
     ELSE [proc[q] EXCEPT !.newer = @ \cup {name}]]

(* The pairs that Restaled leaves are the ones that are marked. *)
LEMMA RestaledMarks ==
  ASSUME NEW p \in Procs, NEW name, NEW r, r = proc[p], Setting(r, name), name \in r.unset
  PROVE  Marked(stale, Restaled(p, name), r, name)
<1> DEFINE others == r.newer \cup (r.unset \ {name})
           own == {Saves(r.command)} \ (others \cup {name})
           t == Restaled(p, name)
<1>1. /\ \A y \in Links(name) : y # name => (<<name, y>> \in t <=> y \in others)
      /\ \A x \in Consumers(name) : x # name => (<<x, name>> \in t <=> x \notin own)
      /\ \A x, y : x # name /\ y # name => (<<x, y>> \in stale <=> <<x, y>> \in t)
  BY DEF Restaled
<1> HIDE DEF t
<1>2. IF name = "client" THEN own = {"clientKey"} \ others ELSE own = {}
  BY SavesTable DEF Setting, EthRoles
<1> HIDE DEF own
<1>3. name \in EthRoles \cup {"client", "clientKey", "factory"}
  BY Zenon DEF Setting
<1>4. \A x \in {"ethClient", "ethProver", "locker", "factory"} :
        /\ name \in Links(x) => <<x, name>> \in t
        /\ x # name => \A y \in Links(x) : <<x, y>> \in stale => <<x, y>> \in t
  BY <1>1, <1>2, <1>3, LinksTable DEF Consumers, EthRoles
<1>5. /\ name = "clientKey" /\ KeyPair \notin t => "client" \notin others
      /\ name = "client" /\ KeyPair \notin t => "clientKey" \notin others
  BY <1>1, <1>2, LinksTable DEF Consumers, KeyPair
<1>6. <<"prover", "client">> \in stale => <<"prover", "client">> \in t
  BY <1>1, <1>3 DEF Restaled, t, EthRoles, Consumers
<1>7. name \notin {"client", "clientKey"} /\ KeyPair \in stale => KeyPair \in t
  BY Zenon, <1>1 DEF KeyPair
<1>8. \A y \in Links(name) : y \in r.newer => <<name, y>> \in t
  BY <1>1, <1>3, LinksTable DEF EthRoles
<1> QED
  BY <1>4, <1>5, <1>6, <1>7, <1>8 DEF Marked, t

(* What a process that sets a name has come to. *)
LEMMA SaveOf ==
  ASSUME IInv, NEW p \in Procs, save(p), NEW name \in proc[p].unset,
         config' = Put(config, name, Value(p, name))
  PROVE  Setting(proc[p], name) /\ Saved(config, config', proc[p], name)
<1>2. proc[p] # Idle /\ Step(p).call = "save"
  BY Zenon DEF save, At
<1>3. PICK r, here : r = proc[p] /\ here = Step(p)
  BY Zenon
<1>4. \/ r.command = NearContracts /\ r.at = 7
      \/ r.command = TokenFactory /\ r.at = 5
      \/ /\ r.command \notin {NearContracts, TokenFactory} /\ r.at = 2
         /\ Saves(r.command) \in EthRoles
  BY <1>2, <1>3, Running DEF IsAt
<1>5. /\ r.unset \subseteq {"client", Saves(r.command)}
      /\ r.command # NearContracts => r.unset = {Saves(r.command)}
  BY Zenon, <1>2, <1>3, Running DEF IsProcess, NearContracts
<1>6. Setting(r, name)
  BY Zenon, <1>3, <1>4, <1>5, SavesTable DEF Setting
<1>7. /\ name = "client" => Value(p, name) = r.client
      /\ name = "clientKey" => Value(p, name) = r.key
      /\ name \in EthRoles => Value(p, name) = r.made
  BY <1>3 DEF Value, EthRoles
<1>8. Saved(config, config', r, name)
  <2>1. IsPut(config', config, name, Value(p, name))
    BY Zenon, PutFacts
  <2> QED
    BY Zenon, <1>7, <2>1 DEF Saved, IsPut
<1> QED
  BY Zenon, <1>3, <1>6, <1>8

(* And what its step does to the config file, to the marks and to itself. *)
LEMMA SaveFacts ==
  ASSUME IInv, NEW p \in Procs, save(p)
  PROVE  /\ proc[p] # Idle
         /\ \E name \in proc[p].unset :
              /\ Setting(proc[p], name)
              /\ Saved(config, config', proc[p], name)
              /\ Marked(stale, stale', proc[p], name)
              /\ proc' = ProcsAfter(p, name)
<1>1. PICK name \in proc[p].unset :
        /\ config' = Put(config, name, Value(p, name)) /\ stale' = Restaled(p, name)
        /\ proc' = ProcsAfter(p, name)
  BY Zenon DEF save, ProcsAfter
<1>2. Setting(proc[p], name) /\ Saved(config, config', proc[p], name)
  BY Zenon, <1>1, SaveOf
<1>3. proc[p] # Idle
  BY Zenon DEF save, At
<1> QED
  BY Zenon, <1>1, <1>2, <1>3, RestaledMarks

(* What a process that did not set the name has come to outlasts it. *)
LEMMA NewerKept ==
  ASSUME NEW q, NEW n, NEW e, NEW c, NEW d, NEW s, NEW t, NEW r, NEW name,
         IsProcess(q, e), Progress(q, n, e, c, s), Saved(c, d, r, name), Marked(s, t, r, name),
         NEW v, v = [q EXCEPT !.newer = @ \cup {name}]
  PROVE  IsProcess(v, e) /\ Progress(v, n, e, d, t)
<1>1. /\ v.command = q.command /\ v.at = q.at /\ v.sub = q.sub /\ v.client = q.client
      /\ v.key = q.key /\ v.inputs = q.inputs /\ v.made = q.made /\ v.unset = q.unset
      /\ v.newer = q.newer \cup {name} /\ v.tries = q.tries
      /\ v = [command |-> v.command, at |-> v.at, sub |-> v.sub, tries |-> v.tries,
              client |-> v.client, key |-> v.key, inputs |-> v.inputs, made |-> v.made,
              unset |-> v.unset, last |-> v.last, newer |-> v.newer]
  BY Zenon DEF IsProcess
<1>2. IsProcess(v, e) /\ EthProgress(v, e) /\ FactoryProgress(v, n)
  BY Zenon, <1>1 DEF IsProcess, Progress, EthProgress, FactoryProgress
<1>3. FreshClient(v, d)
  BY Zenon, <1>1 DEF Progress, FreshClient, Saved, ClientIn
<1> QED
  BY <1>1, <1>2, <1>3 DEF Progress, NearProgress, Marked, FreshInputs, EthRoles, Saved

(* And so does what the process itself has come to, when it has a name     *)
(* left to set.                                                            *)
LEMMA UnsetKept ==
  ASSUME NEW r, NEW n, NEW e, NEW c, NEW d, NEW s, NEW t, NEW name \in r.unset,
         r.unset # {name}, Setting(r, name),
         IsProcess(r, e), Progress(r, n, e, c, s), Saved(c, d, r, name), Marked(s, t, r, name),
         NEW v, v = [r EXCEPT !.unset = @ \ {name}]
  PROVE  IsProcess(v, e) /\ Progress(v, n, e, d, t)
<1>1. /\ v.command = r.command /\ v.at = r.at /\ v.sub = r.sub /\ v.client = r.client
      /\ v.key = r.key /\ v.inputs = r.inputs /\ v.made = r.made
      /\ v.unset = r.unset \ {name} /\ v.newer = r.newer /\ v.tries = r.tries
      /\ v = [command |-> v.command, at |-> v.at, sub |-> v.sub, tries |-> v.tries,
              client |-> v.client, key |-> v.key, inputs |-> v.inputs, made |-> v.made,
              unset |-> v.unset, last |-> v.last, newer |-> v.newer]
  BY Zenon DEF IsProcess
<1>2. /\ r.command = NearContracts /\ name \in {"client", "clientKey"}
      /\ NearContracts = "init-near-contracts" /\ NearContracts # TokenFactory
  BY Zenon, SavesTable DEF Setting, NearContracts
<1>3. v.unset # {} /\ v.unset \subseteq {"client", Saves(v.command)}
  <2>1. PICK u, w : u = r.unset /\ w = v.unset
    BY Zenon
  <2>2. name \in u /\ u # {name} /\ w = u \ {name} /\ u \subseteq {"client", Saves(r.command)}
    BY Zenon, <1>1, <2>1 DEF IsProcess
  <2>3. w # {} /\ w \subseteq {"client", Saves(r.command)}
    BY <2>2
  <2> QED
    BY Zenon, <1>1, <2>1, <2>3
<1>4. IsProcess(v, e)
  BY Zenon, <1>1, <1>2, <1>3 DEF IsProcess
<1>5. EthProgress(v, e) /\ FactoryProgress(v, n)
  BY Zenon, <1>1, <1>2 DEF Progress, EthProgress, FactoryProgress
<1>6. FreshClient(v, d)
  BY Zenon, <1>1 DEF Progress, FreshClient, Saved, ClientIn
<1>7. FreshInputs(v, d)
  BY <1>1, <1>2 DEF Progress, FreshInputs, EthRoles, Saved
<1>8. NearProgress(v, n, t)
  BY Zenon, <1>1 DEF Progress, NearProgress, Marked
<1> QED
  BY Zenon, <1>4, <1>5, <1>6, <1>7, <1>8 DEF Progress

(* A role that a role is linked to is another one, of a contract on        *)
(* Ethereum.                                                               *)
LEMMA LinksOther ==
  \A x \in EthRoles \cup {"client", "factory"} : \A y \in Links(x) : y \in EthRoles /\ y # x
  BY LinksTable DEF EthRoles

(* The roles that were read for what is saved are still the ones in the    *)
(* config file, unless they were saved meanwhile, which marks the pair.    *)
LEMMA SavedLinks ==
  ASSUME NEW r, NEW n, NEW e, NEW c, NEW d, NEW s, NEW t, NEW name,
         Setting(r, name), name \in EthRoles \cup {"factory"},
         Progress(r, n, e, c, s), Saved(c, d, r, name), Marked(s, t, r, name),
         NEW y \in Links(name), <<name, y>> \notin t
  PROVE  /\ y \in DOMAIN d /\ d[y] = r.inputs[y]
         /\ name = "factory" => n["factory"].link = r.inputs[y]
         /\ name \in EthRoles => e[r.made].links[y] = r.inputs[y]
<1>1. y \in EthRoles /\ y # name /\ y \notin r.newer
  BY Zenon, LinksOther DEF Marked
<1>2. /\ \/ r.command = TokenFactory /\ r.at = 5 /\ name = "factory"
         \/ /\ r.command \notin {NearContracts, TokenFactory} /\ r.at = 2
            /\ name \in EthRoles /\ name = Saves(r.command)
      /\ Links("factory") = {"locker"} /\ "factory" \notin EthRoles
  BY Zenon, LinksTable DEF Setting, EthRoles
<1>3. /\ y \in DOMAIN r.inputs
      /\ name = "factory" => n["factory"].link = r.inputs[y]
      /\ name \in EthRoles => e[r.made].links[y] = r.inputs[y]
  BY <1>2 DEF Progress, FactoryProgress, EthProgress
<1> QED
  BY Zenon, <1>1, <1>3 DEF Progress, FreshInputs, Saved

(* The key that is set is that of the account that is set or was read,     *)
(* unless the pair is marked.                                              *)
LEMMA KeySaved ==
  ASSUME NEW r, NEW n, NEW e, NEW c, NEW d, NEW s, NEW t, NEW name, Setting(r, name),
         Progress(r, n, e, c, s), Saved(c, d, r, name), Marked(s, t, r, name),
         KeyFits(c, n, s)
  PROVE  KeyFits(d, n, t)
<1>1. CASE name \in {"client", "clientKey"}
  <2>1. r.command = NearContracts /\ r.at = 7
    BY Zenon, <1>1 DEF Setting, EthRoles
  <2>2. /\ n[r.client] # Absent /\ n[r.client].key = r.key /\ n[r.client].link # None
        /\ n["prover"].link = r.client \/ <<"prover", "client">> \in t
    BY <2>1 DEF Progress, NearProgress, Marked
  <2>3. ASSUME KeyPair \notin t
        PROVE  ClientIn(d) = r.client /\ "clientKey" \in DOMAIN d /\ d["clientKey"] = r.key
    BY Zenon, <1>1, <2>1, <2>3 DEF Progress, FreshClient, Saved, Marked, ClientIn
  <2> QED
    BY Zenon, <2>2, <2>3 DEF KeyFits, KeyPair
<1>2. CASE name \notin {"client", "clientKey"}
  <2>1. /\ ClientIn(d) = ClientIn(c)
        /\ "clientKey" \in DOMAIN d => "clientKey" \in DOMAIN c
        /\ "clientKey" \in DOMAIN c => d["clientKey"] = c["clientKey"]
    BY Zenon, <1>2 DEF Saved, ClientIn
  <2> QED
    BY Zenon, <1>2, <2>1 DEF KeyFits, KeyPair, Marked
<1> QED
  BY Zenon, <1>1, <1>2

(* save keeps the invariant. *)
LEMMA SaveInv == ASSUME IInv, NEW p \in Procs, save(p) PROVE IInv'
<1>0. PICK name \in proc[p].unset :
        /\ Setting(proc[p], name)
        /\ Saved(config, config', proc[p], name)
        /\ Marked(stale, stale', proc[p], name)
        /\ proc' = ProcsAfter(p, name)
  BY Zenon, SaveFacts
<1>1. PICK r, d, t : r = proc[p] /\ d = config' /\ t = stale'
  BY Zenon
<1>2. /\ Setting(r, name) /\ name \in r.unset
      /\ Saved(config, d, r, name) /\ Marked(stale, t, r, name)
      /\ IsProcess(r, eth) /\ Progress(r, near, eth, config, stale)
  BY Zenon, <1>0, <1>1, SaveFacts, Running
<1>3. eth' = eth /\ near' = near /\ pending' = pending /\ following' = following
  BY Zenon DEF save, chains, bounds
<1>4. IsConfig(d, eth)
  <2>1. r.client \in Accounts /\ r.key \in KeyNames
    BY Zenon, <1>2 DEF IsProcess
  <2>2. name \in EthRoles => r.made \in DOMAIN eth /\ eth[r.made].role = name
    BY Zenon, <1>2 DEF Progress, EthProgress, EthRoles, Setting
  <2>3. IsConfig(config, eth)
    BY Zenon DEF IInv, DeployTypeOK
  <2>4. name \in EthRoles \cup {"client", "clientKey", "factory"}
    BY Zenon, <1>2 DEF Setting
  <2> QED
    BY <1>2, <2>1, <2>2, <2>3, <2>4 DEF Saved, IsConfig, EthRoles
<1>5. ASSUME NEW q \in Procs, proc'[q] # Idle
      PROVE  IsProcess(proc'[q], eth) /\ Progress(proc'[q], near, eth, d, t)
  <2>1. PICK b, v : b = proc[q] /\ v = proc'[q]
    BY Zenon
  <2>2. CASE q = p
    <3>1. r.unset # {name} /\ v = [r EXCEPT !.unset = @ \ {name}]
      BY Zenon, <1>0, <1>1, <1>5, <2>1, <2>2 DEF ProcsAfter
    <3> QED
      BY Zenon, <1>2, <2>1, <3>1, UnsetKept
  <2>3. CASE q # p
    <3>1. b # Idle /\ v = [b EXCEPT !.newer = @ \cup {name}]
      BY Zenon, <1>0, <1>5, <2>1, <2>3 DEF ProcsAfter
    <3>2. IsProcess(b, eth) /\ Progress(b, near, eth, config, stale)
      BY Zenon, <2>1, <3>1, Running
    <3> QED
      BY <1>2, <2>1, <3>1, <3>2, NewerKept
  <2> QED
    BY Zenon, <2>2, <2>3
<1>6. DeployTypeOK'
  <2>1. proc' = [q \in Procs |-> proc'[q]]
    BY Zenon, <1>0 DEF ProcsAfter
  <2> QED
    BY Zenon, <1>1, <1>3, <1>4, <1>5, <2>1 DEF IInv, DeployTypeOK
<1>7. KeyFits(d, near, t)
  BY Zenon, <1>2, KeySaved DEF IInv
<1>8. SavedExists(d, near, t)
  <2>1. "clientKey" \in DOMAIN d => near["prover"] # Absent
    <3>1. CASE name = "clientKey"
      <4>1. r.command = NearContracts /\ r.at = 7
        BY Zenon, <1>2, <3>1 DEF Setting, EthRoles
      <4>2. r.at >= 4
        BY <4>1
      <4> QED
        BY Zenon, <1>2, <4>1, <4>2 DEF Progress, NearProgress
    <3>2. CASE name # "clientKey"
      BY Zenon, <1>2, <3>2 DEF Saved, IInv, SavedExists
    <3> QED
      BY Zenon, <3>1, <3>2
  <2>2. "factory" \in DOMAIN d => near["factory"] # Absent /\ near["factory"].link # None
    <3>1. CASE name = "factory"
      <4>1. /\ near["factory"] # Absent /\ "locker" \in DOMAIN r.inputs
            /\ near["factory"].link = r.inputs["locker"]
        BY <1>2, <3>1 DEF Progress, FactoryProgress, EthRoles, Setting
      <4>2. r.inputs["locker"] # None
        <5>1. IsConfig(r.inputs, eth)
          BY Zenon, <1>2 DEF IsProcess
        <5> QED
          BY <5>1, <4>1, DeployAssumption DEF IsConfig, EthRoles, IInv, DeployTypeOK, AreContracts
      <4> QED
        BY Zenon, <4>1, <4>2
    <3>2. CASE name # "factory"
      BY Zenon, <1>2, <3>2 DEF Saved, IInv, SavedExists
    <3> QED
      BY Zenon, <3>1, <3>2
  <2>3. ASSUME NEW x \in {"ethClient", "ethProver", "locker", "factory"} \cap DOMAIN d,
               NEW y \in Links(x), <<x, y>> \notin t
        PROVE  y \in DOMAIN d
    <3>1. CASE x = name
      BY Zenon, <1>2, <2>3, <3>1, SavedLinks DEF EthRoles
    <3>2. CASE x # name
      <4>1. x \in DOMAIN config /\ <<x, y>> \notin stale
        BY Zenon, <1>2, <2>3, <3>2 DEF Saved, Marked
      <4>2. y \in DOMAIN config
        BY Zenon, <2>3, <4>1 DEF IInv, SavedExists
      <4> QED
        BY Zenon, <1>2, <4>2 DEF Saved
    <3> QED
      BY Zenon, <3>1, <3>2
  <2> QED
    BY Zenon, <2>1, <2>2, <2>3 DEF SavedExists
<1>9. LinksFit'
  <2>1. ASSUME NEW x \in {"ethClient", "ethProver", "locker", "factory"} \cap DOMAIN d,
               NEW y \in Links(x), <<x, y>> \notin t
        PROVE  LinkOf(x)'[y] = d[y]
    <3>1. CASE x = name
      <4>1. /\ d[y] = r.inputs[y]
            /\ name = "factory" => near["factory"].link = r.inputs[y]
            /\ name \in EthRoles => eth[r.made].links[y] = r.inputs[y]
        <5>1. name \in EthRoles \cup {"factory"}
          BY Zenon, <2>1, <3>1 DEF EthRoles
        <5> QED
          BY <1>2, <2>1, <3>1, <5>1, SavedLinks
      <4>2. CASE x = "factory"
        BY <1>3, <2>1, <3>1, <4>1, <4>2, LinksTable DEF LinkOf
      <4>3. CASE x # "factory"
        <5>1. name \in EthRoles /\ d[name] = r.made
          BY Zenon, <1>2, <2>1, <3>1, <4>3 DEF Saved, EthRoles
        <5> QED
          BY Zenon, <1>1, <1>3, <3>1, <4>1, <4>3, <5>1 DEF LinkOf
      <4> QED
        BY Zenon, <4>2, <4>3
    <3>2. CASE x # name
      <4>1. x \in DOMAIN config /\ <<x, y>> \notin stale /\ y # name
        <5>1. x \in {"ethClient", "ethProver", "locker", "factory"} /\ x \in DOMAIN d
          BY Zenon, <2>1
        <5>2. /\ name \in Links(x) => <<x, name>> \in t
              /\ \A z \in Links(x) : <<x, z>> \in stale => <<x, z>> \in t
          BY Zenon, <1>2, <3>2, <5>1 DEF Marked
        <5> QED
          BY Zenon, <1>2, <2>1, <3>2, <5>1, <5>2 DEF Saved
      <4>2. LinkOf(x)[y] = config[y] /\ y \in DOMAIN config
        BY Zenon, <2>1, <4>1 DEF IInv, SavedExists, LinksFit
      <4>3. d[y] = config[y] /\ d[x] = config[x]
        BY Zenon, <1>2, <3>2, <4>1, <4>2 DEF Saved
      <4> QED
        BY Zenon, <1>1, <1>3, <4>2, <4>3 DEF LinkOf
    <3> QED
      BY Zenon, <3>1, <3>2
  <2> QED
    BY Zenon, <1>1, <2>1 DEF LinksFit
<1> QED
  BY Zenon, <1>1, <1>3, <1>5, <1>6, <1>7, <1>8, <1>9 DEF IInv

-----------------------------------------------------------------------------
(* While README.md is followed.                                            *)

(* One command runs at a time, without options, and for what is not saved. *)
Followed(r, c) ==
  /\ r.newer = {} /\ r.unset = {Saves(r.command)} /\ r.client = "client"
  /\ Saves(r.command) \notin DOMAIN c

ProverLink(n) == n["prover"] # Absent => n["prover"].link \in {None, "client"}

Unmarked(c, s) ==
  /\ "client" \notin DOMAIN c
  /\ KeyPair \notin s /\ <<"prover", "client">> \notin s
  /\ \A x \in {"ethClient", "ethProver", "locker", "factory"} \cap DOMAIN c :
       \A y \in Links(x) : <<x, y>> \notin s

FInv ==
  following =>
    /\ Unmarked(config, stale) /\ ProverLink(near)
    /\ \A p \in Procs : proc[p] # Idle => Followed(proc[p], config)
    /\ \A p, q \in Procs : proc[p] # Idle /\ proc[q] # Idle => p = q

(* A process ends, or goes on with the same command. *)
Moved(p) ==
  \E v : /\ proc' = [proc EXCEPT ![p] = v]
         /\ v = Idle \/ (proc[p] # Idle /\ Same(v, proc[p]))

(* The ways in which a command goes on. *)
LEMMA Moves ==
  ASSUME IInv, NEW p \in Procs, proc[p] # Idle,
         \/ Exit(p) \/ GoOn(p) \/ \E s : Sub(p, s)
         \/ proc' = [proc EXCEPT ![p].tries = @ + 1]
         \/ proc' = [proc EXCEPT ![p].at = @ + 1, ![p].made = Len(eth) + 1]
  PROVE  Moved(p)
<1>1. PICK r : r = proc[p]
  BY Zenon
<1>2. IsProcess(r, eth)
  BY Zenon, <1>1, Running
<1>3. CASE Exit(p)
  BY Zenon, <1>3 DEF Exit, Moved
<1>4. CASE GoOn(p)
  <2>1. proc' = [proc EXCEPT ![p] = Onward(r)]
    BY Zenon, <1>1, <1>4 DEF GoOn, Onward
  <2>2. Same(Onward(r), r)
    BY Zenon, <1>2 DEF Onward, Same, IsProcess
  <2> QED
    BY Zenon, <1>1, <2>1, <2>2 DEF Moved
<1>5. ASSUME NEW s, Sub(p, s) PROVE Moved(p)
  <2>1. proc' = [proc EXCEPT ![p] = Within(r, s, 0)]
    BY Zenon, <1>1, <1>5 DEF Sub, Within
  <2>2. Same(Within(r, s, 0), r)
    BY Zenon, <1>2 DEF Within, Same, IsProcess
  <2> QED
    BY Zenon, <1>1, <2>1, <2>2 DEF Moved
<1>6. CASE proc' = [proc EXCEPT ![p].tries = @ + 1]
  <2>1. PICK v : v = [r EXCEPT !.tries = @ + 1]
    BY Zenon
  <2>2. proc' = [proc EXCEPT ![p] = v]
    BY Zenon, <1>1, <1>6, <2>1
  <2>3. Same(v, r)
    BY Zenon, <1>2, <2>1 DEF Same, IsProcess
  <2> QED
    BY Zenon, <1>1, <2>2, <2>3 DEF Moved
<1>7. CASE proc' = [proc EXCEPT ![p].at = @ + 1, ![p].made = Len(eth) + 1]
  <2>1. proc' = [proc EXCEPT ![p] = Mined(r, Len(eth) + 1)]
    BY Zenon, <1>1, <1>7 DEF Mined
  <2>2. Same(Mined(r, Len(eth) + 1), r)
    BY Zenon, <1>2 DEF Mined, Same, IsProcess
  <2> QED
    BY Zenon, <1>1, <2>1, <2>2 DEF Moved
<1> QED
  BY Zenon, <1>3, <1>4, <1>5, <1>6, <1>7

(* A step that leaves the config file, the history and the link of the     *)
(* prover as they may be.                                                  *)
LEMMA MovedFInv ==
  ASSUME IInv, FInv, NEW p \in Procs, Moved(p), UNCHANGED <<config, following>>,
         following => stale' = stale /\ ProverLink(near')
  PROVE  FInv'
<1>1. PICK v : /\ proc' = [proc EXCEPT ![p] = v]
               /\ v = Idle \/ (proc[p] # Idle /\ Same(v, proc[p]))
  BY Zenon DEF Moved
<1>2. /\ proc'[p] = v /\ \A q \in Procs : q # p => proc'[q] = proc[q]
      /\ config' = config /\ following' = following
  BY Zenon, <1>1 DEF IInv, DeployTypeOK
<1> SUFFICES ASSUME following' PROVE FInv'
  BY Zenon DEF FInv
<1>7. following
  BY <1>2
<1>3. ASSUME NEW q \in Procs, proc'[q] # Idle
      PROVE  proc[q] # Idle /\ Followed(proc'[q], config)
  <2>1. CASE q = p
    <3>1. proc[p] # Idle /\ Same(v, proc[p]) /\ Followed(proc[p], config)
      BY Zenon, <1>1, <1>2, <1>3, <2>1, <1>7 DEF FInv
    <3> QED
      BY Zenon, <1>2, <2>1, <3>1 DEF Followed, Same
  <2>2. CASE q # p
    BY Zenon, <1>2, <1>3, <2>2, <1>7 DEF FInv
  <2> QED
    BY Zenon, <2>1, <2>2
<1>4. Unmarked(config', stale') /\ ProverLink(near')
  BY Zenon, <1>2, <1>7 DEF FInv
<1>5. \A q \in Procs : proc'[q] # Idle => Followed(proc'[q], config')
  BY Zenon, <1>2, <1>3
<1>6. \A q, b \in Procs : proc'[q] # Idle /\ proc'[b] # Idle => q = b
  BY Zenon, <1>3, <1>7 DEF FInv
<1> QED
  BY Zenon, <1>4, <1>5, <1>6, <1>7 DEF FInv

(* The link of the prover stays when other accounts change, and when the   *)
(* entry of the prover changes but not its link.                           *)
LEMMA ProverLinkKept ==
  ASSUME IInv, ProverLink(near), NEW a \in NearAccounts, NEW v,
         near' = [near EXCEPT ![a] = v],
         a = "prover" => v.link \in {None, "client"}
  PROVE  ProverLink(near')
<1>1. "prover" \in NearAccounts /\ near = [b \in NearAccounts |-> near[b]]
  BY Zenon DEF IInv, DeployTypeOK, AreAccounts, NearAccounts
<1>2. near'["prover"] = IF a = "prover" THEN v ELSE near["prover"]
  BY Zenon, <1>1
<1> QED
  BY Zenon, <1>2 DEF ProverLink

(* The calls that leave the accounts on NEAR. *)
LEMMA QuietFInv ==
  ASSUME IInv, FInv, NEW p \in Procs, near' = near,
         \/ getAccountStatus(p) \/ createAccountFails(p) \/ maybeCreateAccountReturns(p)
         \/ verifyAccount(p) \/ send(p) \/ Killed(p)
         \/ deployContract(p) \/ newFactory(p) \/ deployBridgeToken(p)
  PROVE  FInv'
<1>1. config' = config /\ following' = following /\ stale' = stale /\ proc[p] # Idle
  BY Zenon DEF getAccountStatus, createAccountFails, maybeCreateAccountReturns, verifyAccount,
               send, Killed, deployContract, newFactory, deployBridgeToken, At, bounds
<1>2. \/ Exit(p) \/ GoOn(p) \/ \E s : Sub(p, s)
      \/ proc' = [proc EXCEPT ![p].tries = @ + 1]
      \/ proc' = [proc EXCEPT ![p].at = @ + 1, ![p].made = Len(eth) + 1]
  BY Zenon DEF getAccountStatus, createAccountFails, maybeCreateAccountReturns, verifyAccount,
               send, Killed, deployContract, newFactory, deployBridgeToken, SetLink
<1>3. following => ProverLink(near')
  BY Zenon DEF FInv
<1> QED
  BY Zenon, <1>1, <1>2, <1>3, Moves, MovedFInv

(* The account that is created has no link. *)
LEMMA CreateFInv ==
  ASSUME IInv, FInv, NEW p \in Procs, createAccount(p)
  PROVE  FInv'
<1>1. /\ config' = config /\ following' = following /\ stale' = stale /\ proc[p] # Idle
      /\ At(p, "create") /\ Sub(p, "deploying")
      /\ near' = near \/ near' = [near EXCEPT ![Account(p)] = NewAccount(Key(p))]
  BY Zenon DEF createAccount, At, bounds
<1>2. Account(p) \in NearAccounts /\ NewAccount(Key(p)).link = None
  BY Zenon, <1>1, CreatesAccount DEF NewAccount
<1>3. following => ProverLink(near')
  BY Zenon, <1>1, <1>2, ProverLinkKept DEF FInv
<1> QED
  BY Zenon, <1>1, <1>3, Moves, MovedFInv

(* An account that appears late. *)
LEMMA LateFInv == ASSUME IInv, FInv, LateCreate PROVE FInv'
<1>1. PICK tx \in pending :
        near' = near \/ near' = [near EXCEPT ![tx.account] = NewAccount(tx.key)]
  BY Zenon DEF LateCreate
<1>2. tx.account \in NearAccounts /\ NewAccount(tx.key).link = None
  BY Zenon DEF IInv, DeployTypeOK, NewAccount
<1>3. following => ProverLink(near')
  BY Zenon, <1>1, <1>2, ProverLinkKept DEF FInv
<1>4. config' = config /\ following' = following /\ stale' = stale /\ proc' = proc
  BY Zenon DEF LateCreate, bounds
<1> SUFFICES ASSUME following' PROVE FInv'
  BY Zenon DEF FInv
<1>5. following
  BY <1>4
<1> QED
  BY Zenon, <1>3, <1>4, <1>5 DEF FInv

(* The calls that change the code, the tokens or a link of an account. *)
LEMMA CodeFInv ==
  ASSUME IInv, FInv, NEW p \in Procs, deployContract(p)
  PROVE  FInv'
<1>1. CASE near' = near
  BY Zenon, <1>1, QuietFInv
<1>2. CASE near' # near
  <2>1. /\ config' = config /\ following' = following /\ stale' = stale /\ proc[p] # Idle
        /\ At(p, "create") /\ (Sub(p, "created") \/ Exit(p))
        /\ near' = [near EXCEPT ![Account(p)].code = Step(p).of]
    BY Zenon, <1>2 DEF deployContract, At
  <2>2. Account(p) \in NearAccounts /\ near[Account(p)] # Absent
    <3>1. proc[p].sub = "deploying" /\ At(p, "create")
      BY Zenon DEF deployContract
    <3> QED
      BY Zenon, <3>1, CreatesAccount, Running
         DEF Progress, NearProgress, FactoryProgress, NearContracts, TokenFactory
  <2>3. PICK v : v = [near[Account(p)] EXCEPT !.code = Step(p).of]
    BY Zenon
  <2>4. near' = [near EXCEPT ![Account(p)] = v] /\ v.link = near[Account(p)].link
    <3>1. IsAccount(near[Account(p)])
      BY Zenon, <2>2 DEF IInv, DeployTypeOK, AreAccounts
    <3> QED
      BY Zenon, <2>1, <2>3, <3>1 DEF IsAccount
  <2>5. following => ProverLink(near')
    <3>1. following /\ Account(p) = "prover" => v.link \in {None, "client"}
      BY Zenon, <2>2, <2>4 DEF FInv, ProverLink
    <3> QED
      BY Zenon, <2>2, <2>4, <3>1, ProverLinkKept DEF FInv
  <2> QED
    BY Zenon, <2>1, <2>5, Moves, MovedFInv
<1> QED
  BY Zenon, <1>1, <1>2

(* The entry of an account other than the prover changes. *)
LEMMA OtherFInv ==
  ASSUME IInv, FInv, NEW p \in Procs, NEW call \in {"initClient", "new", "token"}, At(p, call),
         UNCHANGED <<config, following, stale>>, GoOn(p) \/ Exit(p),
         NEW v, near' = [near EXCEPT ![Account(p)] = v]
  PROVE  FInv'
<1>1. /\ proc[p] # Idle /\ Account(p) \in NearAccounts
      /\ Account(p) \in {"factory", proc[p].client}
  BY Zenon, NearCall DEF IsNearCall, NearCalls
<1>2. following => proc[p].client = "client"
  BY Zenon, <1>1 DEF FInv, Followed
<1>3. following => ProverLink(near')
  BY Zenon, <1>1, <1>2, ProverLinkKept DEF FInv
<1>4. config' = config /\ following' = following /\ stale' = stale
  BY Zenon
<1> QED
  BY Zenon, <1>1, <1>3, <1>4, Moves, MovedFInv

(* The client's account is initialised. *)
LEMMA ClientFInv == ASSUME IInv, FInv, NEW p \in Procs, initClient(p) PROVE FInv'
<1>1. PICK v : near' = [near EXCEPT ![Account(p)] = v]
  <2>1. CASE near' = near
    BY Zenon, <2>1 DEF IInv, DeployTypeOK, AreAccounts
  <2>2. CASE near' # near
    BY Zenon, <2>2 DEF initClient, SetLink
  <2> QED
    BY Zenon, <2>1, <2>2
<1>2. At(p, "initClient") /\ UNCHANGED <<config, following, stale>> /\ (GoOn(p) \/ Exit(p))
  BY Zenon DEF initClient, SetLink
<1> QED
  BY Zenon, <1>1, <1>2, OtherFInv

(* The token factory, or a token of it, is deployed. *)
LEMMA FactoryFInv ==
  ASSUME IInv, FInv, NEW p \in Procs, newFactory(p) \/ deployBridgeToken(p)
  PROVE  FInv'
<1>1. CASE near' = near
  BY Zenon, <1>1, QuietFInv
<1>2. CASE near' # near
  <2>1. PICK v : near' = [near EXCEPT ![Account(p)] = v]
    BY Zenon, <1>2 DEF newFactory, deployBridgeToken, SetLink
  <2>2. /\ (At(p, "new") \/ At(p, "token")) /\ UNCHANGED <<config, following, stale>>
        /\ GoOn(p) \/ Exit(p)
    BY Zenon DEF newFactory, deployBridgeToken, SetLink
  <2> QED
    BY Zenon, <2>1, <2>2, OtherFInv
<1> QED
  BY Zenon, <1>1, <1>2

(* The prover is linked to the client of the command, "client", and the    *)
(* pair is not marked.                                                     *)
LEMMA ProverFInv == ASSUME IInv, FInv, NEW p \in Procs, initProver(p) PROVE FInv'
<1>1. /\ At(p, "initProver") /\ config' = config /\ following' = following
      /\ GoOn(p) \/ Exit(p)
  BY Zenon DEF initProver, SetLink
<1>2. /\ proc[p] # Idle /\ Account(p) = "prover" /\ "prover" \in NearAccounts
      /\ near["prover"] # Absent
  BY Zenon, <1>1, NearCall DEF IsNearCall, NearCalls, NearContracts, TokenFactory
<1>3. ASSUME following PROVE stale' = stale /\ ProverLink(near')
  <2>1. proc[p].client = "client" /\ near["prover"].link \in {None, "client"}
    BY Zenon, <1>2, <1>3 DEF FInv, Followed, ProverLink
  <2>2. CASE near["prover"].link = None
    <3>1. /\ stale' = stale
          /\ near' = [near EXCEPT !["prover"].link = "client"]
      BY Zenon, <1>2, <2>1, <2>2 DEF initProver, SetLink
    <3>2. PICK v : v = [near["prover"] EXCEPT !.link = "client"]
      BY Zenon
    <3>3. IsAccount(near["prover"])
      BY Zenon, <1>2 DEF IInv, DeployTypeOK, AreAccounts
    <3>4. v.link = "client" /\ near' = [near EXCEPT !["prover"] = v]
      BY Zenon, <3>1, <3>2, <3>3 DEF IsAccount
    <3> QED
      BY Zenon, <1>2, <1>3, <3>1, <3>4, ProverLinkKept DEF FInv
  <2>3. CASE near["prover"].link # None
    BY Zenon, <1>2, <1>3, <2>1, <2>3 DEF initProver, FInv
  <2> QED
    BY Zenon, <2>2, <2>3
<1> QED
  BY Zenon, <1>1, <1>2, <1>3, Moves, MovedFInv

(* A command without options has only what it returns to set. *)
LEMMA StartedPlain ==
  ASSUME NEW p, NEW c, Start(p, c, None, None)
  PROVE  \E v : /\ proc' = [proc EXCEPT ![p] = v]
                /\ v.newer = {} /\ v.unset = {Saves(c)} /\ v.command = c
                /\ v.client = Get("client", "client")
<1> DEFINE client == IF None = None THEN Get("client", "client") ELSE None
           key == IF None = None THEN Get("clientKey", "master") ELSE None
           unset == {Saves(c)} \cup (IF None = None THEN {} ELSE {"client"})
           w(last) == [command |-> c, at |-> 1, sub |-> "begin", tries |-> 0,
                       client |-> client, key |-> key, inputs |-> config, made |-> None,
                       unset |-> unset, last |-> last, newer |-> {}]
<1>1. client = Get("client", "client") /\ unset = {Saves(c)}
  OBVIOUS
<1>2. \E last : proc' = [proc EXCEPT ![p] = w(last)]
  BY Zenon DEF Start
<1> HIDE DEF client, key, unset
<1>3. PICK last : proc' = [proc EXCEPT ![p] = w(last)]
  BY Zenon, <1>2
<1>4. /\ w(last).newer = {} /\ w(last).unset = unset /\ w(last).command = c
      /\ w(last).client = client
  BY Zenon
<1> HIDE DEF w
<1> QED
  BY Zenon, <1>1, <1>3, <1>4

(* The next command is one whose result is not saved. *)
LEMMA NextUnsaved ==
  ASSUME NextCommand # None
  PROVE  Saves(NextCommand) \notin DOMAIN config
<1> DEFINE missing == {i \in DOMAIN Setup : Saves(Setup[i]) \notin DOMAIN config}
<1>1. missing # {} /\ NextCommand = Setup[CHOOSE i \in missing : \A j \in missing : i <= j]
  BY Zenon DEF NextCommand
<1>2. missing \subseteq 1..7
  BY DEF Setup
<1>3. \A i \in missing : Saves(Setup[i]) \notin DOMAIN config
  BY Zenon
<1> HIDE DEF missing
<1>4. \E i \in missing : \A j \in missing : i <= j
  <2> DEFINE least(i) == i \in missing /\ \A j \in missing : i <= j
  <2>1. \/ 1 \in missing
        \/ 1 \notin missing /\ 2 \in missing
        \/ {1, 2} \cap missing = {} /\ 3 \in missing
        \/ {1, 2, 3} \cap missing = {} /\ 4 \in missing
        \/ {1, 2, 3, 4} \cap missing = {} /\ 5 \in missing
        \/ {1, 2, 3, 4, 5} \cap missing = {} /\ 6 \in missing
        \/ {1, 2, 3, 4, 5, 6} \cap missing = {} /\ 7 \in missing
    <3>1. PICK m : m \in missing
      BY Zenon, <1>1
    <3>2. m \in {1, 2, 3, 4, 5, 6, 7}
      BY <1>2, <3>1
    <3> QED
      BY Zenon, <3>1, <3>2
  <2>2. least(1) \/ least(2) \/ least(3) \/ least(4) \/ least(5) \/ least(6) \/ least(7)
    BY <1>2, <2>1
  <2> QED
    BY Zenon, <2>2
<1> QED
  BY Zenon, <1>1, <1>3, <1>4

(* The next command runs alone, without options, for what is not saved. *)
LEMMA StartNextFInv == ASSUME IInv, FInv, NEW p \in Procs, StartNext(p) PROVE FInv'
<1>0. PICK c : c = NextCommand /\ c # None /\ Start(p, c, None, None)
  BY Zenon DEF StartNext
<1>1. PICK v : /\ proc' = [proc EXCEPT ![p] = v]
               /\ v.newer = {} /\ v.unset = {Saves(c)} /\ v.command = c
               /\ v.client = Get("client", "client")
  BY <1>0, StartedPlain
<1>2. /\ config' = config /\ following' = following /\ stale' = stale /\ near' = near
      /\ following /\ \A q \in Procs : proc[q] = Idle
  BY Zenon DEF StartNext, Start, chains
<1>3. Saves(c) \notin DOMAIN config
  BY Zenon, <1>0, NextUnsaved
<1>4. /\ proc'[p].newer = {} /\ proc'[p].unset = {Saves(c)} /\ proc'[p].command = c
      /\ proc'[p].client = Get("client", "client")
      /\ \A q \in Procs : q # p => proc'[q] = Idle
  BY Zenon, <1>1, <1>2 DEF IInv, DeployTypeOK
<1>5. Followed(proc'[p], config)
  BY Zenon, <1>2, <1>3, <1>4 DEF Followed, FInv, Unmarked, Get
<1> QED
  BY Zenon, <1>2, <1>4, <1>5 DEF FInv

(* What is saved for the first time marks only the roles that depend on it. *)
LEMMA RestaledPlain ==
  ASSUME NEW p \in Procs, NEW name, proc[p].newer = {}, proc[p].unset = {name},
         Saves(proc[p].command) = name
  PROVE  /\ \A y \in Links(name) : <<name, y>> \in Restaled(p, name) => y = name
         /\ \A x, y : <<x, y>> \in Restaled(p, name) => <<x, y>> \in stale \/ y = name
<1>1. PICK c, n, u : c = proc[p].command /\ n = proc[p].newer /\ u = proc[p].unset
  BY Zenon
<1> QED
  BY <1>1 DEF Restaled

(* Saving, while README.md is followed, leaves nothing marked. *)
LEMMA SaveFInv == ASSUME IInv, FInv, NEW p \in Procs, save(p) PROVE FInv'
<1>1. PICK name \in proc[p].unset :
        /\ Setting(proc[p], name) /\ Saved(config, config', proc[p], name)
        /\ stale' = Restaled(p, name) /\ proc' = ProcsAfter(p, name)
  <2>1. PICK name \in proc[p].unset :
          /\ config' = Put(config, name, Value(p, name)) /\ stale' = Restaled(p, name)
          /\ proc' = ProcsAfter(p, name)
    BY Zenon DEF save, ProcsAfter
  <2> QED
    BY Zenon, <2>1, SaveOf
<1>2. following' = following /\ near' = near /\ proc[p] # Idle
  BY Zenon DEF save, chains, bounds, At
<1> SUFFICES ASSUME following' PROVE FInv'
  BY Zenon DEF FInv
<1>3. following
  BY <1>2
<1>4. /\ proc[p].newer = {} /\ proc[p].unset = {name} /\ name = Saves(proc[p].command)
      /\ name \notin DOMAIN config /\ Unmarked(config, stale) /\ ProverLink(near)
  BY Zenon, <1>1, <1>2, <1>3 DEF FInv, Followed
<1>5. name \in EthRoles \cup {"factory", "clientKey"} /\ name # "client"
  BY Zenon, <1>1, <1>4, SavesTable DEF Setting, EthRoles
<1>6. \A q \in Procs : proc'[q] = Idle
  BY Zenon, <1>1, <1>2, <1>3, <1>4 DEF ProcsAfter, FInv
<1>7. /\ \A y \in Links(name) : <<name, y>> \in stale' => y = name
      /\ \A x, y : <<x, y>> \in stale' => <<x, y>> \in stale \/ y = name
  BY Zenon, <1>1, <1>4, RestaledPlain
<1>8. ASSUME NEW x \in {"ethClient", "ethProver", "locker", "factory"} \cap DOMAIN config',
             NEW y \in Links(x), <<x, y>> \in stale'
      PROVE  FALSE
  <2>1. CASE x = name
    BY Zenon, <1>7, <1>8, <2>1, LinksOther DEF EthRoles
  <2>2. CASE x # name
    <3>1. x \in DOMAIN config
      BY Zenon, <1>1, <1>8, <2>2 DEF Saved
    <3>2. <<x, y>> \notin stale
      BY Zenon, <1>4, <1>8, <3>1 DEF Unmarked
    <3>3. y \in DOMAIN config
      BY Zenon, <1>8, <3>1, <3>2 DEF IInv, SavedExists
    <3> QED
      BY Zenon, <1>4, <1>7, <1>8, <3>2, <3>3
  <2> QED
    BY Zenon, <2>1, <2>2
<1>9. KeyPair \notin stale' /\ <<"prover", "client">> \notin stale'
  BY Zenon, <1>4, <1>5, <1>7 DEF Unmarked, KeyPair
<1>10. "client" \notin DOMAIN config'
  BY Zenon, <1>1, <1>4, <1>5 DEF Saved, Unmarked
<1>11. Unmarked(config', stale')
  BY Zenon, <1>8, <1>9, <1>10 DEF Unmarked
<1> QED
  BY Zenon, <1>2, <1>4, <1>6, <1>11 DEF FInv

-----------------------------------------------------------------------------

(* The invariant holds while nothing is deployed. *)
LEMMA InitIInv == Init => IInv /\ FInv
<1> SUFFICES ASSUME Init PROVE IInv /\ FInv
  BY Zenon
<1>1. IInv
  BY DEF Init, AreContracts, AreAccounts, IsConfig, IInv, DeployTypeOK, KeyFits, LinksFit,
         SavedExists
<1>2. DOMAIN config = {} /\ stale = {} /\ \A p \in Procs : proc[p] = Idle
  BY DEF Init
<1>3. near["prover"] = Absent
  BY DEF Init, NearAccounts
<1> QED
  BY Zenon, <1>1, <1>2, <1>3 DEF FInv, Unmarked, ProverLink

(* The next command of README.md is one of its commands. *)
LEMMA NextIsCommand == NextCommand # None => NextCommand \in Commands
  BY DEF NextCommand, Setup, Commands

(* Every step keeps the invariant. *)
LEMMA NextIInv == IInv /\ [Next]_vars => IInv'
<1> SUFFICES ASSUME IInv, [Next]_vars PROVE IInv'
  BY Zenon
<1>1. ASSUME NEW p \in Procs, StartNext(p) PROVE IInv'
  BY Zenon, <1>1, NextIsCommand, StartInv DEF StartNext
<1>2. ASSUME NEW p \in Procs, StartAny(p) PROVE IInv'
  BY Zenon, <1>2, StartInv DEF StartAny, NearContracts
<1>3. ASSUME NEW p \in Procs, Call(p) PROVE IInv'
  BY Zenon, <1>3, StatusInv, CreateFailsInv, CreateInv, DeployInv, CreateReturnsInv, VerifyInv,
     InitClientInv, InitProverInv, NewFactoryInv, TokenInv, SendInv, SaveInv DEF Call
<1>4. CASE UNCHANGED vars
  BY Zenon, <1>4 DEF vars, IInv, DeployTypeOK, LinksFit, LinkOf
<1> QED
  BY Zenon, <1>1, <1>2, <1>3, <1>4, LateCreateInv, ExitStep DEF Next, Killed

(* And what holds while README.md is followed. *)
LEMMA NextFInv == IInv /\ FInv /\ [Next]_vars => FInv'
<1> SUFFICES ASSUME IInv, FInv, [Next]_vars PROVE FInv'
  BY Zenon
<1>1. ASSUME NEW p \in Procs, StartAny(p) PROVE FInv'
  BY Zenon, <1>1 DEF StartAny, FInv
<1>2. ASSUME NEW p \in Procs,
             \/ getAccountStatus(p) \/ createAccountFails(p) \/ maybeCreateAccountReturns(p)
             \/ verifyAccount(p) \/ send(p) \/ Killed(p)
      PROVE  FInv'
  <2>1. near' = near
    BY Zenon, <1>2 DEF getAccountStatus, createAccountFails, maybeCreateAccountReturns,
                       verifyAccount, send, Killed, chains
  <2> QED
    BY Zenon, <1>2, <2>1, QuietFInv
<1>3. CASE UNCHANGED vars
  BY Zenon, <1>3 DEF vars, FInv
<1> QED
  BY Zenon, <1>1, <1>2, <1>3, LateFInv, CreateFInv, CodeFInv, ClientFInv, FactoryFInv, ProverFInv,
     StartNextFInv, SaveFInv DEF Next, Call

(* Whatever commands run, in whatever order and however many at a time, and *)
(* whichever of their calls fail, take effect late or are cut short: the    *)
(* key in the config file is the key of the client's account, always while  *)
(* README.md is followed, and otherwise unless the two were set by commands *)
(* that overlapped or by one that was cut between them.                     *)
THEOREM ConfigKeyFitsAlways == Spec => []ConfigKeyFits
<1>1. IInv /\ FInv => ConfigKeyFits
  BY Zenon DEF IInv, FInv, Unmarked, KeyFits, KeyPair, ConfigKeyFits, InStep, ClientAccount,
               ClientIn, Get
<1> QED
  BY InitIInv, NextIInv, NextFInv, <1>1, PTL DEF Spec

(* In the same cases, the contracts that the config file names are linked  *)
(* to each other, except where one was deployed anew.                      *)
THEOREM LinksCurrentAlways == Spec => []LinksCurrent
<1>1. ASSUME IInv, FInv PROVE LinksCurrent
  <2>1. ASSUME NEW x \in {"ethClient", "ethProver", "locker", "factory"} \cap DOMAIN config,
               NEW y \in Links(x), InStep(x, y)
        PROVE  LinkOf(x)[y] = config[y]
    BY Zenon, <1>1, <2>1 DEF IInv, FInv, Unmarked, LinksFit, InStep
  <2>2. ASSUME "clientKey" \in DOMAIN config, InStep("clientKey", "client"),
               InStep("prover", "client")
        PROVE  near["prover"].link = ClientAccount
    BY Zenon, <1>1, <2>2 DEF IInv, FInv, Unmarked, KeyFits, KeyPair, InStep, ClientAccount,
                             ClientIn, Get
  <2> QED
    BY Zenon, <2>1, <2>2 DEF LinksCurrent
<1>2. IInv /\ FInv => LinksCurrent
  BY Zenon, <1>1
<1> QED
  BY InitIInv, NextIInv, NextFInv, <1>2, PTL DEF Spec

(* Every address that is saved, or was read by a running command, is that  *)
(* of a contract in its role, whose links go to earlier contracts.         *)
THEOREM DeployTypeCorrect == Spec => []DeployTypeOK
<1>1. IInv => DeployTypeOK
  BY Zenon DEF IInv
<1> QED
  BY InitIInv, NextIInv, <1>1, PTL DEF Spec

=============================================================================
