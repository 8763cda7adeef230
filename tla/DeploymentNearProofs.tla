-------------------------- MODULE DeploymentNearProofs -----------------------
(***************************************************************************)
(* The inductive invariant of a deployment, and the proof that creating    *)
(* the NEAR accounts, deploying their code and verifying it keep it.       *)
(*                                                                         *)
(* The parts of the invariant are predicates of the values they relate, so *)
(* that one lemma says of each that it outlasts the steps of others.       *)
(***************************************************************************)
EXTENDS Deployment, TLAPS
USE SMTT(30)

NearContracts == "init-near-contracts"
TokenFactory == "init-near-token-factory"

(* What a command that has come so far has found or made on NEAR. *)
NearProgress(r, n, s) ==
  r.command = NearContracts =>
    /\ r.at >= 2 \/ r.sub \in {"deploying", "created"} => n[r.client] # Absent
    /\ r.at >= 3 => n[r.client].key = r.key
    /\ r.at >= 4 \/ (r.at = 3 /\ r.sub \in {"deploying", "created"}) => n["prover"] # Absent
    /\ r.at >= 6 => n[r.client].link # None
    /\ r.at >= 7 => n["prover"].link = r.client \/ <<"prover", "client">> \in s

FactoryProgress(r, n) ==
  r.command = TokenFactory =>
    /\ r.at >= 2 \/ r.sub \in {"deploying", "created"} => n["factory"] # Absent
    /\ r.at >= 3 => /\ "locker" \in DOMAIN r.inputs
                    /\ n["factory"].link = r.inputs["locker"]

(* The contract that was deployed has the links that were read. *)
EthProgress(r, e) ==
  r.command \notin {NearContracts, TokenFactory} /\ r.at = 2 =>
    /\ r.made \in DOMAIN e /\ e[r.made].role = Saves(r.command)
    /\ \A y \in Links(Saves(r.command)) :
         y \in DOMAIN r.inputs /\ e[r.made].links[y] = r.inputs[y]

(* An address that a command has read is the saved one, or was replaced    *)
(* since.                                                                  *)
FreshInputs(r, c) ==
  \A y \in EthRoles \cap DOMAIN r.inputs :
    y \notin r.newer => y \in DOMAIN c /\ c[y] = r.inputs[y]

ClientIn(c) == IF "client" \in DOMAIN c THEN c["client"] ELSE "client"

(* The account and the key of a command are the saved ones, or it is still *)
(* to set them, or another has set them since.                             *)
FreshClient(r, c) ==
  r.command = NearContracts =>
    /\ "client" \notin r.newer \cup r.unset => r.client = ClientIn(c)
    /\ "clientKey" \notin r.newer \cup r.unset =>
         "clientKey" \in DOMAIN c /\ c["clientKey"] = r.key

Progress(r, n, e, c, s) ==
  /\ NearProgress(r, n, s) /\ FactoryProgress(r, n) /\ EthProgress(r, e)
  /\ FreshInputs(r, c) /\ FreshClient(r, c)

(* What is saved is there. *)
SavedExists(c, n, s) ==
  /\ "clientKey" \in DOMAIN c => n["prover"] # Absent
  /\ "factory" \in DOMAIN c => n["factory"] # Absent /\ n["factory"].link # None
  /\ \A x \in {"ethClient", "ethProver", "locker", "factory"} \cap DOMAIN c :
       \A y \in Links(x) : <<x, y>> \notin s => y \in DOMAIN c

(* ConfigKeyFits and LinksCurrent where a pair is not in the history.      *)
KeyFits(c, n, s) ==
  "clientKey" \in DOMAIN c /\ <<"clientKey", "client">> \notin s =>
    /\ n[ClientIn(c)] # Absent
    /\ n[ClientIn(c)].key = c["clientKey"]
    /\ n[ClientIn(c)].link # None
    /\ n["prover"].link = ClientIn(c) \/ <<"prover", "client">> \in s

LinksFit ==
  \A x \in {"ethClient", "ethProver", "locker", "factory"} \cap DOMAIN config :
    \A y \in Links(x) : <<x, y>> \notin stale => LinkOf(x)[y] = config[y]

IInv ==
  /\ DeployTypeOK /\ KeyFits(config, near, stale) /\ LinksFit
  /\ SavedExists(config, near, stale)
  /\ \A p \in Procs : proc[p] # Idle => Progress(proc[p], near, eth, config, stale)

-----------------------------------------------------------------------------
(* The tables of the commands.                                             *)

(* The plan of each command, and the role that it saves. *)
LEMMA PlanTable ==
  ASSUME NEW c \in Commands
  PROVE  \/ c = NearContracts /\ Plan(c) = InitNearContracts
         \/ c = TokenFactory /\ Plan(c) = InitNearTokenFactory
         \/ /\ c \notin {NearContracts, TokenFactory}
            /\ \E r \in EthRoles : Plan(c) = EthContract(r)
  BY DEF Commands, Setup, Plan, NearContracts, TokenFactory, EthRoles

(* The addresses that the contract of a role is given. *)
LEMMA LinksTable ==
  /\ Links("ed25519") = {} /\ Links("erc20") = {} /\ Links("client") = {}
  /\ Links("ethClient") = {"ed25519"} /\ Links("ethProver") = {"ethClient"}
  /\ Links("locker") = {"ethProver"} /\ Links("factory") = {"locker"}
  /\ Links("clientKey") = {"client"}
  BY Zenon DEF Links

(* The calls of a command, and where they stand in its plan. *)
IsAt(r, here) ==
  \/ /\ r.command = NearContracts /\ Len(Plan(r.command)) = 7
     /\ \/ r.at = 1 /\ here = [call |-> "create", of |-> "client"]
        \/ r.at = 2 /\ here = [call |-> "verify", of |-> "client"]
        \/ r.at = 3 /\ here = [call |-> "create", of |-> "prover"]
        \/ r.at = 4 /\ here = [call |-> "verify", of |-> "prover"]
        \/ r.at = 5 /\ here = [call |-> "initClient", of |-> "client"]
        \/ r.at = 6 /\ here = [call |-> "initProver", of |-> "prover"]
        \/ r.at = 7 /\ here = [call |-> "save", of |-> "clientKey"]
  \/ /\ r.command = TokenFactory /\ Len(Plan(r.command)) = 5
     /\ \/ r.at = 1 /\ here = [call |-> "create", of |-> "factory"]
        \/ r.at = 2 /\ here = [call |-> "new", of |-> "factory"]
        \/ r.at = 3 /\ here = [call |-> "verify", of |-> "factory"]
        \/ r.at = 4 /\ here = [call |-> "token", of |-> "factory"]
        \/ r.at = 5 /\ here = [call |-> "save", of |-> "factory"]
  \/ /\ r.command \notin {NearContracts, TokenFactory}
     /\ Len(Plan(r.command)) = 2 /\ Saves(r.command) \in EthRoles
     /\ \/ r.at = 1 /\ here = [call |-> "send", of |-> Saves(r.command)]
        \/ r.at = 2 /\ here = [call |-> "save", of |-> Saves(r.command)]

(* A process is at the call that its plan has there. *)
LEMMA Where ==
  ASSUME NEW r, NEW e, IsProcess(r, e)
  PROVE  IsAt(r, Plan(r.command)[r.at])
<1> USE DEF IsAt
<1> DEFINE c == r.command
<1>1. c \in Commands /\ r.at \in 1..Len(Plan(c))
  BY Zenon DEF IsProcess
<1>2. CASE c = NearContracts /\ Plan(c) = InitNearContracts
  BY <1>1, <1>2 DEF InitNearContracts
<1>3. CASE /\ c \notin {NearContracts, TokenFactory}
           /\ \E x \in EthRoles : Plan(c) = EthContract(x)
  BY <1>3, <1>1 DEF Saves, EthContract
<1> QED
  BY <1>1, <1>2, <1>3, PlanTable DEF InitNearTokenFactory

-----------------------------------------------------------------------------
(* What the steps of others leave.                                         *)

(* Accounts are not removed, their keys stay, and a link is set once. *)
Grown(n, m) ==
  \A a \in NearAccounts : n[a] # Absent =>
    /\ m[a] # Absent /\ m[a].key = n[a].key
    /\ n[a].link # None => m[a].link = n[a].link

(* Contracts are not removed and do not change. *)
Longer(e, f) == \A i \in DOMAIN e : i \in DOMAIN f /\ f[i] = e[i]

(* An account is not the absence of one. *)
LEMMA AccountPresent == \A r : IsAccount(r) => r # Absent
  BY DeployAssumption DEF IsAccount, Absent

(* A running process is not idle. *)
LEMMA ProcessBusy == \A r, e : IsProcess(r, e) => r # Idle
  BY DeployAssumption DEF IsProcess, Idle

(* The accounts after the entry of one is replaced, and after one that is  *)
(* not there is created.                                                   *)
Placed(n, a, v) == [n EXCEPT ![a] = v]

Created(n, a, k) == IF n[a] = Absent THEN Placed(n, a, NewAccount(k)) ELSE n

(* The accounts after the code, the link or the tokens of one have changed. *)
WithCode(n, a, code) == [n EXCEPT ![a].code = code]

WithLink(n, a, link) == [n EXCEPT ![a].link = link]

WithTokens(n, a, tokens) == [n EXCEPT ![a].tokens = tokens]

(* An account that is created, or whose entry is replaced by one with the  *)
(* same key that keeps a link that was set, keeps the accounts as they     *)
(* should be.                                                              *)
LEMMA AccountSet ==
  ASSUME NEW n, AreAccounts(n), NEW a \in NearAccounts, NEW v, IsAccount(v),
         n[a] # Absent => v.key = n[a].key /\ (n[a].link # None => v.link = n[a].link)
  PROVE  /\ AreAccounts(Placed(n, a, v)) /\ Grown(n, Placed(n, a, v))
         /\ Placed(n, a, v)[a] = v
  BY Zenon, AccountPresent DEF AreAccounts, Placed, Grown

(* What a command has come to outlasts what others do on the chains. *)
LEMMA ProgressKept ==
  ASSUME NEW r, NEW n, NEW m, NEW e, NEW f, NEW c, NEW s, NEW t,
         IsProcess(r, e), AreContracts(e), Grown(n, m), Longer(e, f), s \subseteq t,
         Progress(r, n, e, c, s)
  PROVE  IsProcess(r, f) /\ Progress(r, m, f, c, t)
<1>1. /\ r.client \in NearAccounts /\ r.client # None /\ r.at \in Nat
      /\ FactoryProgress(r, m)
  BY DeployAssumption
     DEF IsProcess, NearAccounts, IsConfig, EthRoles, AreContracts, Progress,
         FactoryProgress, Grown
<1> QED
  BY <1>1
     DEF Progress, IsProcess, IsConfig, Longer, NearProgress, Grown, NearAccounts,
         EthProgress, FreshInputs, FreshClient

(* A step that leaves the config file, and adds to the chains only what    *)
(* they may get, keeps the invariant, when each process stays as it is,    *)
(* ends or goes on as it may.                                              *)
LEMMA StepKept ==
  ASSUME IInv, config' = config, following' \in {following, FALSE}, stale \subseteq stale',
         AreContracts(eth'), Longer(eth, eth'), AreAccounts(near'), Grown(near, near'),
         pending' \subseteq [account : NearAccounts, key : KeyNames],
         proc' = [p \in Procs |-> proc'[p]],
         \A p \in Procs :
           \/ proc'[p] \in {Idle, proc[p]}
           \/ IsProcess(proc'[p], eth') /\ Progress(proc'[p], near', eth', config, stale')
  PROVE  IInv'
<1>1. IsConfig(config, eth')
  BY Zenon DEF IInv, DeployTypeOK, IsConfig, Longer
<1>2. ASSUME NEW p \in Procs, proc'[p] # Idle
      PROVE  IsProcess(proc'[p], eth') /\ Progress(proc'[p], near', eth', config, stale')
  BY <1>2, ProgressKept DEF IInv, DeployTypeOK
<1>3. DeployTypeOK'
  BY Zenon, <1>1, <1>2 DEF IInv, DeployTypeOK
<1> QED
  BY <1>2, <1>3, DeployAssumption
     DEF IInv, SavedExists, Grown, NearAccounts, DeployTypeOK, IsConfig, KeyFits, ClientIn,
         LinksFit, LinkOf, EthRoles, Longer

(* Two records of a process that has got from one call to another, or to   *)
(* another part of the same call.                                          *)
Same(v, r) ==
  /\ v.command = r.command /\ v.client = r.client /\ v.key = r.key
  /\ v.inputs = r.inputs /\ v.unset = r.unset /\ v.last = r.last /\ v.newer = r.newer

(* The process after it has gone to another part of its call or has tried  *)
(* again, and after it has gone on to its next call.                       *)
Within(r, s, k) == [r EXCEPT !.sub = s, !.tries = k]

Onward(r) == [r EXCEPT !.at = @ + 1, !.sub = "begin", !.tries = 0]

(* The process goes to another part of its call, or tries again. *)
LEMMA SubSet ==
  ASSUME NEW r, NEW e, IsProcess(r, e), NEW k \in Nat,
         NEW s \in Parts
  PROVE  /\ IsProcess(Within(r, s, k), e) /\ Same(Within(r, s, k), r)
         /\ Within(r, s, k).at = r.at /\ Within(r, s, k).sub = s
         /\ Within(r, s, k).made = r.made
<1>1. PICK v : v = [r EXCEPT !.sub = s, !.tries = k]
  BY Zenon
<1>2. IsProcess(v, e) /\ Same(v, r) /\ v.at = r.at /\ v.sub = s /\ v.made = r.made
  BY Zenon, <1>1 DEF IsProcess, Same
<1> QED
  BY Zenon, <1>1, <1>2 DEF Within

(* The process goes on to its next call. *)
LEMMA AtSet ==
  ASSUME NEW r, NEW e, IsProcess(r, e), r.at < Len(Plan(r.command)),
         Len(Plan(r.command)) \in Nat
  PROVE  /\ IsProcess(Onward(r), e) /\ Same(Onward(r), r) /\ Onward(r).at = r.at + 1
         /\ Onward(r).sub = "begin" /\ Onward(r).made = r.made
<1>1. PICK v : v = [r EXCEPT !.at = @ + 1, !.sub = "begin", !.tries = 0]
  BY Zenon
<1>2. /\ Same(v, r) /\ v.at = r.at + 1 /\ v.sub = "begin" /\ v.made = r.made /\ v.tries = 0
      /\ v = [command |-> v.command, at |-> v.at, sub |-> v.sub, tries |-> v.tries,
              client |-> v.client, key |-> v.key, inputs |-> v.inputs, made |-> v.made,
              unset |-> v.unset, last |-> v.last, newer |-> v.newer]
  BY Zenon, <1>1 DEF IsProcess, Same
<1> QED
  BY <1>1, <1>2 DEF Onward, IsProcess, Same, Parts

(* What does not change has grown. *)
LEMMA NothingLost == \A n : Grown(n, n) /\ Longer(n, n)
  BY Zenon DEF Grown, Longer

(* A step of one process that leaves the config file. *)
LEMMA ProcessStep ==
  ASSUME IInv, NEW p \in Procs, config' = config, following' \in {following, FALSE},
         stale \subseteq stale',
         AreContracts(eth'), Longer(eth, eth'), AreAccounts(near'), Grown(near, near'),
         pending' \subseteq [account : NearAccounts, key : KeyNames],
         NEW v, proc' = [proc EXCEPT ![p] = v],
         \/ v = Idle
         \/ IsProcess(v, eth') /\ Progress(v, near', eth', config, stale')
  PROVE  IInv'
<1>1. /\ proc' = [q \in Procs |-> proc'[q]]
      /\ proc'[p] = v /\ \A q \in Procs : q # p => proc'[q] = proc[q]
  BY Zenon DEF IInv, DeployTypeOK
<1> QED
  BY Zenon, <1>1, StepKept

(* The same, when nothing changes on the chains. *)
LEMMA QuietStep ==
  ASSUME IInv, NEW p \in Procs, UNCHANGED <<chains, config, stale>>,
         following' \in {following, FALSE}, NEW v, proc' = [proc EXCEPT ![p] = v],
         v = Idle \/ (IsProcess(v, eth) /\ Progress(v, near, eth, config, stale))
  PROVE  IInv'
<1>1. /\ eth' = eth /\ near' = near /\ pending' = pending /\ config' = config
      /\ stale' = stale
      /\ AreContracts(eth') /\ AreAccounts(near')
      /\ pending' \subseteq [account : NearAccounts, key : KeyNames]
      /\ Longer(eth, eth') /\ Grown(near, near') /\ stale \subseteq stale'
  BY Zenon, NothingLost DEF chains, IInv, DeployTypeOK
<1> QED
  BY Zenon, <1>1, ProcessStep

(* A command that ends has nothing left to keep. *)
LEMMA ExitStep ==
  ASSUME IInv, NEW p \in Procs, Exit(p), UNCHANGED <<chains, config, following, stale>>
  PROVE  IInv'
  BY Zenon, QuietStep DEF Exit

(* What the invariant says of a running process. *)
LEMMA Running ==
  ASSUME IInv, NEW p \in Procs, proc[p] # Idle
  PROVE  /\ IsProcess(proc[p], eth) /\ Progress(proc[p], near, eth, config, stale)
         /\ AreContracts(eth) /\ AreAccounts(near)
         /\ pending \subseteq [account : NearAccounts, key : KeyNames]
         /\ proc = [q \in Procs |-> proc[q]]
         /\ proc[p].client \in NearAccounts /\ proc[p].key \in KeyNames
         /\ {"prover", "factory"} \subseteq NearAccounts
         /\ IsAt(proc[p], Step(p))
<1>1. IsProcess(proc[p], eth)
  BY Zenon DEF IInv, DeployTypeOK
<1>2. proc[p].client \in NearAccounts /\ {"prover", "factory"} \subseteq NearAccounts
  BY Zenon, <1>1 DEF IsProcess, NearAccounts
<1>3. IsAt(proc[p], Step(p))
  BY Zenon, <1>1, Where DEF Step
<1>4. proc[p].key \in KeyNames
  BY Zenon, <1>1 DEF IsProcess
<1> QED
  BY Zenon, <1>1, <1>2, <1>3, <1>4 DEF IInv, DeployTypeOK

-----------------------------------------------------------------------------
(* maybeCreateAccount                                                      *)

(* The account that is to be created, and the key that it is to get. *)
LEMMA CreatesAccount ==
  ASSUME IInv, NEW p \in Procs, At(p, "create")
  PROVE  /\ proc[p] # Idle /\ Account(p) \in NearAccounts /\ Key(p) \in KeyNames
         /\ Step(p).of \in {"client", "prover", "factory"}
         /\ \/ /\ proc[p].command = NearContracts /\ proc[p].at = 1
               /\ Account(p) = proc[p].client
            \/ proc[p].command = NearContracts /\ proc[p].at = 3 /\ Account(p) = "prover"
            \/ proc[p].command = TokenFactory /\ proc[p].at = 1 /\ Account(p) = "factory"
         /\ Len(Plan(proc[p].command)) \in Nat /\ proc[p].at < Len(Plan(proc[p].command))
<1>1. proc[p] # Idle /\ Step(p).call = "create"
  BY Zenon DEF At
<1>2. PICK r, here : r = proc[p] /\ here = Step(p)
  BY Zenon
<1>3. Len(Plan(r.command)) \in Nat /\ r.at < Len(Plan(r.command))
  <2>1. PICK l, k : l = Len(Plan(r.command)) /\ k = r.at
    BY Zenon
  <2>2. l \in {5, 7} /\ k \in {1, 3}
    BY <1>1, <1>2, <2>1, Running DEF IsAt
  <2>3. l \in Nat /\ k < l
    BY <2>2
  <2> QED
    BY Zenon, <2>1, <2>3
<1> QED
  BY <1>1, <1>2, <1>3, Running DEF KeyNames, Account, Key, IsAt

(* Any part of the creation may come next, the ones after the account is   *)
(* created only when it exists.                                            *)
LEMMA CreateProgress ==
  ASSUME IInv, NEW p \in Procs, At(p, "create"), NEW n, Grown(near, n), NEW k \in Nat,
         NEW s \in Parts,
         s \in {"deploying", "created"} => n[Account(p)] # Absent
  PROVE  /\ IsProcess(Within(proc[p], s, k), eth)
         /\ Progress(Within(proc[p], s, k), n, eth, config, stale)
<1> DEFINE v == Within(proc[p], s, k)
<1>1. /\ IsProcess(v, eth) /\ Same(v, proc[p]) /\ v.at = proc[p].at /\ v.sub = s
      /\ v.made = proc[p].made
      /\ Progress(proc[p], n, eth, config, stale)
  BY CreatesAccount, Running, SubSet, ProgressKept, NothingLost
<1> HIDE DEF v
<1>2. EthProgress(v, eth) /\ FreshInputs(v, config) /\ FreshClient(v, config)
  BY Zenon, <1>1 DEF Progress, Same, EthProgress, FreshInputs, FreshClient
<1>3. NearProgress(v, n, stale) /\ FactoryProgress(v, n)
  BY <1>1, CreatesAccount
     DEF Progress, FactoryProgress, NearProgress, Same, NearContracts, TokenFactory
<1> QED
  BY Zenon, <1>1, <1>2, <1>3 DEF Progress, v

(* A failed attempt is followed by another, or is the last. *)
LEMMA CreateRetry ==
  ASSUME IInv, NEW p \in Procs, At(p, "create"),
         \/ Exit(p)
         \/ proc' = [proc EXCEPT ![p].tries = @ + 1]
  PROVE  \E v : /\ proc' = [proc EXCEPT ![p] = v]
                /\ \/ v = Idle
                   \/ IsProcess(v, eth) /\ Progress(v, near, eth, config, stale)
<1>1. IsProcess(proc[p], eth) /\ Progress(proc[p], near, eth, config, stale)
  BY Zenon, CreatesAccount, Running
<1>2. CASE Exit(p)
  BY Zenon, <1>2 DEF Exit
<1>3. CASE proc' = [proc EXCEPT ![p].tries = @ + 1]
  <2> DEFINE v == Within(proc[p], proc[p].sub, proc[p].tries + 1)
  <2>1. proc' = [proc EXCEPT ![p] = v]
    BY Zenon, <1>1, <1>3 DEF IsProcess, Within
  <2>2. /\ proc[p].tries + 1 \in Nat
        /\ proc[p].sub \in Parts
    BY <1>1 DEF IsProcess
  <2>3. proc[p].sub \in {"deploying", "created"} => near[Account(p)] # Absent
    BY Zenon, <1>1, CreatesAccount
       DEF Progress, NearProgress, FactoryProgress, NearContracts, TokenFactory
  <2>4. IsProcess(v, eth) /\ Progress(v, near, eth, config, stale)
    BY Zenon, <2>2, <2>3, CreateProgress, NothingLost
  <2> HIDE DEF v
  <2> QED
    BY Zenon, <2>1, <2>4
<1> QED
  BY Zenon, <1>2, <1>3

(* getAccountStatus keeps the invariant. *)
LEMMA StatusInv == ASSUME IInv, NEW p \in Procs, getAccountStatus(p) PROVE IInv'
<1>1. PICK s \in Parts :
        Sub(p, s) /\ (s \in {"deploying", "created"} => near[Account(p)] # Absent)
  BY Zenon DEF getAccountStatus, Parts
<1>2. proc' = [proc EXCEPT ![p] = Within(proc[p], s, 0)]
  BY Zenon, <1>1 DEF Sub, Within
<1>3. At(p, "create") /\ UNCHANGED <<chains, config, following, stale>>
  BY Zenon DEF getAccountStatus
<1> QED
  BY Zenon, <1>1, <1>2, <1>3, CreateProgress, NothingLost, QuietStep

(* An account that is not there is created with the key. *)
LEMMA AccountCreated ==
  ASSUME NEW n, AreAccounts(n), NEW a \in NearAccounts, NEW k \in KeyNames
  PROVE  /\ AreAccounts(Created(n, a, k)) /\ Grown(n, Created(n, a, k))
         /\ Created(n, a, k)[a] # Absent
  BY AccountSet, AccountPresent, NothingLost DEF IsAccount, NewAccount, Created

(* createAccountFails keeps the invariant. *)
LEMMA CreateFailsInv == ASSUME IInv, NEW p \in Procs, createAccountFails(p) PROVE IInv'
  BY CreatesAccount, CreateRetry, NothingLost, ProcessStep
     DEF createAccountFails, IInv, DeployTypeOK

(* createAccount keeps the invariant. *)
LEMMA CreateInv == ASSUME IInv, NEW p \in Procs, createAccount(p) PROVE IInv'
<1>1. /\ At(p, "create")
      /\ eth' = eth /\ pending' = pending /\ config' = config /\ following' = following
      /\ stale' = stale
  BY Zenon DEF createAccount, bounds
<1>2. AreAccounts(near') /\ Grown(near, near') /\ near'[Account(p)] # Absent
  BY <1>1, CreatesAccount, AccountCreated
     DEF createAccount, Created, Placed, IInv, DeployTypeOK
<1>3. proc' = [proc EXCEPT ![p] = Within(proc[p], "deploying", 0)]
  BY Zenon DEF createAccount, Sub, Within
<1> QED
  BY Zenon, <1>1, <1>2, <1>3, CreateProgress, NothingLost, ProcessStep
     DEF IInv, DeployTypeOK, Parts

(* So does a creation that is executed late. *)
LEMMA LateCreateInv == ASSUME IInv, LateCreate PROVE IInv'
<1>1. PICK tx \in pending :
        /\ pending' = pending \ {tx}
        /\ near' = IF near[tx.account] = Absent
                   THEN [near EXCEPT ![tx.account] = NewAccount(tx.key)] ELSE near
  BY Zenon DEF LateCreate
<1>2. /\ AreContracts(eth) /\ AreAccounts(near) /\ proc = [p \in Procs |-> proc[p]]
      /\ pending \subseteq [account : NearAccounts, key : KeyNames]
  BY Zenon DEF IInv, DeployTypeOK
<1> QED
  BY Zenon, <1>1, <1>2, AccountCreated, NothingLost, StepKept
     DEF Created, Placed, LateCreate, bounds

(* The account that a contract is deployed to exists, and keeps its key    *)
(* and its link.                                                           *)
LEMMA CodeSet ==
  ASSUME NEW n, AreAccounts(n), NEW a \in NearAccounts, n[a] # Absent,
         NEW code \in {"client", "prover", "factory"}
  PROVE  /\ AreAccounts(WithCode(n, a, code)) /\ Grown(n, WithCode(n, a, code))
         /\ WithCode(n, a, code)[a] # Absent
<1>1. PICK v : v = [n[a] EXCEPT !.code = code]
  BY Zenon
<1>2. IsAccount(v) /\ v.key = n[a].key /\ v.link = n[a].link
  BY <1>1 DEF AreAccounts, IsAccount
<1>3. /\ AreAccounts(Placed(n, a, v)) /\ Grown(n, Placed(n, a, v)) /\ Placed(n, a, v)[a] = v
  BY <1>2, AccountSet
<1> QED
  BY Zenon, <1>2, <1>1, <1>3, AccountPresent DEF Placed, WithCode

(* deployContract keeps the invariant. *)
LEMMA DeployInv == ASSUME IInv, NEW p \in Procs, deployContract(p) PROVE IInv'
<1>1. /\ At(p, "create") /\ proc[p].sub = "deploying"
      /\ eth' = eth /\ pending' = pending /\ config' = config /\ following' = following
      /\ stale' = stale
  BY Zenon DEF deployContract
<1>2. /\ AreContracts(eth) /\ AreAccounts(near)
      /\ pending \subseteq [account : NearAccounts, key : KeyNames]
  BY Zenon DEF IInv, DeployTypeOK
<1>3. near[Account(p)] # Absent /\ Account(p) \in NearAccounts
  BY <1>1, CreatesAccount, Running
     DEF Progress, NearProgress, FactoryProgress, NearContracts, TokenFactory
<1>4. CASE /\ near' = [near EXCEPT ![Account(p)].code = Step(p).of]
           /\ Exit(p) \/ Sub(p, "created")
  <2>1. AreAccounts(near') /\ Grown(near, near') /\ near'[Account(p)] # Absent
    <3>1. Step(p).of \in {"client", "prover", "factory"}
      BY Zenon, <1>1, CreatesAccount
    <3>2. near' = WithCode(near, Account(p), Step(p).of)
      BY Zenon, <1>4 DEF WithCode
    <3> QED
      BY Zenon, <1>2, <1>3, <3>1, <3>2, CodeSet
  <2>2. CASE Exit(p)
    BY Zenon, <1>1, <1>2, <2>1, <2>2, NothingLost, ProcessStep DEF Exit
  <2>3. CASE Sub(p, "created")
    <3>1. proc' = [proc EXCEPT ![p] = Within(proc[p], "created", 0)] /\ "created" \in Parts
      BY Zenon, <2>3 DEF Sub, Within, Parts
    <3>2. /\ IsProcess(Within(proc[p], "created", 0), eth)
          /\ Progress(Within(proc[p], "created", 0), near', eth, config, stale)
      BY Zenon, <1>1, <2>1, <3>1, CreateProgress
    <3> QED
      BY Zenon, <1>1, <1>2, <2>1, <3>1, <3>2, NothingLost, ProcessStep
  <2> QED
    BY Zenon, <1>4, <2>2, <2>3
<1> QED
  BY <1>1, <1>2, <1>4, CreateRetry, NothingLost, ProcessStep DEF deployContract

(* A command that goes on. *)
LEMMA GoesOn ==
  ASSUME IInv, NEW p \in Procs, proc[p] # Idle, GoOn(p)
  PROVE  proc' = [proc EXCEPT ![p] = Onward(proc[p])]
  BY Zenon DEF GoOn, Onward

(* When maybeCreateAccount returns, the account exists. *)
LEMMA CreateReturnsInv ==
  ASSUME IInv, NEW p \in Procs, maybeCreateAccountReturns(p) PROVE IInv'
<1>1. /\ At(p, "create") /\ proc[p].sub = "created" /\ GoOn(p)
      /\ UNCHANGED <<chains, config, following, stale>>
  BY Zenon DEF maybeCreateAccountReturns, bounds
<1>2. PICK r : r = proc[p]
  BY Zenon
<1>3. /\ IsProcess(r, eth) /\ Progress(r, near, eth, config, stale)
      /\ proc' = [proc EXCEPT ![p] = Onward(r)]
  BY Zenon, <1>1, <1>2, CreatesAccount, Running, GoesOn
<1>4. /\ \/ r.command = NearContracts /\ r.at \in {1, 3}
         \/ r.command = TokenFactory /\ r.at = 1
      /\ Len(Plan(r.command)) \in Nat /\ r.at < Len(Plan(r.command)) /\ r.sub = "created"
  BY Zenon, <1>1, <1>2, CreatesAccount
<1>5. /\ IsProcess(Onward(r), eth) /\ Same(Onward(r), r) /\ Onward(r).at = r.at + 1
      /\ Onward(r).sub = "begin"
  BY Zenon, <1>3, <1>4, AtSet
<1>6. Progress(Onward(r), near, eth, config, stale)
  BY <1>3, <1>4, <1>5
     DEF Progress, NearProgress, FactoryProgress, Same, NearContracts, TokenFactory,
         EthProgress, FreshInputs, FreshClient
<1> QED
  BY Zenon, <1>1, <1>3, <1>5, <1>6, QuietStep

-----------------------------------------------------------------------------
(* The other calls to NEAR.                                                *)

(* Which account and key such a call is about. *)
IsNearCall(r, call, a, k) ==
  \/ /\ r.command = NearContracts
     /\ \/ call = "verify" /\ r.at = 2 /\ a = r.client /\ k = r.key
        \/ call = "verify" /\ r.at = 4 /\ a = "prover"
        \/ call = "initClient" /\ r.at = 5 /\ a = r.client
        \/ call = "initProver" /\ r.at = 6 /\ a = "prover"
  \/ /\ r.command = TokenFactory /\ a = "factory"
     /\ \/ call = "new" /\ r.at = 2
        \/ call = "verify" /\ r.at = 3
        \/ call = "token" /\ r.at = 4

NearCalls == {"verify", "initClient", "initProver", "new", "token"}

(* The account of such a call exists, and the process can go on. *)
LEMMA NearCall ==
  ASSUME IInv, NEW p \in Procs, NEW call \in NearCalls, At(p, call)
  PROVE  /\ proc[p] # Idle /\ IsNearCall(proc[p], call, Account(p), Key(p))
         /\ IsProcess(proc[p], eth) /\ Progress(proc[p], near, eth, config, stale)
         /\ Account(p) \in NearAccounts /\ near[Account(p)] # Absent
         /\ IsProcess(Onward(proc[p]), eth) /\ Same(Onward(proc[p]), proc[p])
         /\ Onward(proc[p]).at = proc[p].at + 1 /\ Onward(proc[p]).sub = "begin"
<1>1. /\ proc[p] # Idle /\ Step(p).call = call
      /\ IsAt(proc[p], Step(p)) /\ proc[p].client \in NearAccounts
      /\ {"prover", "factory"} \subseteq NearAccounts
      /\ IsProcess(proc[p], eth) /\ Progress(proc[p], near, eth, config, stale)
  BY Zenon, Running DEF At
<1>2. PICK r, here, a, k : r = proc[p] /\ here = Step(p) /\ a = Account(p) /\ k = Key(p)
  BY Zenon
<1>3. /\ IsNearCall(r, call, a, k)
      /\ IsProcess(r, eth) /\ NearProgress(r, near, stale) /\ FactoryProgress(r, near)
  BY <1>2, <1>1 DEF IsAt, IsNearCall, NearCalls, Account, Key, Progress
<1>4. Len(Plan(r.command)) \in Nat /\ r.at < Len(Plan(r.command))
  <2>1. PICK l, i : l = Len(Plan(r.command)) /\ i = r.at
    BY Zenon
  <2>2. (l = 7 /\ i \in {2, 4, 5, 6}) \/ (l = 5 /\ i \in {2, 3, 4})
    BY <1>1, <1>2, <2>1 DEF IsAt, NearCalls
  <2>3. l \in Nat /\ i < l
    BY <2>2
  <2> QED
    BY Zenon, <2>1, <2>3
<1>5. /\ IsProcess(Onward(r), eth) /\ Same(Onward(r), r) /\ Onward(r).at = r.at + 1
       /\ Onward(r).sub = "begin"
  BY Zenon, <1>3, <1>4, AtSet
<1> QED
  BY <1>1, <1>2, <1>3, <1>5
     DEF IsNearCall, NearProgress, FactoryProgress, NearContracts, TokenFactory

(* What such a call has to leave, when it goes on and when it ends the     *)
(* command.                                                                *)
LEMMA NearCallInv ==
  ASSUME IInv, NEW p \in Procs, NEW call \in NearCalls, At(p, call),
         UNCHANGED <<eth, pending, config, following>>, stale \subseteq stale',
         AreAccounts(near'), Grown(near, near'),
         \/ Exit(p)
         \/ /\ GoOn(p)
            /\ NearProgress(Onward(proc[p]), near', stale')
            /\ FactoryProgress(Onward(proc[p]), near')
  PROVE  IInv'
<1>1. /\ eth' = eth /\ pending' = pending /\ config' = config /\ following' = following
      /\ AreContracts(eth) /\ pending \subseteq [account : NearAccounts, key : KeyNames]
  BY Zenon DEF IInv, DeployTypeOK
<1>2. CASE Exit(p)
  BY Zenon, <1>1, <1>2, NothingLost, ProcessStep DEF Exit
<1>3. CASE /\ GoOn(p)
           /\ NearProgress(Onward(proc[p]), near', stale')
           /\ FactoryProgress(Onward(proc[p]), near')
  <2>1. PICK r : r = proc[p]
    BY Zenon
  <2>2. /\ IsProcess(Onward(r), eth) /\ Same(Onward(r), r)
        /\ Progress(r, near, eth, config, stale) /\ r.command \in {NearContracts, TokenFactory}
        /\ proc' = [proc EXCEPT ![p] = Onward(r)]
    BY Zenon, <1>3, <2>1, NearCall, GoesOn DEF IsNearCall
  <2>3. EthProgress(Onward(r), eth) /\ FreshInputs(Onward(r), config)
        /\ FreshClient(Onward(r), config)
    BY Zenon, <2>2 DEF Progress, EthProgress, FreshInputs, FreshClient, Same
  <2>4. Progress(Onward(r), near', eth, config, stale')
    BY Zenon, <1>3, <2>1, <2>3 DEF Progress
  <2> QED
    BY Zenon, <1>1, <2>2, <2>4, NothingLost, ProcessStep
<1> QED
  BY Zenon, <1>2, <1>3

(* verifyAccount keeps the invariant. *)
LEMMA VerifyInv == ASSUME IInv, NEW p \in Procs, verifyAccount(p) PROVE IInv'
<1>1. /\ At(p, "verify") /\ near' = near /\ stale' = stale
      /\ UNCHANGED <<eth, pending, config, following>>
      /\ (near[Account(p)].key = Key(p) /\ GoOn(p)) \/ Exit(p)
  BY Zenon DEF verifyAccount, accountHasTheKey, chains, bounds
<1>2. "verify" \in NearCalls
  BY Zenon DEF NearCalls
<1>3. AreAccounts(near') /\ Grown(near, near') /\ stale \subseteq stale'
  BY Zenon, <1>1, NothingLost DEF IInv, DeployTypeOK
<1>4. ASSUME near[Account(p)].key = Key(p)
      PROVE  NearProgress(Onward(proc[p]), near, stale) /\ FactoryProgress(Onward(proc[p]), near)
  <2>1. PICK r, v, a, k : r = proc[p] /\ v = Onward(proc[p]) /\ a = Account(p) /\ k = Key(p)
    BY Zenon
  <2>2. /\ IsNearCall(r, "verify", a, k) /\ Progress(r, near, eth, config, stale)
        /\ Same(v, r) /\ v.at = r.at + 1 /\ v.sub = "begin" /\ near[a].key = k
    BY Zenon, <1>1, <1>2, <1>4, <2>1, NearCall
  <2>3. NearProgress(v, near, stale) /\ FactoryProgress(v, near)
    BY <2>2 DEF IsNearCall, Progress, NearProgress, FactoryProgress, Same, NearContracts,
                TokenFactory
  <2> QED
    BY Zenon, <2>1, <2>3
<1> QED
  BY Zenon, <1>1, <1>2, <1>3, <1>4, NearCallInv

=============================================================================
