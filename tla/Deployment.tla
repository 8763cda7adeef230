----------------------------- MODULE Deployment ------------------------------
(***************************************************************************)
(* The commands that deploy the bridge: cli/init/*.js with the helpers of  *)
(* utils/helpers.js and the maybeInitialize methods of the two contracts   *)
(* on NEAR.  Each command takes the addresses that earlier commands left   *)
(* in the config file, creates accounts and contracts on the two chains,   *)
(* and saves what it created.  A command may be killed, and any call it    *)
(* makes may fail, with or without having taken effect.                    *)
(*                                                                         *)
(* A command is a plan, the sequence of the calls it makes; a step of the  *)
(* model is one call, or the setting of one name in the config file.       *)
(***************************************************************************)
EXTENDS Naturals, Sequences, FiniteSets

CONSTANTS None,
          Procs,          \* the processes in which commands run
          Accounts,       \* accounts that may hold the client contract
          Keys,           \* keys that may be given for it
          RETRY_NONCE,    \* attempts of maybeCreateAccount
          RETRY_SEND_TX,  \* attempts of EthContractInitializer
          MaxRuns,        \* bound: commands started beside README.md
          MaxFaults       \* bound: failed calls and killed processes

VARIABLES eth,            \* contracts on Ethereum, in order of deployment
          near,           \* accounts on NEAR
          pending,        \* createAccount transactions that may still execute
          config,         \* the parameters saved in the config file
          proc,           \* the command that each process runs
          following,      \* whether the operator has followed README.md: the
                          \* commands in its order, one by one, no options
          runs,           \* how many commands were started otherwise
          faults,         \* how many calls failed
          stale           \* history: pairs <<x, y>> such that y was saved anew
                          \* after the command that deployed x had started

chains == <<eth, near, pending>>
bounds == <<following, runs, faults>>
vars == <<eth, near, pending, config, proc, following, runs, faults, stale>>

Setup ==
  <<"init-near-contracts", "init-eth-ed25519", "init-eth-client", "init-eth-prover",
    "init-eth-erc20", "init-eth-locker", "init-near-token-factory">>

Commands == {Setup[i] : i \in DOMAIN Setup}

Absent == [code |-> None]

Idle == [command |-> None]

\* The account of the prover and of the factory do not change; that of the
\* client is an option.
NearAccounts == Accounts \cup {"prover", "factory"}

EthRoles == {"ed25519", "ethClient", "ethProver", "erc20", "locker"}

\* "client" is the default of the option for the account, and None no value.
ASSUME DeployAssumption ==
  /\ "client" \in Accounts
  /\ None \notin Accounts \cup {"header", "none", "client", "prover", "factory"}
  /\ None \notin Commands /\ None \notin Nat

-----------------------------------------------------------------------------
(* The commands.                                                           *)

InitNearContracts ==
  <<[call |-> "create", of |-> "client"], [call |-> "verify", of |-> "client"],
    [call |-> "create", of |-> "prover"], [call |-> "verify", of |-> "prover"],
    [call |-> "initClient", of |-> "client"], [call |-> "initProver", of |-> "prover"],
    [call |-> "save", of |-> "clientKey"]>>

InitNearTokenFactory ==
  <<[call |-> "create", of |-> "factory"], [call |-> "new", of |-> "factory"],
    [call |-> "verify", of |-> "factory"], [call |-> "token", of |-> "factory"],
    [call |-> "save", of |-> "factory"]>>

EthContract(role) == <<[call |-> "send", of |-> role], [call |-> "save", of |-> role]>>

Plan(command) ==
  CASE command = "init-near-contracts" -> InitNearContracts
    [] command = "init-near-token-factory" -> InitNearTokenFactory
    [] command = "init-eth-ed25519" -> EthContract("ed25519")
    [] command = "init-eth-client" -> EthContract("ethClient")
    [] command = "init-eth-prover" -> EthContract("ethProver")
    [] command = "init-eth-erc20" -> EthContract("erc20")
    [] command = "init-eth-locker" -> EthContract("locker")

\* The addresses that the constructor, or the call of new, is given, and the
\* account that a key is for.
Links(role) ==
  CASE role = "ethClient" -> {"ed25519"}
    [] role = "ethProver" -> {"ethClient"}
    [] role = "locker" -> {"ethProver"}
    [] role = "factory" -> {"locker"}
    [] role = "clientKey" -> {"client"}
    [] OTHER -> {}

Consumers(role) ==
  {r \in {"ethClient", "ethProver", "locker", "factory", "clientKey"} : role \in Links(r)}

\* The name of what a command returns.
Saves(command) == Plan(command)[Len(Plan(command))].of

Get(name, default) == IF name \in DOMAIN config THEN config[name] ELSE default

\* The first command of the setup that has not saved its result.
NextCommand ==
  LET missing == {i \in DOMAIN Setup : Saves(Setup[i]) \notin DOMAIN config}
  IN  IF missing = {}
      THEN None
      ELSE Setup[CHOOSE i \in missing : \A j \in missing : i <= j]

-----------------------------------------------------------------------------
(* Control.                                                                *)

Step(p) == Plan(proc[p].command)[proc[p].at]

At(p, call) == proc[p] # Idle /\ Step(p).call = call

\* The account on NEAR that the current call is about.
Account(p) == IF Step(p).of = "client" THEN proc[p].client ELSE Step(p).of

\* The key that the command has for it.
Key(p) == IF Step(p).of = "client" THEN proc[p].key ELSE "master"

Exit(p) == proc' = [proc EXCEPT ![p] = Idle]

GoOn(p) ==
  proc' = [proc EXCEPT ![p].at = @ + 1, ![p].sub = "begin", ![p].tries = 0]

Sub(p, sub) == proc' = [proc EXCEPT ![p].sub = sub, ![p].tries = 0]

Fault == faults < MaxFaults /\ faults' = faults + 1

\* A command starts: it reads the config file.  The account and the key of the
\* client are arguments or what was saved; without a key the master key is used.
\* It will set what it returns, and before that its arguments; an argument that
\* is returned too, the key, is set in the place it has among the arguments.
\* Processes are alike, so it does not matter which of the idle ones is taken.
Start(p, command, client, key) ==
  /\ proc[p] = Idle /\ p = CHOOSE q \in Procs : proc[q] = Idle
  /\ \E last \in {Saves(command)} \cup (IF None \in {client, key} THEN {} ELSE {"client"}) :
       proc' = [proc EXCEPT ![p] =
         [command |-> command, at |-> 1, sub |-> "begin", tries |-> 0,
          client |-> IF client = None THEN Get("client", "client") ELSE client,
          key |-> IF key = None THEN Get("clientKey", "master") ELSE key,
          inputs |-> config, made |-> None,
          unset |-> {Saves(command)} \cup (IF client = None THEN {} ELSE {"client"}),
          last |-> last, newer |-> {}]]
  /\ UNCHANGED <<chains, config, faults, stale>>

\* The operator runs the next command of README.md when the last one has ended.
StartNext(p) ==
  /\ following /\ NextCommand # None /\ \A q \in Procs : proc[q] = Idle
  /\ Start(p, NextCommand, None, None)
  /\ UNCHANGED <<following, runs>>

\* Or runs any command at any time, and leaves README.md.
StartAny(p) ==
  /\ runs < MaxRuns
  /\ \E c \in Commands, a \in Accounts \cup {None}, k \in Keys \cup {None} :
       /\ c # "init-near-contracts" => a = None /\ k = None
       /\ Start(p, c, a, k)
  /\ runs' = runs + 1
  /\ following' = FALSE

\* The process is killed, or a call whose failure ends the command fails.
Killed(p) ==
  /\ proc[p] # Idle
  /\ Fault
  /\ Exit(p)
  /\ UNCHANGED <<chains, config, following, runs, stale>>

-----------------------------------------------------------------------------
(* maybeCreateAccount                                                      *)

\* Variant: an account without a contract counts as deployed.
StatusWithoutEmpty(p) ==
  /\ At(p, "create")
  /\ proc[p].sub = "begin"
  /\ Sub(p, IF near[Account(p)] = Absent THEN "creating" ELSE "created")
  /\ UNCHANGED <<chains, config, bounds, stale>>

\* getAccountStatus: any error counts as an account that does not exist, and an
\* account without a contract has no status of its own.
getAccountStatus(p) ==
  /\ At(p, "create")
  /\ proc[p].sub = "begin"
  /\ \/ /\ Sub(p, CASE near[Account(p)] = Absent -> "creating"
                    [] near[Account(p)] # Absent /\ near[Account(p)].code = "none" -> "deploying"
                    [] OTHER -> "created")
        /\ UNCHANGED faults
     \/ Fault /\ Sub(p, "creating")
  /\ UNCHANGED <<chains, config, following, runs, stale>>

NewAccount(key) == [code |-> "none", key |-> key, link |-> None, tokens |-> {}]

\* createAccount fails: the loop tries again, and the transaction may still be
\* executed later.
createAccountFails(p) ==
  /\ At(p, "create")
  /\ proc[p].sub = "creating"
  /\ Fault
  /\ IF proc[p].tries + 1 = RETRY_NONCE
     THEN Exit(p)
     ELSE proc' = [proc EXCEPT ![p].tries = @ + 1]
  /\ pending' \in {pending, pending \cup {[account |-> Account(p), key |-> Key(p)]}}
  /\ UNCHANGED <<eth, near, config, following, runs, stale>>

\* createAccount succeeds, or answers AccountAlreadyExists, which counts as
\* success whoever created the account.
createAccount(p) ==
  /\ At(p, "create")
  /\ proc[p].sub = "creating"
  /\ near' = IF near[Account(p)] = Absent
             THEN [near EXCEPT ![Account(p)] = NewAccount(Key(p))]
             ELSE near
  /\ Sub(p, "deploying")
  /\ UNCHANGED <<eth, pending, config, bounds, stale>>

\* A transaction that was given up is executed after all.
LateCreate ==
  /\ \E tx \in pending :
       /\ pending' = pending \ {tx}
       /\ near' = IF near[tx.account] = Absent
                  THEN [near EXCEPT ![tx.account] = NewAccount(tx.key)]
                  ELSE near
  /\ UNCHANGED <<eth, config, proc, bounds, stale>>

\* deployContract: signed with the key of the command, so it needs that key.  A
\* nonce error is tried again, any other ends the command.
deployContract(p) ==
  /\ At(p, "create")
  /\ proc[p].sub = "deploying"
  /\ LET a == Account(p)
         mayDeploy == near[a].key = Key(p)
         deployed == [near EXCEPT ![a].code = Step(p).of]
     IN  \/ /\ mayDeploy
            /\ near' = deployed
            /\ Sub(p, "created")
            /\ UNCHANGED faults
         \/ ~mayDeploy /\ Exit(p) /\ UNCHANGED <<near, faults>>
         \/ /\ Fault
            /\ IF proc[p].tries + 1 = RETRY_NONCE
               THEN Exit(p)
               ELSE proc' = [proc EXCEPT ![p].tries = @ + 1]
            /\ UNCHANGED near
         \/ mayDeploy /\ Fault /\ Exit(p) /\ near' = deployed
  /\ UNCHANGED <<eth, pending, config, following, runs, stale>>

maybeCreateAccountReturns(p) ==
  /\ At(p, "create")
  /\ proc[p].sub = "created"
  /\ GoOn(p)
  /\ UNCHANGED <<chains, config, bounds, stale>>

\* Variant: the key is not looked at.
ExistenceVerified(a, key) == near[a] # Absent

\* The two tests of verifyAccount.
accountHasTheKey(a, key) == near[a] # Absent /\ near[a].key = key

verifyAccount(p) ==
  /\ At(p, "verify")
  /\ IF accountHasTheKey(Account(p), Key(p)) THEN GoOn(p) ELSE Exit(p)
  /\ UNCHANGED <<chains, config, bounds, stale>>

-----------------------------------------------------------------------------
(* Initialising the contracts on NEAR.                                     *)

\* A call that sets the link of a contract: done and answered, or done and the
\* answer lost.
SetLink(p, link) ==
  /\ near' = [near EXCEPT ![Account(p)].link = link]
  /\ \/ GoOn(p) /\ UNCHANGED faults
     \/ Fault /\ Exit(p)

\* EthOnNearClientContract.maybeInitialize: an error of initialized() counts as
\* not initialised, and the call of init is then refused.
initClient(p) ==
  /\ At(p, "initClient")
  /\ IF near[Account(p)].link = None
     THEN SetLink(p, "header")
     ELSE /\ UNCHANGED near
          /\ \/ GoOn(p) /\ UNCHANGED faults
             \/ Fault /\ Exit(p)
  /\ UNCHANGED <<eth, pending, config, following, runs, stale>>

\* EthOnNearProverContract.maybeInitialize: a prover that is initialised already
\* is accepted, whatever client it was initialised with.
initProver(p) ==
  /\ At(p, "initProver")
  /\ IF near[Account(p)].link = None
     THEN SetLink(p, proc[p].client) /\ UNCHANGED stale
     ELSE /\ GoOn(p)
          /\ stale' = IF near[Account(p)].link = proc[p].client
                      THEN stale
                      ELSE stale \cup {<<"prover", "client">>}
          /\ UNCHANGED <<near, faults>>
  /\ UNCHANGED <<eth, pending, config, following, runs>>

\* The call of new of the token factory: an error, such as that of a factory
\* that is initialised already, ends the command.
newFactory(p) ==
  /\ At(p, "new")
  /\ LET locker == proc[p].inputs
     IN  IF near[Account(p)].link = None /\ "locker" \in DOMAIN locker
         THEN SetLink(p, locker["locker"])
         ELSE Exit(p) /\ UNCHANGED <<near, faults>>
  /\ UNCHANGED <<eth, pending, config, following, runs, stale>>

\* DeployToken: deploy_bridge_token refuses a token that the factory has.
deployBridgeToken(p) ==
  /\ At(p, "token")
  /\ LET a == Account(p)
         erc20 == proc[p].inputs
     IN  IF "erc20" \in DOMAIN erc20 /\ erc20["erc20"] \notin near[a].tokens
         THEN /\ near' = [near EXCEPT ![a].tokens = @ \cup {erc20["erc20"]}]
              /\ \/ GoOn(p) /\ UNCHANGED faults
                 \/ Fault /\ Exit(p)
         ELSE Exit(p) /\ UNCHANGED <<near, faults>>
  /\ UNCHANGED <<eth, pending, config, following, runs, stale>>

-----------------------------------------------------------------------------
(* EthContractInitializer.                                                 *)

\* Variant: the locker is given the address of the client for that of the prover.
ContractMixedUp(p) ==
  [role |-> Step(p).of,
   links |-> [r \in Links(Step(p).of) |->
                proc[p].inputs[IF r = "ethProver" THEN "ethClient" ELSE r]]]

Contract(p) ==
  [role |-> Step(p).of,
   links |-> [r \in Links(Step(p).of) |-> proc[p].inputs[r]]]

\* The deployment is mined and answered, refused for its nonce and tried again,
\* or fails, in which case it may have been mined all the same.  An address that
\* is missing cannot be encoded, which is an error of the last kind.
send(p) ==
  /\ At(p, "send")
  /\ LET encodes == Links(Step(p).of) \subseteq DOMAIN proc[p].inputs
     IN  \/ /\ encodes
            /\ eth' = Append(eth, Contract(p))
            /\ proc' = [proc EXCEPT ![p].at = @ + 1, ![p].made = Len(eth) + 1]
            /\ UNCHANGED faults
         \/ ~encodes /\ Exit(p) /\ UNCHANGED <<eth, faults>>
         \/ /\ Fault
            /\ IF proc[p].tries + 1 = RETRY_SEND_TX
               THEN Exit(p)
               ELSE proc' = [proc EXCEPT ![p].tries = @ + 1]
            /\ UNCHANGED eth
         \/ encodes /\ Fault /\ Exit(p) /\ eth' = Append(eth, Contract(p))
  /\ UNCHANGED <<near, pending, config, following, runs, stale>>

-----------------------------------------------------------------------------
(* Saving.                                                                 *)

Put(f, name, v) == [n \in DOMAIN f \cup {name} |-> IF n = name THEN v ELSE f[n]]

\* What the command has for a name.
Value(p, name) ==
  CASE name = "client" -> proc[p].client
    [] name = "clientKey" -> proc[p].key
    [] name = "factory" -> "factory"
    [] OTHER -> proc[p].made

\* The pairs that are out of step once the command has set the name: those with
\* a name that it has not set yet, or that another command has set meanwhile.
Restaled(p, name) ==
  LET others == proc[p].newer \cup (proc[p].unset \ {name})
      own == {Saves(proc[p].command)} \ (others \cup {name})
  IN  (stale \ ({<<name, y>> : y \in Links(name) \ others}
                  \cup {<<x, name>> : x \in Consumers(name) \cap own}))
        \cup {<<name, y>> : y \in Links(name) \cap others}
        \cup {<<x, name>> : x \in Consumers(name) \ own}

\* The handler has returned.  saveConfig sets one name after the other, and the
\* process may be killed, or others may run, in between.
save(p) ==
  /\ At(p, "save")
  /\ \E name \in proc[p].unset :
       /\ name = proc[p].last => proc[p].unset = {name}
       /\ config' = Put(config, name, Value(p, name))
       /\ proc' = [q \in Procs |->
                     IF q = p
                     THEN IF proc[p].unset = {name} THEN Idle
                          ELSE [proc[p] EXCEPT !.unset = @ \ {name}]
                     ELSE IF proc[q] = Idle THEN Idle
                     ELSE [proc[q] EXCEPT !.newer = @ \cup {name}]]
       /\ stale' = Restaled(p, name)
  /\ UNCHANGED <<chains, bounds>>

-----------------------------------------------------------------------------

Init ==
  /\ eth = <<>>
  /\ near = [a \in NearAccounts |-> Absent]
  /\ pending = {}
  /\ config = [n \in {} |-> None]
  /\ proc = [p \in Procs |-> Idle]
  /\ following = TRUE
  /\ runs = 0
  /\ faults = 0
  /\ stale = {}

Call(p) ==
  \/ getAccountStatus(p)
  \/ createAccountFails(p)
  \/ createAccount(p)
  \/ deployContract(p)
  \/ maybeCreateAccountReturns(p)
  \/ verifyAccount(p)
  \/ initClient(p)
  \/ initProver(p)
  \/ newFactory(p)
  \/ deployBridgeToken(p)
  \/ send(p)
  \/ save(p)

Next ==
  \/ \E p \in Procs : StartNext(p) \/ StartAny(p) \/ Call(p) \/ Killed(p)
  \/ LateCreate

Spec == Init /\ [][Next]_vars

\* The operator goes on with the setup, or the command with its calls.
FairSpec == Spec /\ WF_vars(\E p \in Procs : StartNext(p) \/ Call(p))

-----------------------------------------------------------------------------
(* Properties.                                                             *)

KeyNames == Keys \cup {"master"}

\* The link of an account is a header, an account on NEAR or a contract on
\* Ethereum.
IsAccount(r) ==
  /\ r = [code |-> r.code, key |-> r.key, link |-> r.link, tokens |-> r.tokens]
  /\ r.code \in {"none", "client", "prover", "factory"}
  /\ r.key \in KeyNames /\ r.tokens \subseteq Nat

Contracts ==
  [role : EthRoles,
   links : [{} -> Nat] \cup [{"ed25519"} -> Nat] \cup [{"ethClient"} -> Nat]
             \cup [{"ethProver"} -> Nat]]

\* What the config file can hold, now or when a command read it, beside the
\* contracts e.
IsConfig(c, e) ==
  /\ c = [n \in DOMAIN c |-> c[n]]
  /\ DOMAIN c \subseteq EthRoles \cup {"client", "clientKey", "factory"}
  /\ "client" \in DOMAIN c => c["client"] \in Accounts
  /\ "clientKey" \in DOMAIN c => c["clientKey"] \in KeyNames
  /\ \A r \in EthRoles \cap DOMAIN c : c[r] \in DOMAIN e /\ e[c[r]].role = r

\* How far maybeCreateAccount has got.
Parts == {"begin", "creating", "deploying", "created"}

IsProcess(r, e) ==
  /\ r = [command |-> r.command, at |-> r.at, sub |-> r.sub, tries |-> r.tries,
          client |-> r.client, key |-> r.key, inputs |-> r.inputs, made |-> r.made,
          unset |-> r.unset, last |-> r.last, newer |-> r.newer]
  /\ r.command \in Commands /\ r.at \in 1..Len(Plan(r.command))
  /\ r.sub \in Parts /\ r.tries \in Nat
  /\ r.client \in Accounts /\ r.key \in KeyNames /\ IsConfig(r.inputs, e)
  /\ r.made \in Nat \cup {None}
  /\ r.unset # {} /\ r.unset \subseteq {"client", Saves(r.command)}
  /\ r.command # "init-near-contracts" => r.unset = {Saves(r.command)}

\* Addresses refer to contracts that were deployed earlier, in the role that
\* they are used in.
AreContracts(e) ==
  /\ e \in Seq(Contracts)
  /\ \A i \in DOMAIN e :
       /\ DOMAIN e[i].links = Links(e[i].role)
       /\ \A r \in Links(e[i].role) :
            e[i].links[r] \in 1..(i - 1) /\ e[e[i].links[r]].role = r

AreAccounts(n) ==
  /\ n = [a \in NearAccounts |-> n[a]]
  /\ \A a \in NearAccounts : n[a] = Absent \/ IsAccount(n[a])

\* The types: a process is somewhere in its plan, and an address is that of a
\* contract of its role.
DeployTypeOK ==
  /\ AreContracts(eth)
  /\ AreAccounts(near)
  /\ pending \subseteq [account : NearAccounts, key : KeyNames]
  /\ IsConfig(config, eth)
  /\ proc = [p \in Procs |-> proc[p]]
  /\ \A p \in Procs : proc[p] = Idle \/ IsProcess(proc[p], eth)
  /\ following \in BOOLEAN

ClientAccount == Get("client", "client")

\* The first name was saved for the second as the file has it: always while
\* README.md is followed, and otherwise unless the pair is in the history.
InStep(x, y) == following \/ <<x, y>> \notin stale

\* The key that the config file holds is the key of the account it holds for
\* the client: accountHasTheKey stands between every way to get an account
\* (created here, created late by a transaction that had been given up, found)
\* and the save.  This is so whenever README.md is followed, and also with
\* options, unless another command set the account while the one that set the
\* key was running, or a command has set one of the names and not yet the other,
\* perhaps because it was killed then.
ConfigKeyFits ==
  "clientKey" \in DOMAIN config /\ InStep("clientKey", "client") =>
    /\ near[ClientAccount] # Absent
    /\ near[ClientAccount].key = config["clientKey"]
    /\ near[ClientAccount].link # None

LinkOf(role) ==
  IF role = "factory" THEN [locker |-> near["factory"].link] ELSE eth[config[role]].links

\* The contract that the config file names for a role is linked to the one it
\* names for the role it depends on, always while README.md is followed, and
\* otherwise unless that one was deployed anew after the command of the former
\* had started: each command passes to the constructor what it read when it
\* started.  On NEAR the prover is linked to the configured client unless
\* maybeInitialize accepted a prover that had been initialised with another one.
LinksCurrent ==
  /\ \A x \in {"ethClient", "ethProver", "locker", "factory"} \cap DOMAIN config :
       \A y \in Links(x) : InStep(x, y) => LinkOf(x)[y] = config[y]
  /\ ("clientKey" \in DOMAIN config
        /\ InStep("clientKey", "client") /\ InStep("prover", "client")) =>
       near["prover"].link = ClientAccount

\* The setup has ended, and each account on NEAR has the code of its contract.
Complete ==
  /\ NextCommand = None
  /\ near[ClientAccount].code = "client"
  /\ \A a \in {"prover", "factory"} : near[a].code = a

\* The token factory was initialised by a command that did not get to save.
Stranded == near["factory"] # Absent /\ near["factory"].link # None /\ "factory" \notin DOMAIN config

\* With a finite number of failed calls and killed processes, running the
\* commands one by one in the order of README.md, and the one that failed
\* again, completes the setup: maybeCreateAccount and the two maybeInitialize
\* go on from wherever an earlier run stopped.  The exception is a factory
\* that was initialised by a run that failed after: every later run ends at the
\* call of new.
SetUpCompletes == []following => <>Complete \/ <>[]Stranded

=============================================================================
