---------------------------- MODULE RainbowConfig ----------------------------
(***************************************************************************)
(* The commands of cli/index.js and the config file they share             *)
(* (~/.rainbow/config.json).  A command starts by parsing its options      *)
(* (RainbowParams), runs its handler, and, if the handler returned         *)
(* something, adds what it returned to its parameters and writes them all  *)
(* to the file, one Configstore.set per parameter.  A set reads the file,  *)
(* changes one key and writes the file back.                               *)
(*                                                                         *)
(* What a handler does to the two chains is the subject of other modules.  *)
(* Here it returns the parameters its code returns, or fails.              *)
(***************************************************************************)
EXTENDS RainbowParams

CONSTANTS Procs,          \* the processes in which commands run
          Used,           \* the commands that are run
          CommandLines,   \* the option lists that may be given, sequences of
                          \* <<name, value>>
          Environments,   \* the environments commands may be run in
          Generated,      \* the values a handler may return
          MaxKills        \* bound: processes killed while they save

VARIABLES config,         \* the content of config.json
          proc,           \* what each process is doing
          file,           \* what a process that is in Configstore.set has read
          kills,          \* how many processes were killed
          done,           \* history: commands that completed saving since clean
          memo            \* history: parameter |-> value given to, or generated
                          \* by, the last command that completed saving it

vars == <<config, proc, file, kills, done, memo>>

Idle == [st |-> "idle"]

Running(p) == proc[p].st = "running"

-----------------------------------------------------------------------------

\* deploy-token names two parameters after the token; one token is deployed.
TokenKeys == {"near-token-account", "eth-token-address"}

\* The parameters the handlers return: of the local nodes, of the contracts on
\* NEAR, of those on Ethereum, and of the tokens.
NearNodeReturns == NearMaster

GanacheReturns == EthMaster \cup {"near-client-validate-ethash"}

NearContractsReturn == {"near-client-sk", "near-prover-sk"}

EthContractsReturn(command) ==
  CASE command = "init-eth-ed25519" -> {"eth-ed25519-address"}
    [] command = "init-eth-erc20" -> {"eth-erc20-address"}
    [] command = "init-eth-locker" -> {"eth-locker-address", "eth-admin-address"}
    [] command = "init-eth-client" -> {"eth-client-address"}
    [] command = "init-eth-prover" -> {"eth-prover-address"}
    [] OTHER -> {}

TokenFactoryReturns == {"near-erc20-account", "eth-erc20-address", "near-token-factory-sk"}

DeployTokenReturns == {"near-token-factory-sk"} \cup TokenKeys

\* The handlers that are not listed return nothing, so nothing is saved.
Returns(command) ==
  CASE command = "start near-node" -> NearNodeReturns
    [] command = "start ganache" -> GanacheReturns
    [] command = "init-near-contracts" -> NearContractsReturn
    [] command = "init-near-token-factory" -> TokenFactoryReturns
    [] command = "deploy-token" -> DeployTokenReturns
    [] OTHER -> EthContractsReturn(command)

\* The options the handlers replace by another value when they are empty.
Optional ==
  {"near-client-sk", "near-prover-sk", "near-token-factory-sk", "eth-admin-address",
   "near-client-trusted-signer", "monitor-accounts-path", "core-src"}

\* The options a handler cannot work without.
Required(command) ==
  {o \in options[command] \ Optional : paramDeclarations[o] = ""}

Init ==
  /\ config = Nothing
  /\ proc = [p \in Procs |-> Idle]
  /\ file = [p \in Procs |-> Nothing]
  /\ kills = 0
  /\ done = {}
  /\ memo = Nothing

Fits(args, command) == \A i \in DOMAIN args : args[i][1] \in options[command]

\* The process starts: addOptions and commander's parsing read the config file.
Start(p, command, args, env) ==
  /\ proc[p] = Idle
  /\ Fits(args, command)
  /\ LET parsed == Parse(command, args, env, config)
     IN  proc' = [proc EXCEPT ![p] =
                    IF parsed.exit = "no"
                    THEN [st |-> "running", command |-> command, env |-> env,
                          paramValues |-> parsed.paramValues, opts |-> parsed.opts]
                    ELSE Idle]
  /\ UNCHANGED <<config, file, kills, done, memo>>

\* An element of a record that setParam writes.
setParam(paramValues, name, value) ==
  Put(paramValues, name, [value |-> value, paramType |-> "config"])

\* What a handler returns for a parameter: an option it was given is returned
\* as it is, anything else is new.
Returned(p, name, new) ==
  IF name \in DOMAIN proc[p].opts /\ proc[p].opts[name] \notin Falsy
  THEN proc[p].opts[name]
  ELSE new

\* The handler returns: what it returned joins the parameters.
HandlerReturns(p) ==
  /\ Running(p)
  /\ LET command == proc[p].command
         names == Returns(command)
     IN  \/ /\ names = {}
            /\ proc' = [proc EXCEPT ![p] = Idle]
         \/ /\ names # {}
            /\ \A o \in Required(command) : proc[p].opts[o] \notin Falsy
            /\ \E new \in Generated :
                 LET values == FoldLeft(LAMBDA f, n : setParam(f, n, Returned(p, n, new)),
                                        proc[p].paramValues, SetToSeq(names))
                 IN  proc' = [proc EXCEPT ![p] =
                                [st |-> "saving", command |-> command,
                                 paramValues |-> values, todo |-> DOMAIN values]]
  /\ UNCHANGED <<config, file, kills, done, memo>>

\* The handler throws or calls process.exit.
HandlerFails(p) ==
  /\ Running(p)
  /\ proc' = [proc EXCEPT ![p] = Idle]
  /\ UNCHANGED <<config, file, kills, done, memo>>

-----------------------------------------------------------------------------
(* Writing the config file.                                                *)

\* Variant: the test that saveConfig has commented out, without its last line.
SavedArguments(p) ==
  {n \in proc[p].todo : proc[p].paramValues[n].paramType \in {"arg", "default"}}

\* The parameters saveConfig still has to write: all of them, whatever their type.
saveConfig(p) == proc[p].todo

\* Configstore.set, first half: read the file.
SetReads(p) ==
  /\ proc[p].st = "saving"
  /\ saveConfig(p) # {}
  /\ proc' = [proc EXCEPT ![p].st = "setting"]
  /\ file' = [file EXCEPT ![p] = config]
  /\ UNCHANGED <<config, kills, done, memo>>

\* Configstore.set, second half: write what was read with one key changed.
SetWrites(p) ==
  /\ proc[p].st = "setting"
  /\ \E n \in saveConfig(p) :
       /\ config' = Put(file[p], n, proc[p].paramValues[n].value)
       /\ proc' = [proc EXCEPT ![p].st = "saving", ![p].todo = @ \ {n}]
  /\ file' = [file EXCEPT ![p] = Nothing]
  /\ UNCHANGED <<kills, done, memo>>

\* The values that the command was given on its command line or generated.
GivenOrGenerated(p) ==
  LET pv == proc[p].paramValues
  IN  [n \in {m \in DOMAIN pv : pv[m].paramType \in {"arg", "config"}} |-> pv[n].value]

Forget(f, names) == [n \in DOMAIN f \ names |-> f[n]]

Update(f, g) == [n \in DOMAIN f \cup DOMAIN g |-> IF n \in DOMAIN g THEN g[n] ELSE f[n]]

\* saveConfig has written everything and the process ends.
Saved(p) ==
  /\ proc[p].st = "saving"
  /\ saveConfig(p) = {}
  /\ done' = done \cup {proc[p].command}
  /\ memo' = Update(Forget(memo, DOMAIN proc[p].paramValues), GivenOrGenerated(p))
  /\ proc' = [proc EXCEPT ![p] = Idle]
  /\ UNCHANGED <<config, file, kills>>

\* The process is killed while it is saving: what it has written stays.
Killed(p) ==
  /\ proc[p].st \in {"saving", "setting"}
  /\ kills < MaxKills
  /\ kills' = kills + 1
  /\ memo' = Forget(memo, DOMAIN proc[p].paramValues)
  /\ proc' = [proc EXCEPT ![p] = Idle]
  /\ file' = [file EXCEPT ![p] = Nothing]
  /\ UNCHANGED <<config, done>>

\* The command clean removes the directory of the config file.  It is run when
\* no other command is running.
Clean ==
  /\ \A p \in Procs : proc[p] = Idle
  /\ config' = Nothing
  /\ done' = {}
  /\ memo' = Nothing
  /\ UNCHANGED <<proc, file, kills>>

Next ==
  \/ \E p \in Procs :
       \/ \E c \in Used, a \in CommandLines, e \in Environments : Start(p, c, a, e)
       \/ HandlerReturns(p)
       \/ HandlerFails(p)
       \/ SetReads(p)
       \/ SetWrites(p)
       \/ Saved(p)
       \/ Killed(p)
  \/ Clean

Spec == Init /\ [][Next]_vars

-----------------------------------------------------------------------------
(* Properties.                                                             *)

\* A command that runs with an option that was not given to it uses the value
\* that was last given to, or generated by, a command that completed saving it
\* (the round trip of addOptions and maybeGetParam with setParam and
\* saveConfig), through failed commands and commands killed while saving.
Remembered ==
  \A p \in Procs :
    Running(p) =>
      \A o \in DOMAIN memo \cap DOMAIN proc[p].opts :
        o \notin DOMAIN proc[p].paramValues => proc[p].opts[o] = memo[o]

\* The order in which README.md, "Deploying and Using Locally", runs the commands.
Setup ==
  <<"start near-node", "start ganache", "init-near-contracts", "init-eth-ed25519",
    "init-eth-client", "init-eth-prover", "init-eth-erc20", "init-eth-locker",
    "init-near-token-factory">>

Before(command) ==
  {Setup[i] : i \in {j \in DOMAIN Setup :
                       \A k \in DOMAIN Setup : Setup[k] = command => j < k}}

\* When the commands that the local setup runs before a command have completed,
\* in any order and with any failures, kills and repetitions between them, the
\* command finds every option it cannot work without: the keys that handlers
\* return (setParam) are the keys that the option lists of cli/index.js read.
SetupSuffices ==
  \A p \in Procs :
    Running(p) /\ Before(proc[p].command) \subseteq done =>
      \A o \in Required(proc[p].command) : proc[p].opts[o] \notin Falsy

=============================================================================
