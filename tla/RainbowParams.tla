---------------------------- MODULE RainbowParams ----------------------------
(***************************************************************************)
(* The parameters of the command line tool: the declarations and the       *)
(* option lists of cli/index.js, and how utils/config/index.js finds the   *)
(* value of an option from the environment, the command line, the config   *)
(* file and the declared defaults.  Everything here is constant level;     *)
(* module RainbowConfig runs it.                                           *)
(*                                                                         *)
(* A value is a string.  "" is the one string JavaScript takes for false,  *)
(* None stands for undefined and null.  The declared defaults are told     *)
(* apart only as far as the code tests them: "" , None, and the others.    *)
(* An environment, a config file and paramValues are functions whose       *)
(* domain is the set of names they hold.                                   *)
(***************************************************************************)
EXTENDS Naturals, Sequences, SequencesExt

CONSTANT None     \* undefined, null

Falsy == {"", None}

Nothing == [n \in {} |-> None]

-----------------------------------------------------------------------------
(* The declarations.                                                       *)

\* Options declared with no default value: declareOption makes it "".
DeclaredBare ==
  {"near-network-id", "near-node-url", "eth-node-url", "near-master-account",
   "near-master-sk", "eth-master-sk", "near-client-sk", "near-prover-sk",
   "near-client-trusted-signer", "core-src"}

DeclaredUserBare ==
  {"near-token-factory-sk", "eth-locker-address", "eth-erc20-address",
   "eth-ed25519-address", "eth-client-address", "eth-admin-address",
   "monitor-accounts-path", "eth-prover-address", "near-erc20-account"}

\* Options declared with a default value.
DeclaredWithDefault ==
  {"near-client-account", "near-client-contract-path", "near-client-init-balance",
   "near-client-validate-ethash", "hashes-gc-threshold", "finalized-gc-threshold",
   "num-confirmations", "near-prover-account", "near-prover-contract-path",
   "near-prover-init-balance", "eth-gas-multiplier"}

DeclaredUserWithDefault ==
  {"near-token-factory-account", "near-token-factory-contract-path",
   "near-token-factory-init-balance", "eth-locker-abi-path", "eth-locker-bin-path",
   "eth-erc20-abi-path", "eth-erc20-bin-path", "eth-ed25519-artifact-path",
   "eth-client-lock-eth-amount", "eth-client-lock-duration",
   "eth-client-replace-duration", "eth-client-artifact-path",
   "eth-prover-artifact-path", "near2eth-relay-min-delay",
   "near2eth-relay-max-delay", "near2eth-relay-error-delay", "watchdog-delay",
   "watchdog-error-delay", "total-submit-block", "gas-per-transaction", "archival"}

Declared ==
  DeclaredBare \cup DeclaredUserBare \cup DeclaredWithDefault
    \cup DeclaredUserWithDefault \cup {"daemon", "metrics-port"}

paramDeclarations ==
  [n \in Declared |->
     CASE n \in DeclaredBare \cup DeclaredUserBare -> ""
       [] n = "daemon" -> "true"
       [] n = "metrics-port" -> None
       [] OTHER -> "default"]

-----------------------------------------------------------------------------
(* The options of every command.                                           *)

NearNode == {"near-network-id", "near-node-url"}

NearMaster == NearNode \cup {"near-master-account", "near-master-sk"}

EthMaster == {"eth-node-url", "eth-master-sk"}

EthClientContract == {"eth-client-artifact-path", "eth-client-address"}

RelayDelays ==
  {"near2eth-relay-min-delay", "near2eth-relay-max-delay", "near2eth-relay-error-delay"}

Daemon == {"daemon", "metrics-port"}

GeneralOptions ==
  [c \in {"prepare", "status"} |->
     CASE c = "prepare" -> {"core-src"}
       [] c = "status" ->
            NearMaster \cup EthMaster
              \cup {"near-client-account", "near-client-sk", "near-prover-account",
                    "near-prover-sk"}]

StartOptions ==
  [c \in {"start near-node", "start ganache", "start eth2near-relay",
          "start near2eth-relay", "start bridge-watchdog", "start address-watcher"} |->
     CASE c = "start near-node" -> {"archival"}
       [] c = "start ganache" -> {}
       [] c = "start eth2near-relay" ->
            NearMaster \cup Daemon
              \cup {"near-client-account", "eth-node-url", "total-submit-block",
                    "gas-per-transaction"}
       [] c = "start near2eth-relay" ->
            EthMaster \cup NearNode \cup EthClientContract \cup RelayDelays \cup Daemon
              \cup {"eth-gas-multiplier"}
       [] c = "start bridge-watchdog" ->
            EthMaster \cup EthClientContract \cup Daemon
              \cup {"watchdog-delay", "watchdog-error-delay"}
       [] c = "start address-watcher" ->
            EthMaster \cup NearNode \cup Daemon
              \cup {"near-client-account", "near-master-account",
                    "monitor-accounts-path"}]

StopOptions ==
  [c \in {"stop all", "stop near-node", "stop ganache", "stop eth2near-relay",
          "stop near2eth-relay", "stop bridge-watchdog"} |-> {}]

InitOptions ==
  [c \in {"init-near-contracts", "init-eth-ed25519", "init-eth-client",
          "init-eth-prover"} |->
     CASE c = "init-near-contracts" ->
            NearMaster
              \cup {"eth-node-url", "near-client-account", "near-client-sk",
                    "near-client-contract-path", "near-client-init-balance",
                    "near-client-validate-ethash", "near-client-trusted-signer",
                    "hashes-gc-threshold", "finalized-gc-threshold",
                    "num-confirmations", "near-prover-account", "near-prover-sk",
                    "near-prover-contract-path", "near-prover-init-balance"}
       [] c = "init-eth-ed25519" ->
            EthMaster \cup {"eth-ed25519-artifact-path", "eth-gas-multiplier"}
       [] c = "init-eth-client" ->
            EthMaster
              \cup {"eth-client-artifact-path", "eth-admin-address",
                    "eth-ed25519-address", "eth-client-lock-eth-amount",
                    "eth-client-lock-duration", "eth-client-replace-duration",
                    "eth-gas-multiplier"}
       [] c = "init-eth-prover" ->
            EthMaster
              \cup {"eth-prover-artifact-path", "eth-admin-address",
                    "eth-client-address", "eth-gas-multiplier"}]

UserOptions ==
  [c \in {"init-near-token-factory", "deploy-token", "init-eth-locker",
          "init-eth-erc20", "eth-to-near-find-proof"} |->
     CASE c = "init-near-token-factory" ->
            NearMaster
              \cup {"near-prover-account", "near-token-factory-account",
                    "near-token-factory-sk", "near-token-factory-contract-path",
                    "near-token-factory-init-balance", "eth-locker-address",
                    "eth-erc20-address"}
       [] c = "deploy-token" ->
            NearMaster \cup {"near-token-factory-account", "near-token-factory-sk"}
       [] c = "init-eth-locker" ->
            EthMaster
              \cup {"near-token-factory-account", "eth-locker-abi-path",
                    "eth-locker-bin-path", "eth-admin-address", "eth-prover-address",
                    "eth-gas-multiplier"}
       [] c = "init-eth-erc20" ->
            EthMaster
              \cup {"eth-erc20-abi-path", "eth-erc20-bin-path", "eth-gas-multiplier"}
       [] c = "eth-to-near-find-proof" -> {"eth-node-url"}]

TransferOptions ==
  [c \in {"TESTING transfer-eth-erc20-to-near", "TESTING transfer-eth-erc20-from-near"} |->
     {"eth-erc20-address", "near-erc20-account", "eth-node-url", "eth-erc20-abi-path",
      "eth-locker-address", "eth-locker-abi-path", "near-token-factory-account"}
       \cup (IF c = "TESTING transfer-eth-erc20-to-near"
               THEN NearMaster \cup {"near-client-account"}
               ELSE NearNode \cup EthClientContract
                      \cup {"eth-master-sk", "eth-prover-artifact-path",
                            "eth-prover-address", "eth-gas-multiplier"})]

TestingOptions ==
  [c \in {"TESTING mint-erc20-tokens", "TESTING get-account-address",
          "TESTING get-erc20-balance", "TESTING get-bridge-on-near-balance",
          "TESTING get-client-block-height-hash", "TESTING eth-to-near-approve",
          "TESTING eth-to-near-lock", "TESTING near-to-eth-unlock"} |->
     CASE c \in {"TESTING mint-erc20-tokens", "TESTING get-erc20-balance"} ->
            {"eth-node-url", "eth-erc20-address", "eth-erc20-abi-path"}
       [] c = "TESTING get-account-address" -> {"eth-node-url"}
       [] c = "TESTING get-bridge-on-near-balance" -> NearNode \cup {"near-erc20-account"}
       [] c = "TESTING get-client-block-height-hash" -> EthMaster \cup EthClientContract
       [] c = "TESTING eth-to-near-approve" ->
            {"eth-node-url", "eth-erc20-address", "eth-erc20-abi-path",
             "eth-locker-address"}
       [] c = "TESTING eth-to-near-lock" ->
            {"eth-node-url", "eth-erc20-address", "eth-locker-abi-path",
             "eth-locker-address"}
       [] c = "TESTING near-to-eth-unlock" ->
            EthMaster
              \cup {"eth-locker-abi-path", "eth-locker-address", "eth-gas-multiplier"}]

DangerOptions ==
  [c \in {"DANGER submit_invalid_near_block", "DANGER deploy_test_erc20"} |->
     IF c = "DANGER submit_invalid_near_block"
     THEN EthMaster \cup NearNode \cup EthClientContract \cup RelayDelays
            \cup {"eth-gas-multiplier"}
     ELSE EthMaster \cup {"eth-erc20-abi-path", "eth-gas-multiplier"}]

DumpOptions ==
  [c \in {"eth-dump", "near-dump"} |->
     IF c = "eth-dump" THEN {"eth-node-url"} ELSE {"near-node-url"}]

OptionTables ==
  {GeneralOptions, StartOptions, StopOptions, InitOptions, UserOptions,
   TransferOptions, TestingOptions, DangerOptions, DumpOptions}

Commands == UNION {DOMAIN t : t \in OptionTables}

options == [c \in Commands |-> (CHOOSE t \in OptionTables : c \in DOMAIN t)[c]]

\* addOptions runs for every command before any of them: an option that nobody
\* declared would stop the whole tool at declaration.defaultValue.
ASSUME OptionsDeclared == \A c \in Commands : options[c] \subseteq Declared

-----------------------------------------------------------------------------
(* Finding a value.                                                        *)

maybeGetParam(paramValues, configFile, name) ==
  CASE name \in DOMAIN paramValues -> paramValues[name].value
    [] name \notin DOMAIN paramValues /\ name \in DOMAIN configFile -> configFile[name]
    [] name \notin DOMAIN paramValues \cup DOMAIN configFile /\ name \in Declared ->
         paramDeclarations[name]
    [] OTHER -> None

\* Variant: the default does not look at the config file.
DeclaredDefault(configFile, name) == paramDeclarations[name]

\* The default value addOptions gives commander when the program starts.
addOptions(configFile, name) == maybeGetParam(Nothing, configFile, name)

Put(f, name, v) == [n \in DOMAIN f \cup {name} |-> IF n = name THEN v ELSE f[n]]

\* One step of commander's parsing: state is the record of paramValues, of the
\* values the handler will see (opts) and of whether the process has exited.
_processArg(state, name, value, env, configFile) ==
  LET previous == state.opts[name]
      source == IF name \in DOMAIN env /\ env[name] \notin Falsy THEN "env"
                ELSE IF value \notin Falsy THEN "arg"
                ELSE IF name \in DOMAIN configFile THEN "config"
                ELSE IF previous \notin Falsy THEN "default" ELSE "unreachable"
      v == CASE source = "env" -> env[name]
             [] source = "arg" -> value
             [] source = "config" -> configFile[name]
             [] OTHER -> previous
      repeated == name \in DOMAIN state.paramValues
  IN  IF repeated \/ source = "unreachable"
      THEN [state EXCEPT !.exit = IF repeated THEN "more than once" ELSE "unreachable"]
      ELSE [state EXCEPT !.paramValues = Put(@, name, [value |-> v, paramType |-> source]),
                         !.opts[name] = v]

\* commander parses a command line, a sequence of pairs of an option of the
\* command and its value, in order.
Parse(command, args, env, configFile) ==
  FoldLeft(LAMBDA state, arg :
             IF state.exit # "no"
             THEN state
             ELSE _processArg(state, arg[1], arg[2], env, configFile),
           [exit |-> "no", paramValues |-> Nothing,
            opts |-> [o \in options[command] |-> addOptions(configFile, o)]],
           args)
=============================================================================
