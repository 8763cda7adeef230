# Rainbow bridge: TLA+ models and proofs

The rainbow bridge lets a contract on NEAR check what happened on Ethereum and
the other way round. This directory models its light clients, the provers that
use them, the relays and the watchdog that feed and guard them, the senders all of
these go through, and the tools that configure and deploy the bridge. TLC
checks the models on small instances; TLAPS proves the safety properties of the
clients, the senders, the watchdog and the deployment for every value of the
constants.

## The system

| Part | Source | State | Modelled by |
| --- | --- | --- | --- |
| NearBridge, AdminControlled | `contracts/eth/nearbridge/contracts/` | confirmed height, hashes and merkle roots; ring of three epochs with keys and packed stakes; one pending block with its signatures; bonds; paused flags | `NearBridge` |
| EthClient, admin-controlled | `contracts/near/eth-client`, `contracts/near/admin-controlled` | best header, canonical hashes, all hashes by number, headers, infos, trusted signer, pause mask | `EthClient` |
| EthProver | `contracts/near/eth-prover` | the client's account, pause mask | `EventProof`, `TrieProof` |
| NearProver, ProofDecoder | `contracts/eth/nearprover/contracts/` | the bridge's address, paused flags | `OutcomeProof` |
| near2eth relay | `near2eth/near2eth-block-relay/index.js` | none that survives a restart | `Near2EthRelay` |
| watchdog | `near2eth/watchdog/index.js` | none | `Watchdog`, `EthTransaction` |
| eth2near relay | `eth2near/eth2near-block-relay/` | last common block | `Eth2NearRelay`, `EventProof` |
| senders | `utils/robust.js`, `utils/borsh.js` | nonce and gas price of one call | `NearTransaction`, `EthTransaction`, `RemoteCall` |
| transfer scripts | `testing/transfer-eth-erc20/*.js` | a log file per process | `EventProof`, `OutcomeProof`: from the event to the last call |
| parameters, config file | `cli/index.js`, `utils/config/index.js` | `~/.rainbow/config.json` | `RainbowParams`, `RainbowConfig` |
| deployment | `cli/init/`, `utils/helpers.js` | accounts and contracts of both chains | `Deployment` |

NEAR to Ethereum: the near2eth relay reads the head of NearBridge, asks a NEAR node
for the next light client block, bonds and submits it. The signatures are not
verified on submission. For `lockDuration` seconds anybody may challenge one
signature, which is what the watchdog does. NearProver checks NEAR outcomes against
the merkle roots of confirmed blocks.

Ethereum to NEAR: the eth2near relay looks for the last block both sides know and
submits the following headers with their proof of work. EthClient follows the
heaviest chain. EthProver asks it for the hash of a block with enough confirmations
and compares in a callback.

What makes this hard: confirmation by elapsed time that is committed lazily by the
next call; a ring of epochs that rejected blocks write to; replacement racing
confirmation; forks that overtake one another while two collections with different
windows run; answers that arrive in a later block than the question; relays that
read several views in different blocks, retry, and restart; transactions whose
sender does not know whether they were executed.

## Modules

A module models a component; `MC<module>` gives the sets TLC explores. Definitions
whose comment starts with "Variant" are deliberately wrong forms of the definition
that follows; they document which mistake each property detects.

### The clients

`NearBridge` models NearBridge.sol with its AdminControlled base. Each public
function is an action and a failed `require` disables it; `now` is
`block.timestamp` and advances by `Tick`. `untrusted` groups the `untrusted*`
fields. A block is a record as NearDecoder produces it; a hash is a symbol, the
hash of a list of producers is the list, a signature is the key it verifies under
and the message it signs. `packedStakes`, keys and signatures left over from
earlier, longer lists are kept, because the code keeps them. `CommittedHeight`,
`CommittedEpoch` and `Commit` are the state after the commit at the start of
`addLightClientBlock`, which the rest of the function reads. `surplus` is a ghost
variable: the ETH that slashing and the admin leave beyond the bonds.

`EthClient` models lib.rs of eth-client. A hash determines its header, so `headers`
is a set of hashes. `sound` stands for the proof of work and for the gas, time and
size conditions of `verify_header`; the difficulty and number conditions are
written out. The walk back of `record_header` is the set `Replaced` of depths at
which it writes, and a collection loop is the set `RunDown` of numbers it visits;
both are the loops' exit conditions quantified, so that they need no recursion. The
signer and the predecessor of a call are the same account.

### The processes beside the clients

`Watchdog` and `Near2EthRelay` extend `NearBridge`; `Eth2NearRelay` extends
`EthClient`. Every read from a node and every transaction of a loop is a step of its
own, between which the contract's other actions happen: another submitter, the
passing of time, a reorganisation, another relay. A failed call, a crash and a
restart are steps too, limited by `MaxErrors` or `MaxFaults`; a challenge that fails
ends the watchdog's round as one that was made does. The client of `Eth2NearRelay`
starts at a late block (`first_header`) and collects old headers, as a deployed one
does, so a search can go back further than what the client holds. The duration of a
step is the one thing assumed about time: `RoundBound` for the watchdog,
`StepBound` for the relay.

### The senders

`RemoteCall` is the abstract specification of a call to a contract on the other
chain: only attempts the sender lost track of may take effect besides the one it
answers for, and "success" is answered only after an effect. `NearTransaction` has
`signAndSendTransaction` and the one-shot form of `BorshContract`; a transaction is
its nonce. `EthTransaction` has `callContract` and the challenge loop of the
watchdog; the node keeps one pending transaction per nonce and replaces it for a
price a tenth higher. `connected` says whether the connection of web3 is open: it may
close at any time, any number of times, and setting the provider anew may or may not
open it. `otherError` is any other error, which both loops throw. Both implement `RemoteCall` under a refinement mapping
(`ImplementsRemoteCall`, `EthImplementsRemoteCall`).

### The proofs of events and outcomes

`TrieProof` has `verify_trie_proof` and the trie it is about; `EventProof` uses it for
the whole way of an Ethereum event: the extractor's reads of receipt, block and
receipts, in any order and each possibly of another chain, `waitBlockSafe`, and
`verify_log_entry` with its promise and callback. `Retry` is an operator who goes on by
hand from the event; the command itself, run again, would lock again. `OutcomeProof` is
the way of a NEAR outcome: the script's waits, which compare heights only, so that with
several shards the node may have no proof yet, `borshifyOutcomeProof`, the decoder as a
reader of typed fields, and the three merkle paths of `proveOutcome`. Hashes are symbols
everywhere.

### The tools

`RainbowParams` has the option lists of cli/index.js and the search for a value in
environment, arguments, file and defaults. A parameter is one name there: the code's
conversions between `near-client-sk` and `nearClientSk` are one to one on the declared
options, so spelling is not part of the model. `RainbowConfig` runs commands over the
file, one key written at a time. `Deployment` turns an init command into the sequence
of its calls, each of which may fail before or after its effect, and of the names it
saves, between which it may be killed and others may run. The operator starts
the next command of README.md when the last one has ended (`StartNext`), or any
command at any time, also beside a running one (`StartAny`); `following` is true until
the first of the latter. `stale` is a ghost variable with the pairs of names that the
code itself lets get out of step: the second was saved by a command that ran at the same
time, a command was cut short between the two, or a prover linked to another client was
accepted. The properties excuse these pairs, and only when README.md was not followed.

## Runs

| Run | What it explores | What it shows |
| --- | --- | --- |
| `near_bridge` | blocks of four epochs: genuine, with a bad signature, just at the threshold, with a wrong producer list, forged; two submitters, challenges, an admin who pauses, sends and receives ETH | confirmed answers never change, the head never goes back, the ring holds confirmed validators, the pending block has its quorum and its bond, an honest submitter cannot be slashed, a fresh block cannot be replaced, ETH adds up |
| `eth_client_forks` | three forks in all orders of arrival, a longer heavier chain and a short heavy one, windows of 3 headers and 5 hashes | the head is the heaviest header, the canonical hashes are its chain, maps agree, nothing old is left, nothing recent is dropped |
| `near_transaction` | both NEAR senders, lost broadcasts and answers, another user of the key | which transactions may linger; `RemoteCall` is implemented; the call ends |
| `eth_transaction` | both Ethereum senders, timeouts, a connection that closes again and again, errors at any read, evictions, another sender | the same; the call ends if the connection is open for good from some time on |
| `watchdog` | a submitter of good and bad blocks against the watchdog, whose reads and challenges may fail | a block with a wrong signature is never confirmed, and is removed |
| `near2eth_relay` | the relay with a fault at any step, beside another bonded account that adds, challenges and withdraws | the hash it reads belongs to the head it read, when its bond can be lost; the client reaches the last NEAR block, except after an initialisation that was half done or mixed two epochs |
| `eth2near_relay` | the relay with a restart or a failed call, another relay, a client that starts late and collects headers, and a chain that reorganises | the search returns the closest common block from any estimate that has the common blocks within reach; the client ends less than a batch behind, counted from the block the last round started from when the client has gone to a shorter fork since, unless a search missed |
| `event_proof` | reorganisations no deeper than the confirmations between any two reads, pauses, another client, failed reads | what is accepted the client had and the chain keeps; a proof read from a chain that stands still is good |
| `outcome_proof` | outcomes with and without logs, in blocks of one or two shards, in time or late | exactly the supported outcomes get through, the roots agree, and with one shard the node has the proof when the script asks |
| `rainbow_config` | every command in any order, with arguments given, empty or repeated, a variable of the environment, failures, and a kill while saving | after the setup each command finds its parameters; what was saved is what is used next |
| `deployment` | the setup of README.md and, at any point of it, another command beside it, with failed, half-done and late calls | while README.md is followed, the saved key fits the saved account, the saved contracts refer to each other, and the setup completes unless the token factory was left half initialised; otherwise the first two hold but for commands that overlapped or were cut short while saving |
| `eth_client_canonical_doc` (violated) | forks that grow side by side for longer than headers are kept | eth-client lib.rs:176 and 302 speak of hashes of the canonical chain; below the oldest header kept they can belong to the abandoned fork |

### Other differences from the documentation

These were met while modelling. The module named has the behaviour; no run is kept
for them.

| Module | Says | What the code does |
| --- | --- | --- |
| `EthClient` | lib.rs:98: `headers` stores up to `finalized_gc_threshold` | it holds the headers of that many numbers, so with forks there are more |
| `NearTransaction` | robust.js:205: written against the risk of double sending | a broadcast that threw may have arrived and another one is signed, so both can execute |
| `NearTransaction` | robust.js:305: re-fetch nonce | the nonce is counted up, so the next one may be used already |
| `EthTransaction` | robust.js:69: resend overrides the same transaction | after a nonce error (robust.js:141) the call goes out under a second nonce, and both can execute |
| `EthTransaction` | robust.js:69: higher gas price | `options.gasPrice` is used unchanged |
| `Eth2NearRelay` | index.js:164: first block that is also in the client | when the client holds few headers of the main chain (it starts at a late block and collects old ones) the doubling steps can jump over all of them; the search then returns its upper limit and the relay submits block 1, which the client refuses |
| `RainbowConfig` | README.md:66-73 on parameters | the environment is looked at only beside an argument; an empty value runs; values from the environment are saved; arguments are saved only if the handler returns something; of two commands that save at once (`Procs` with two elements) one can lose its value |
| `EventProof` | README.md:181: re-run the command and it will resume the transfer | the log file gets a new name in every process (to-near.js:21), so a command that is run again finds none, starts from the beginning and locks again |
| `EventProof` | cli/index.js:612: proof by locked event | after a reorganisation it can be the proof of another log of the transaction |

### Bounds

All bounds are CONSTANTS with `Max` in their name, or sets given in the MC module;
the configurations name them. They were chosen so that the case a property is about
happens, which the variants confirm: each is found with the same bounds.

- `NearBridge`: four epochs, so that each slot of the ring is reused; three producers,
  an odd count in packed words; four lock periods of time. `EthClient`: a fork that
  overtakes after the collection has started, and a head switch to a lower number;
  seven numbers with windows of 3 and 5 have both.
- Senders: three sends and two polls; prices up to the cap are reached after two
  doublings, three nonces let a call be overtaken once and sent again.
- Watchdog and relays: one fault. The watchdog has time for two lock periods, the
  near2eth relay for all of a chain of four blocks in two epochs, through a fault at
  any step; the eth2near relay has seven
  blocks from number 3 to 7, of which the client keeps three numbers, batches of two, and
  a fork that is first longer and lighter, then heavier, so that the client's head goes
  back to a lower number. Searches that find, that miss, and that start above the head
  or further back than the client's headers all occur.
- Proofs: blocks of up to two transactions, so that a receipt has another before or
  after it, in chains of three blocks with one confirmation and two reorganisations;
  blocks of up to three outcomes, so that the merkle paths have both directions and a
  level that is skipped.
- Tools: `RainbowConfig` bounds only the kills. `Deployment` has two processes: all seven
  commands of README.md run, as often as they fail, and one more command starts anywhere
  among them, enough for a contract to be deployed anew while another that refers to it
  is. Two calls fail or are cut short. The theorems have none of these bounds.

Deadlock is not checked where the system may stop: bounded time and numbers, a
contract nobody calls, a command that has ended. It is checked for the senders and the
configuration.

### Fairness

The contracts act only when called, so nothing is assumed of them. Weak fairness is
assumed of running loops only: a sender takes its next step (its waits have
timeouts); the watchdog and the relays do (pm2 restarts them, the loops catch their
errors); an operator who sets the bridge up repeats the failed command. For
`near2eth_relay` also that time passes and NEAR produces blocks. Nothing is assumed
of networks or nodes in the sender modules, with one exception that is written in the
property: `EthCallEnds` is about behaviours in which the connection stays open from some
time on, since the reconnect branch of `callContract` may otherwise repeat for ever.

## Proofs

NearBridge (`NearBridgeProofs`). The invariant adds to the
types: a pending block is
higher than the current one and submitted by an account; the stored hash and root of
the current height are set, and none is stored above it; the bond of the submitter
of a challengeable block is in place. Heights make the views stable: a commit writes
a height that had no hash yet, and the views already answered what is written.
`EpochInv` adds what each slot of the ring holds: the
current slot and the next hold the lists announced by the confirmed block and,
while a block of the next epoch is pending, the third slot holds that block's
announcement. From that follow the quorum and the keys a challenge looks up. The
assumptions are those of the constructor (`replaceDuration` exceeds `lockDuration`),
types, that a hash determines its header, and, for `HonestSubmitterSafe` only,
that the admin initialises with real validators.

EthClient (`EthClientHeaderProofs`, `EthClientProofs`). `IInv` is `HeaderInv` and
`ChainInv`. `HeaderInv` says which headers are
kept: indexes agree, the best is heaviest, nothing is older than the window, every
known header but those of the oldest numbers has a known parent, and the numbers
in use have no gap; the last is what makes a loop that stops at the first absent
number complete. `ChainInv` says where the canonical hashes are: contiguous within
the window of hashes, and the parent of every canonical header is below it as long
as it is known. The walk is handled by least counterexamples
(`LeastNumbers`, a hypothesis of the lemmas that the library's well-founded order on
the naturals discharges at the end): it takes consecutive steps, writes each ancestor under its own
number, and if it stops early it stopped at agreement or at a header without info.
The assumptions are that both windows are positive and the window of hashes is not
the smaller one, and that a trusted signer submits headers with consecutive numbers.

The senders (`SenderProofs`). For `NearTransaction` the invariant says that no nonce
above the last one taken is used, that there are no more signatures than iterations,
that the loop may sign again only after its transaction was refused or its broadcast
threw, and that an answer "success" is about a transaction on chain. From it follow
`OnlyUnansweredLinger`, `AsyncSendsOnce` and the step simulation of `RemoteCall`
(`Refinement`), for any number of retries and polls. For `EthTransaction` it says that
every transaction of the call in the node or in the chain has a nonce the sender has
used, that nonces are mined in order, and that earlier nonces were given up. From it
follow `OnlyLostLinger`, `ChallengeExecutesOnce` and the refinement
(`EthRefinement`), for any prices, cap and nonces, however often the connection closes
and wherever an error is thrown.

Watchdog (`WatchdogProofs`, on top of `NearBridgeProofs`). The invariant joins that of
NearBridge with: the last complete round began at most `RoundBound` ago; the pending
signatures are among those the loop goes through; the contract can pay the reward of a
challenge; and `BadAhead`: no complete round began after a block with a bad signature
was added, and a round under way that did still has a bad signature before it.
A challenge is paid from the contract's ETH, so the accounting is proved here too
(`Accounting`): each call moves the balance and the surplus by what its one depositor
pays in or gets back, and the bonds owed are the bond times the number of depositors.
Every step of `WatchNext` is a step of `Next` (`WatchedContract`), so the theorems about
the contract alone hold beside the watchdog.
With `RoundBound < lockDuration`, the one assumption about time, a
bad block is challenged before it can be confirmed (`OptimisticSafety`), for any
blocks, validators, accounts and durations. Challenges must not be paused.

The eth2near relay (`Eth2NearRelayProofs`). The theorem is about the whole loop:
whenever a search ends and neither chain moved during it, it has found the closest block
that both have or one of the two other answers the property names, for any chains, batch
size, collection windows and history of rounds. It needs two things of the state:
`Monotonic`, that of the headers the client holds without a gap those from some distance
on are on the main chain, and `WithinReach`, that there are as many of these as the
doubling steps have to go back. Nothing is said of older headers, which the client does
not hold, so a search may also answer from beyond them. The invariant follows
`binarySearchWithEstimate` through its phases (`Encloses`): while the steps double, the
last answer and the fact that a step is one or twice the one before, which is why a step
cannot pass over the held part; then that the upper end is on both chains and the lower
one is not, but for a limit that is never tested. One lemma per phase says that an answer
keeps this. The proof is what showed the third case of `SearchFindsFirst`: the estimate
of a round that was capped is negative, a block above the client's head; if the client
knows that block from a fork that was longer and lighter, and the fork is the main chain
by now, the search returns it.

Deployment (`DeploymentNearProofs`, `DeploymentProofs`). The property that the saved
contracts fit each other speaks of the config file, and what is saved was read or made
many steps before, beside other commands; the invariant therefore says of every running
command, by the step of its plan it has come to, what it has found or made: an account
that exists, has the key the command was given and is initialised; a prover linked to
the command's client, or marked as one that was not; a contract with exactly the links
the command read when it started (`Progress`). What it read is what the file says now,
unless that name was saved again since (`FreshInputs`), which is when `save` marks the
pair as stale; the account and the key are what the file says unless the command has
still to set them or another has set them since (`FreshClient`). A second invariant
(`FInv`) is about README.md being followed: commands run one by one and have no options,
so no pair of saved names is marked. Accounts never lose a key or a link and contracts never change, so each
of these outlasts the steps of others; one lemma per part says so. The theorems
`ConfigKeyFitsAlways`, `LinksCurrentAlways` and `DeployTypeCorrect` hold for any number
of processes, commands, accounts, keys, failures and late transactions. The assumption
`DeployAssumption` says that "client" is among the accounts (the option's default)
and that `None` is none of the values it stands beside.

Every property of the passing runs of NearBridge and EthClient has its theorem, and
so have the safety properties of both senders, of the watchdog, of the eth2near relay and
of the deployment.

Only model-checked:

- liveness (`CallEnds`, `EthCallEnds`, `BadBlockRemoved`, `ClientFollows`,
  `ClientCatchesUp`, `SetUpCompletes`), which is beyond the prover;
- what recursive definitions compute (`TrieProof`, `EventProof`, `OutcomeProof`), which
  needs induction over data;
- the reads and the bond of the near2eth relay (`HashOfReportedHead`, `BondSafe`) and the
  parameters (`RainbowConfig`).

A counterexample to a comment needs no proof.

## Not modelled

- Ed25519 field arithmetic and the vendored ethash: arithmetic on data TLC cannot
  enumerate.
- The merkle trees of ethashproof and the cutting of their proofs by the relay: a batch
  program over one data set. Whether the proof of work of a header is right is part of
  `sound`.
- RLP, Borsh and the decoder of light client blocks: layout of data the models take as
  decoded. The codec of outcomes is modelled, since its encoder leaves fields out.
- The log files of the transfer scripts (see the differences above) and
  the token contracts, which are not in this repository.
- Starting and stopping of services: wrappers around pm2, whose restarts are an action of
  `Near2EthRelay` and of `Eth2NearRelay`.
- `adminSstore`, `adminSstoreWithMask` and `adminDelegatecall` may write any storage, so
  nothing holds after them; with them the tasks that upgrade NearProver's admin and
  bridge address.
- The near2eth relay's own `withdraw` at the end of a round and
  `DANGERsubmitInvalidNearBlock`, a testing aid.
- Monitoring, `status` and the dump commands: they read and print.
