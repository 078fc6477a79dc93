# Verification of the Logos Execution Zone

TLA+ modules, TLC runs and TLAPS proofs about the execution zone in `src/lez` and the
state machine under it in `src/lee`. `PROJECT.json` maps every definition to the lines it
models, lists the runs, the mutants that show each property can fail, the hazards and the
theorems. Paths below are relative to `src/` unless they start with `tla/`.

## 1. The system

A zone is a chain of L2 blocks inscribed on a channel of the Bedrock L1.

| part | state | operations | talks to |
|---|---|---|---|
| chain state (`lez/chain_state`) | final tier, head tier, stall | adopt, produce, orphan, finalize, restore | owned by the sequencer behind a mutex |
| sequencer (`lez/sequencer`) | RocksDB store, chain state, production turn, zone-sdk's pending set and checkpoint | start, reconstruct, publish genesis, produce, follow events | channel, mempool, watcher |
| mempool, gossip, RPC (`lez/mempool`, `lez/sequencer`) | bounded queue, seen cache, deposit records | submit, gossip, drain, resubmit, mint | sequencer, clients |
| indexer (`lez/indexer`) | RocksDB store, in-memory state, read cursor, retry gate, status | start-up check, pass over the channel, apply, park, retry | channel, verifier |
| cross-zone watcher (`lez/sequencer/core/src/cross_zone_watcher.rs`) | floor, tip, pending records, dead letters | read a peer's blocks, record deliveries | peer's channel, block production |
| cross-zone verifier (`lez/indexer/core/src/cross_zone_verifier.rs`) | cache of peer blocks, verified run, seen set | read a peer's blocks, re-derive dispatches | peer's channel, ingest loop |
| ledger (`lee/state_machine`) | accounts, programs, commitments, nullifiers | public, privacy-preserving and deployment transactions | every block that is applied |
| privacy circuit (`lee/privacy_preserving_circuit`) | the chain of calls inside a proof | execute, derive commitments and nullifiers | ledger |
| programs (`lez/programs`) | their accounts | token, AMM, bridge, vault, stake, clock, cross-zone inbox and outbox, ... | ledger |
| committee (`lez/sequencer/core/src/committee_discovery.rs`, `sequencer_stake`) | stakes, live committee | stake, unstake, update the channel's keys | ledger, channel |
| wallet (`lez/wallet`, `lez/wallet-ffi`) | key tree, cached accounts, file, statistics of sequencers | sync, send, wait, restore, commands, C calls | RPC |

`PROJECT.json` lists all 60 parts with their status.

What is hard here, and what the properties are about:

- finality and reorgs move two tiers of one chain, in any order, with re-delivery;
- every process can stop between two durable writes and must resume from what it finds;
- awaits: a value that was checked before one is used after it, with another task in between;
- two readers of one channel must come to the same chain although each reads, fails and
  restarts on its own;
- queues, counters and caches that have a limit;
- a program may output anything: only the rules around it keep balances and ownership right;
- a wallet holds a cached copy of a ledger that others write to.

## 2. Modules

| module | models | lines that matter |
|---|---|---|
| `Blocks` | a block's header and body checks, `apply_block`; what a channel settles | `chain_state/src/apply.rs` |
| `ChainOps` | the methods of `ChainState` as functions of its value | `chain_state/src/chain.rs` |
| `ChainState` | the state machine with one action per method | same |
| `SequencerStore` | the chain cells of the sequencer's store and each write batch | `storage/src/sequencer/mod.rs` |
| `Sequencer` | one sequencer over its store and the channel | `sequencer/core/src/lib.rs`, executor actor, `block_publisher.rs` |
| `IndexerStore` | the indexer's store, its write batch, snapshots and lookups; the start-up check of a store against a channel | `indexer/core/src/block_store.rs`, `storage/src/indexer`, `chain_state/src/consistency.rs` |
| `Indexer` | the ingest loop | `indexer/core/src/lib.rs`, `retry.rs` |
| `Follower` | abstract: a node's ledger grows by what the channel settles | specification only |
| `PeerChain` | acceptance of peer blocks, the verifier's cache | `cross_zone/src/acceptance.rs`, verifier |
| `Watcher` | the watcher, its records and dead letters, block production as far as deliveries go, settlement | watcher, `sequencer/core/src/lib.rs`, `storage/src/sequencer/mod.rs` |
| `CrossZone` | `Watcher` composed with the verifier | verifier |
| `Accounts` | what a program may make of an account; ids, keys and notes of private accounts | `core/src/program/mod.rs`, `core/src` |
| `Ledger` | public transactions call by call with arbitrary programs, deployment, system-account guards | `validated_state_diff/mod.rs`, `state/mod.rs`, `common/src/transaction.rs` |
| `ProgramIO`, `Token`, `Amm`, `NativePrograms` | the built-in programs, instruction by instruction (`NativePrograms`: those on native balance, the clock, the stake, and those a message crosses zones through) | `lez/programs` |
| `Programs` | one public transaction over the built-in programs | `validated_state_diff` |
| `Zones` | genesis, users, deposits, deliveries, unstaking, clock and committee of several zones | `sequencer/core/src/lib.rs`, `committee_discovery.rs`, `testnet_initial_state` |
| `Circuit` | the privacy-preserving circuit | `lee/privacy_preserving_circuit/src` |
| `PrivateLedger` | proving, signing and validating privacy-preserving transactions; the Merkle tree | `lee/state_machine/src` |
| `KeyChain`, `Wallet` | key tree, key chain, the scan of blocks, restoration | `lez/wallet/src`, `key_protocol` |
| `Facades`, `Commands`, `WalletSession` | account manager and facades, command line and C calls, a session of them | `lez/wallet/src`, `lez/wallet-ffi/src` |
| `Production`, `Network` | mempool, block filling, deposits, gossip and RPC of a sequencer; several of them with clients | `lez/mempool`, `lez/sequencer`, `lez/wallet/src` (client) |
| `BlocksProofs`, `ChainOpsProofs`, `ChainStateProofs`, `IndexerInvariant`, `IndexerSteps`, `IndexerProofs`, `LedgerProofs` | lemmas and theorems | |
| `MC*` | instances for TLC | |

**Abstractions shared by all modules.** A block is its header and what the checks tell apart.
The state after a block is the sequence of blocks that led to it, of which the real state is a
function; `Executes(state, b)` says whether a block's transactions execute. A hash is a
name; equal hashes of blocks whose contents match them mean equal contents
(`HashAssumption`). Names, texts and encodings are left out, so data of one kind never decodes
as another.

**Chain state.** The struct is behind a mutex, so a method is one step, with its trailing
re-derivation included. An `expect` that would fail sets `panicked`. `live` separates the
restore at start-up from later calls.

**Sequencer.** `phase` is where `start_from_config` stands, `turn.pc` where the production
turn stands; a step ends at an await or after a write batch. The channel, its reorgs, other
sequencers and the zone-sdk (`sdk`: lineage reported so far, finality reported so far, our
pending inscriptions) are external and modelled from how `block_publisher.rs` and the follow
path use them. A checkpoint is the value of `sdk` at the time. The drive task's events
interleave with the turn. What a block is filled with is in `Production`.

**Indexer.** One action per await or durable write of the loop; `gate` is `ApplyRetryGate`,
`slot` is `SlotProgress`. Execution can fail for the moment, reads and writes can fail, the
process can crash; these share the bound of faults of a scenario. The verifier's answer is a
property of the block here and a module of its own in `CrossZone`.

**Cross-zone delivery.** `Watcher` reads the peer's slots; `Produce` drains the records into
a block with the classification against the final and the head state, the size and count
limits and the failure accounting, of which each write can fail by itself; `FinalizeBlock`
settles. `CrossZone` adds the verifier,
which reads the same channel with its own cursor, and the queue of final blocks that it
judges.

**Ledger.** Programs are arbitrary. An output is taken account by account
(`OutputAccount`), `FinishCall` ends a call and pushes its chained calls, `Commit` is the last
checks and `apply_state_diff`, `Fail` any refusal. Pre-states and flags of an output must be
the expected ones, so they are no choice. `ran` and `applied` are history variables.

**Programs and zones.** A program is a function of its pre-states and instruction, so a
transaction has one outcome; `Programs` runs it call by call under the rules of `Accounts`. A
nonce is 0 until an account first signs and 1 afterwards, since replay is `Ledger`'s subject.
The AMM's products are checked or wrap as in the code; the amounts of the scenarios stay below
the width. A scenario of `Zones` is a configuration, the transactions applied before, and the
inputs that may come.

**Private state.** Proofs are sound: what is submitted is an output of the circuit. A prover
works on a snapshot; the ledger moves between its steps. The order in which the code sorts
commitments by hash is any permutation. A signer signs once. The window of timestamps works
like that of block ids and is left out.

**Wallet.** The file is written whole. `Wallet` is the scan, over a chain that other holders
of its accounts extend and that only grows; a restoration stores after its scan and again
after its cleanup, which can fail in between. `WalletSession` is the sending side, where the
contents of a private account are what its last note says: a transaction is included, and the
command that waits polls it and reads its notes later. `EffectIsAsked` is about transactions
that the ledger takes; a cache that is behind mostly shows as a refusal. A privacy-preserving
transaction is made by running the program under the rules of public calls, with claims on
private accounts free of authorization, in place of the circuit (`Circuit` and `PrivateLedger` have
it); a private id that is passed as a public account is therefore accepted where the circuit
refuses it. Public tree, labels, group holders, removal of shared
accounts and file errors are left out. It is assumed that senders use keys currently in the
tree, that a first payment does not arrive during a restoration, and that an imported state
is no older than the scan. A child index is far below the end of its 32 bits.

**Network.** A node's executor is an actor: it answers asks one by one, and none during a
turn. Publication, its record and a restarted node's recovery are one step each here, since
`Sequencer` has their parts; dispatches and unstaking are elsewhere. Reorgs are blocks of a
third sequencer that replace as many unfinalized ones; the whole lineage is finalized at
once. Blocks with nothing but the clock are produced only while a node waits for them.
Whose turn it is, the channel says (`turns`). A range of blocks is read one block per step,
because the follow path writes to the store without the executor.

The wallet's client chooses leaders by comparing error ratios, which are `f32`. Their rounding
is modelled: a ratio is a multiple of 2^-29, which is exact for three clients of up to 21
answers. Latencies only order the clients that are left, so any order of them may come out.
The statistics file is truncated and then written; a process that dies in between leaves one
that does not parse.

## 3. Runs

| run | question | instance | result |
|---|---|---|---|
| `chain_state` | do the two tiers stay one valid chain under every order of calls, and is redelivery idempotent? | 8 blocks: forks at heights 2 and 3, one that does not execute, one with a wrong height, one forged under the id and hash of another; 9 inscriptions; updates of up to 2 and 2 | holds |
| `sequencer` | is the store loadable after a crash at any step, the checkpoint not ahead of it, the final tier what the channel settles? | our genesis and a peer's, rivals at height 2, our successor; 3 inscriptions; one crash or one L1 reorg | holds |
| `sequencer_published_once` | is a height never inscribed twice? | rivals of our own, one peer, no crash, no reorg | **violated** |
| `indexer` | does the cursor skip nothing, is history the replay, do lookups answer like a scan, is an accepted store on the channel, does the indexer implement `Follower`, is every slot passed? | two worlds: 3 slots out of 8 slot contents with 2 faults; honest slots with one L1 reset, `allow_chain_reset` and one fault; snapshots every 2 blocks, retry limit 3 | holds |
| `watcher` | is a message neither lost nor delivered twice, and eventually decided? | 2 slots with rivals, unlinked, unsigned, tampered and undecodable blocks; 2 faults, one orphaned block; cap 2, so a block's deliveries can be refused, `RETIRE_AFTER` 2 | holds |
| `cross_zone` | does the verifier hold the peer's chain, never halt on an honest dispatch, and let only what a peer emitted through? | 2 slots; one fault, restart or forged claim | holds |
| `ledger` | is balance conserved over any chain of calls, and does authorization go back to a signature? | 7 accounts, 2 programs, chains of 2 calls, 2 applied transactions | holds |
| `zones` | do supplies, reserves, escrows, stakes and clocks balance, is a deposit minted once, does a pool's share keep its worth, does the committee converge? | eight scenarios, one per group of programs, of one or two zones | holds |
| `private` | is value conserved between public and private accounts, is every note readable by its owner, does a proof stay good while its roots are known? | 2 programs, one public user, two private key holders, PDAs of one seed, 6 kinds of job, 2 proofs in flight, a tree of capacity 2 that doubles | holds |
| `wallet` | does the cache follow the chain, is the key tree without gaps, does a wallet catch up? | three worlds: a shared PDA with 3 messages, an imported key chain by command and by C call with 2 | holds |
| `commands` | is the effect of a command what was asked, and its private results decoded? | worlds of native, token, associated-account, AMM and call commands with one or two users | holds |
| `network` | is an acknowledged transaction decided, a deposit minted, gossip received, each answer of one chain, the client left with a leader and a right score? | 15 worlds of one or two nodes, each about one kind of race: submission (6), deposits (3), receipts, histories (2), a client with two sequencers, and with three that failed once in 18 or 19 answers | holds |

**Why the bounds are enough to be interesting.** Each instance is the smallest in which the
case named in the property happens: a fork needs two blocks at one height and one above;
finality of a prefix below a block needs three heights; a stale slot needs a crash after the
first of its writes; retirement needs `RETIRE_AFTER` = 2 failures; the third call of a chain
exceeds `MAX_NUMBER_CHAINED_CALLS` = 1 (the code's check is `counter <= MAX`); the Merkle tree
doubles once. Real constants (10 calls, 4096 records, snapshots every 100 blocks) only repeat
these steps. Bounds named `Max...` or fields of a world cap the environment (slots, faults,
reorgs) and are not in the code. The sequencer's invariants were also checked once with two
disturbances (3.9 million states), and with a late rival of a peer (13,441 states, see the
first observation).

**Fairness.** Indexer: `WF(Ingest)`, the loop in `subscribe_parse_block_stream` never ends and
the process is restarted. Watcher: it polls for ever and is restarted; blocks of the zone
become final; a turn with room for deliveries succeeds now and then (a schedule in which every
turn fails is excluded: the code promises nothing if no block is ever published). Zones:
`WF(SubmitCommitteeUpdate)`, taken at each turn, and `SF(UpdateLands)`, since a submitted
update can be dropped by a competing one any finite number of times. Wallet: weak fairness of
sealing a block, starting and finishing a scan and resolving a transaction, strong fairness
of `SyncBlock`, which a failed request can interrupt. Network: weak fairness of the union of
the nodes' steps, that is, some node that can move does. Environment actions (slots, reorgs,
faults, crashes) are never assumed to happen.

**Deadlock** is checked in `chain_state`, `sequencer`, `indexer`, `watcher` and `cross_zone`. The other
runs end when the transactions, messages or commands of their scenario are used up.

**Assumptions of the passing runs.** A block is inscribed after its parent (`ParentsFirst`).
In `sequencer`, `FinalIsSettled` is about behaviours without a crash whose final blocks are
all on the channel, and `CrashLeavesLoadableStore` about behaviours without an L1 reorg. The
L1 is reset only while the indexer is down. A slot is delivered whole. The observations say what happens
otherwise.

## 4. Findings

One run ends in a counterexample (quoted in `PROJECT.json`). `PublishedOnce`: the turn checks
the high water mark, awaits the committee snapshot and reads the head afterwards. An orphan
report in between rewinds the head, and a second block is inscribed at a height that was
published.

### Observations without a run

The following was met while modelling. The passing runs exclude the case or their property
allows it.

**Chain state.** A finalized inscription that carries the id and hash of a held block over
other contents is taken for that block (`chain.rs:232`), and on redelivery its `prev` is followed
(`chain.rs:239-245`): `RedeliveryIsIdempotent` is therefore about finalized blocks whose hash
matches. A finalized inscription that parks can still finalize its parent's prefix
(`chain.rs:244`). A different block at or below the final tip is `AlreadyApplied`.

**Sequencer.**
- Our block 3a is published on the peer's final 2p. A late rival 2q of the peer is included
  first, so the sdk reports 3a orphaned; at that time 3a is not in the head yet, the report
  changes nothing, and the turn then records 3a. Block 4a is built on it, included, and
  finalizing 4a makes 3a final, which is never on the channel (`lib.rs:669-715`, `787-815`; the comment there
  says "our invalidated inscription comes back via `orphaned`").
- After an L1 reorg, or a restart from a checkpoint that the publishing loop left behind, one
  event can hold two blocks of one height: the held one is skipped, its rival staged, and the
  store no longer loads.
- Reconstruction after a crash can finalize a rival of a block it holds (`lib.rs:577`).
- A new store is written cell by cell (`mod.rs:289`); a crash inside leaves one that is taken
  for an existing database. The cold-start checkpoint and a genesis tip count as committed
  (`lib.rs:474`). `channel_absent` is read before reconstruction and used after it
  (`lib.rs:361`).
- A head rewound below the mark waits until a peer reaches the mark; a sole sequencer waits
  for ever. The transaction map is filled at opening and by own blocks only, so a lookup after
  a reorg meets "This should never happen" (`block_store.rs:134`).
- A failed publication ends the node with the transactions it had taken from the mempool. An
  orphaned transaction is dropped if the mempool is full. The cool-down of a committee update
  starts even if its submission failed (`lib.rs:780`). Full delivery records are drained in
  the order of keys, so smaller keys can starve larger ones (`lib.rs:984`).
- RPC and gossip reserve 200 bytes (`service.rs:68`, `validation.rs:8`) where an empty block takes
  205: a transaction in between is admitted and fits no block. Only transactions of the store are
  dropped for that (`lib.rs:1099`); one of the mempool is put back in front at every turn, and
  everything behind it waits until the node restarts. `AcknowledgedIsDecided` exempts it and what waits
  behind it (`Stuck`).
- A page of a history compares its tip with the expected one (`service.rs:271`) before it asks for the
  blocks (`service.rs:326`). A reorganisation in between gives a page of the new chain under the
  old tip: of G, E2, E3, replaced by G, O2, O3, the second page can be O3 with E3 as
  `snapshot_tip` and no next page, although `service/protocol/src/lib.rs:60-62` says that the
  server rejects a page "rather than composing history from different local-chain snapshots". The
  block before a page is the node's at that time, not the client's last one, so the
  links do not show it. If the new chain is shorter the page ends early or is empty, and
  the history with it. What does hold, and what `AnswersAreOneChain` states: the blocks of a page
  are on one chain, and on that of the first page if the node still has the page's tip when
  the last of them is read.
- The withdrawal counter is set to count + 1 (`storage/src/sequencer/mod.rs:1142`, doc at 236).

**Indexer.** `APPLY_RETRY_LIMIT` failures of a good block's execution park it for good. With a
block inscribed before its parent, a second read of a batch can apply what the first parked. A
parked rival that a new L1 repeats passes the start-up check, a parked block of the anchor's
id before the applied one is reported as another chain (with `allow_chain_reset` the store is
wiped), and the anchor is accepted at a later slot. A cycle that only drains leaves the status
`Starting`; `orphans_since` counts a block once per pass. The subscription service's respawn
can meet its own `expect`, failed sinks stay, and ids are lost when a sink's buffer is full.

**Cross-zone.** A peer block with more deliveries than the cap is refused on every pass. If
settling fails, the dead letter of a delivery that is final stays. With a block inscribed before its
parent the watcher re-reads a slot with its later tip.

**Ledger.** `validate_on_state` refuses a user transaction that lists the bridge account
unchanged (the comparison is strict) while its doc speaks of modification. An account without
owner whose nonce moved can never appear in an output again (rule 7 of `validate_execution`).
The host prover stops at `chain_calls_counter >= MAX` (`circuit/mod.rs:115`), the validator
and the circuit one call later.

**Wallet and commands.** A scan files what it finds for a shared account without looking at
the kind of the note (`lib.rs:1107`; `key_chain.rs:113` says "keyed by `AccountId`"). An imported
key chain with a new identifier panics at every scan. `private_account_keys` expects an
account (`account_manager.rs:362`). Transfers of the C interface submit an unsigned
transaction where their doc promises `KeyNotFound`; `vault_claim` makes no check behind its
`InsufficientFunds`. AMM holdings in reverse order are refused. The poller polls once less
than its maximum. A client keeps asking a dead sequencer whose last known block is the highest. Clients with
equal error ratios can all be above the average, because it is rounded (three of 1/19 or of
5/7): `setup` then fails with "Sorted out all clients" (`multi_client.rs:161`), the
wallet does not open, and a rotation ends after it changed the statistics and before it
chose leaders and wrote the file. Both files are truncated before they are written
(`storage.rs:79` for the accounts), and a cut-off one does not open. The scan reads the head,
which can be reorganised (`lib.rs:978`), and remembers only a height: blocks that replace
scanned ones are not read.

## 5. Proofs

All theorems hold for every value of the constants that satisfies the named assumptions, which
TLC evaluates on the instances.

**Blocks** (`BlocksProofs`). Lemmas about chains and channels: induction over the naturals in
a form the provers can use (`SetInduction`, from the library's well-founded induction without an
operator parameter); a prefix of a chain is a chain; appending a block that applies gives a
chain; what a list of blocks settles grows with the list, and a block that extends what the
first *h* entries settle is settled by the entry where it stands; the position up to which a
cursor has read is monotone. From them, with `ParentsFirst`: reading entries again settles
nothing new.

**Chain state** (`ChainOpsProofs`, `ChainStateProofs`). Assumed: the types of blocks and
inscriptions, hashes commit to contents, a message id commits to its payload, and hash links have no
cycle (`AcyclicAssumption`). The invariant of the struct is `ChainOK(c)`: `c` has its type, its head state
is its final state followed by its head blocks, this sequence is a chain (`IsChain`: it
replays from the cold state), the final tip names the last final block, nothing panicked. None
of these is inductive alone: that a replay cannot panic needs that the head is a chain, and
that a truncated head is a chain needs that its state is the replay. `ChainOpsProofs` shows
for each method that it keeps `ChainOK` and only extends the final tier; for
`apply_channel_update` the adopted list is handled by induction over its length.
`ChainStateProofs` lifts this to the state machine: `TypeCorrect`, `HeadIsReplay`,
`TiersFormOneChain`, `ReplayNeverPanics`, `ProductionNeverReorgs`, `FinalTierIrreversible`.
`RedeliveryIdempotent` needs one more conjunct: every head entry is `Tagged`, an inscription
under its own message id or a block restored under its hash. Without it two entries could share
a message id and a redelivered one be taken for the other. The acyclic links exclude that the
parent a redelivered block names lies above it.

**Indexer** (`IndexerInvariant`, `IndexerSteps`, `IndexerProofs`: the invariant with lemmas on
the store, the reader and the start; the steps that handle a message; the theorems). Assumed:
types, a positive interval and retry limit, hashes commit to contents. The invariant `Inv` has
three parts.

- `Base`, the durable and the remote state: the stored blocks are a chain, every snapshot is
  the state after the block it is filed under, slots of the channel are in order.
- `Memory`: at each await the state in memory is the replay of the store, or lacks exactly the block just
  written.
- `Follows`, if `ParentsFirst`, the L1 was not wiped and there were fewer faults than the retry limit: there is a
  number *h* of channel entries such that the store holds what they settle, neither cursor is
  past *h*, and a pass stands at an entry *p* <= *h* of those up to *q* that it took from the channel. The store may be
  ahead of the pass because a crash loses the cursor and not the blocks. `GateOK` is the part
  that keeps a good block from being parked: a streak of failures in the gate is no
  longer than the faults there were, or it is that of a block which does not execute and which is
  still to be read.

From it: `IndexedStateIsReplay` (`HistoryIsReplay`: the state at any stored height,
computed from the nearest snapshot, is the replay), `NothingIsSkipped` (`CursorSkipsNothing`:
every block the channel settles up to the durable cursor is stored), and the refinement
`IndexerFollowsChannel` (`ImplementsFollower`): initial states map to initial states
(`InitInv`); a step of the L1 only extends the log (`FinalizeExtends`); every other step leaves
the log alone and either the store too or extends it within what the log settles
(`StoreOnlyGrows`, `StepFollows`). Where a world is disturbed the mapping is constant.

**Ledger** (`LedgerProofs`). Assumed: ids do not collide, the genesis state has no balance on
unowned accounts and programs only at their own ids, restricted accounts and the bridge are
neither signers nor programs, a transaction carries as many nonces as signers. `IInv` adds to
the properties what holds in the middle of a transaction:

- `DiffIsLawful`, `OutIsLawful`: diff and output are what the programs that ran, and the
  running one, may make of the accounts (`Lawful`, which is transitive: the reason why any
  length of chain is covered);
- `AuthorizationIsRooted`: the authorized set of each call on the stack goes back to a
  signature or a PDA of a program that ran;
- `NoncesAreCurrent`, `NoncesAreSpent`: the running transaction carries the nonces of its
  signers, the applied ones carry lower ones;
- `ProgramIdsHoldPrograms`, `IdleIsClean`.

From it: `AuthorizationRooted`, and, without a run of their own, `UnownedHoldsNothing`,
`NoReplay`, `OwnersTake`, `OwnershipByConsent`, `SystemAccountsSafe`, `TypeCorrect`,
`NoncesCount`, `CodeImmutable`.

**Only model-checked.**
- Liveness, which needs fairness and ENABLED: `EverySlotIsPassed`, `EveryMessageIsDecided`,
  `CommitteeConverges`, `WalletConverges`, and the temporal properties of `network`.
- Sums and recursive definitions over data, which need inductions the provers cannot do:
  `BalanceIsConserved`, `BooksBalance`, `ShareValueNeverDrops`, `ValueIsConserved`,
  `LookupsMatchScan`.
- `ConsistentStoreIsOnChannel`: it rests on the L1 resets of the scenario being complete.
- `FinalIsSettled`, `CheckpointNotAhead`, `DiskFollowsHead` and `CrashLeavesLoadableStore` hold
  with the premises above; the races under the observations rule out a general statement.
- `NothingIsLost` is false once the dead letters overflow, so only the bounded form is checked.
- `FollowsThePeer`, `VerifierFollowsThePeer`, `DeliveredOnce`, `NeverHaltsOnHonest`,
  `OnlyEmittedIsApplied`: not proved yet (section 7).

## 6. Not modelled

Zero-knowledge proofs, signatures and encryption (assumed sound), serialization, the L1 and
the zone-sdk beyond what the code relies on, transports, logging and metrics, the indexer's service
and FFI, the explorer, tools, withdrawal counters, the layout of storage cells, configuration, the
task group, the accreditation provider. Honest peers sign what they inscribe; a peer that signs
two chains is outside the passing runs. `Executes` is deterministic: what a node executes
another can.

## 7. Plan

1. **Cross-zone proofs**: `VerifierFollowsThePeer` and `FollowsThePeer` from the lemmas about
   what a channel settles (a peer's accepted run is what its blocks settle under
   `screen_peer_block`), then `OnlyEmittedIsApplied` and `DeliveredOnce`.
2. **Private ledger proofs**: a nullifier is spent once; a note is readable.
3. **Key tree proofs**: `KeyTreeIsDense`.
