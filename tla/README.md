# Arbitrary token transfers in TLA+

The specifications in this directory model the Token Bridge Relayer v3 of this
repository: an EVM contract (`evm/`) and a Solana program
(`solana/programs/token-bridge-relayer/`) that send tokens through the Wormhole
token bridge, sell the redemption on the other chain and a gas dropoff for a
fee, and register each other as peers. TLC checks each module on a small
instance; TLAPS proves the main properties for every value of the constants.

## 1. Inventory

What follows is read from the source; `PROJECT.json` maps each definition to
its lines.

| Component | State | Operations | Must hold |
|---|---|---|---|
| Solana roles (`processor/initialize.rs`, `owner.rs`, `admins.rs`, `state/auth.rs`) | owner and pending owner in the config account, a badge account per owner or admin, the upgrade authority in the loader's program data | initialize, submit / confirm / cancel owner transfer, add / remove admin | ownership and upgrade authority move together, in two signed steps; badges come from the owner only |
| Solana peers and settings (`peers.rs`, `chain_config.rs`, `config.rs`) | one account per peer, one per configured chain, one for the program | register peer, move the canonical peer, pause, limits, fees, fee recipient, EVM gas and size | the canonical peer of a chain is one of its peers and only the owner moves it |
| Solana transfers (`outbound.rs`, `inbound.rs`, `utils.rs`, `signer_sequence.rs`) | a sequence per signer, message accounts, a temporary token account per mint that lives inside one instruction | init user, transfer tokens, complete transfer | nobody is blocked by others, nothing is lost on the way, messages are numbered without gaps |
| Solana fee quote (`utils.rs`, `queries.rs`) | none; reads the price oracle's accounts | quote, called by transfer tokens too | no wrap-around, and rounding that loses less than one unit |
| EVM peers and settings (`TbrBase.sol`, `TbrConfig.sol`) | peers, canonical peer, base fee, largest dropoff and pause per chain, fee recipient | batches of config commands | as on Solana, over batches that change several of them |
| EVM dispatcher and payments (`TbrDispatcher.sol`, `TbrUser.sol`) | the contract's balance, and what the running call has left of its value | `exec`: transfers, redemptions, sweeps, fee and refund at the end | a call spends its own value only, also when payments re-enter `exec` |
| EVM relay fee (`TbrUser.sol`) | none; reads the oracle | quote and charge | what was quoted covers what is charged |
| Token acquisition (`TbrUser.sol`) | allowances in token contracts | approve, permit, Permit2 | the amount asked for arrives |
| Deployments together | peers of each contract, published messages, claims | register, send, redeem | what leaves one chain arrives once, in full, where it was sent |
| EVM SDK, Solana SDK (`sdk/`) | none of their own; read the chain, build transactions that run later | transfer, redeem, configure, query | a transaction built on old state fails as a whole or does what its signer saw |
| Connect route and platforms (`connect/`) | the accepted quote | quote, initiate, track, complete | a quote is still honoured, or refused, when used |
| Deployment scripts (`deployment/`) | `contracts.json` and `tbr-v3.json`; what a running script has read | deploy, register peers, set canonical peers, set fees and dropoffs, on many chains in parallel | whatever fails, repeated runs bring every chain to what the files say, and a success means what it says |
| Bindings, IDL, build archive | none | none (generated) | none |

How they interact. The contracts never call each other: a transfer is a call of
the local token bridge, which publishes a message; anybody fetches it and hands
it to the contract it is addressed to, which checks the sender against its own
peers and has the token bridge pay out once. Registration is therefore
one-sided and its order free. Inside one chain, the EVM contract calls token
contracts, the token bridge, the recipient, the fee recipient and the sender,
all of which may call back. The Solana program calls the system and token
programs, the token bridge and the loader; a transaction is atomic, but it was
built earlier, from state that others have changed since. The SDKs and scripts
only talk to the chains.

Hard behaviours: re-entrant payments on one shared balance with unchecked
subtraction; ownership acquired in the middle of a transaction that configures;
messages duplicated, delayed and reordered without limit; registrations that change under messages
in flight; two parties, program and loader, that move the upgrade authority;
transactions that run after the state they were built from is gone; a
temporary account at an address that anybody can pay; amounts cut to 8 decimals
and back. There is no crash recovery in the contracts: the chains make each
transaction atomic, and nothing of theirs runs between transactions. The
deployment scripts are the opposite: they fail for one chain and go on with the
others, end in the middle, give up transactions that land later, and are simply
run again.

`PROJECT.json` lists each hazard at its line, with the properties that catch it.

## 2. The modules

| Module | Models | Abstract specification |
|---|---|---|
| `TwoStepOwnership` | what the doc comments promise of ownership transfers | |
| `SolanaRoles` | every role instruction, with its calls of the loader, and the loader called directly | implements `TwoStepOwnership` |
| `PeerRegistry` | what any deployment promises of its peers and canonical peers | |
| `SolanaConfig` | every configuration instruction, extending `SolanaRoles`, whose steps its own interleave with | implements `PeerRegistry` |
| `EvmConfig` | transactions of role commands and configuration batches, with commit and revert | implements `PeerRegistry` |
| `EvmDispatcher` | `exec` and the native currency it moves, as a stack of re-entrant calls | |
| `RelayedTransfers` | what users are promised of a transfer | |
| `TokenTransfers` | deployments of both kinds, an outside sender, messages and redeemers | implements `RelayedTransfers`, and each deployment `PeerRegistry` |
| `SolanaTransfer` | transactions built by the SDK and run later; lamports and tokens through the temporary account | |
| `RelayFee` | both chains' fees, the SDKs' conversions and the units of dropoffs, as operators | |
| `RelayQuote` | the route from validation over quote to transfer and redemption, with settings and prices that change in between | |
| `Deployment` | the deployment of proxies and the three configuration scripts, with failures, crashes and transactions that land late | |
| `MCTokenTransfers`, `MCSolanaTransfer`, `MCRelayQuote`, `MCDeployment` | the instances TLC checks | |
| `SumTheorems` | lemmas about sums over finite sets | |
| `SolanaConfigProofs` (with the roles), `EvmConfigProofs`, `EvmDispatcherProofs`, `TokenTransfersProofs`, `SolanaTransferProofs`, `RelayQuoteProofs`, `DeploymentProofs` | proofs, one module per component | |

Definitions whose names start with `Mut` are plausible mistakes in the
definition that follows them. They are used by no specification: each one
replaces that definition to show that a property notices.

### Correspondence with the code

*SolanaRoles.* One action per instruction; a guard is an Anchor constraint, a
check of the handler or the condition under which the loader's call succeeds.
An instruction that fails changes nothing and is no step. `signer` and `direct`
are history variables: who signed last, and whether the loader was ever called
other than by the program. The set of admins given to `initialize` is a set
because a repeated key makes the creation of its badge fail.

`TwoStepOwnership` promises more than the two steps: a nomination is withdrawn
before another one is made. The program keeps that without checking it, because
submit needs the authority that the lock holds meanwhile.

*SolanaConfig.* The accounts of the peers are a set of pairs, those of chains a
function to a record or `None`. The check of a signer is a badge
(`Authorized`) or ownership, as in each instruction's accounts. The 32-byte
addresses are model values with one zero address; the `u32` settings have two
values, since no code computes with them here. The direct calls of the loader
are steps here too.

*EvmConfig.* `store` is the storage that others see, `work` the storage as the
running transaction sees it; `Commit` and `Revert` end a transaction. A
configuration batch reads the sender's role when it starts (`tx.batch`) and its
commands use that. The library that answers for roles is not in the repository
and is modelled as external, from how the code calls it. The type of `Storage`
leaves out what `_addPeer` refuses: the zero address, chain 0 and the chain
itself. No command of a batch changes roles, so that the role read at its start
stays the sender's (`BatchRoleCurrent`); other commands of the transaction do
change them.

*EvmDispatcher.* `frames` is the stack of running calls of `exec`; `before` is
the balance a revert restores. Each payment is two steps, the value leaves and
the other side returns, and between them other calls may start. Subtractions are
modulo `Word`, as the code's are unchecked. ERC-20 balances are left out: the
tokens of a command come and go in the same command. A token that runs
its own code in between is `CallToken`.

*TokenTransfers.* `RegisterPeer`, `UpdateCanonicalPeer`, `SetPause` and
`UpdateMaxGasDropoff` repeat, in one line each, what the configuration modules
model in full; the caller's role is left out, as any schedule of changes must be
survived. `OnSolana` says which deployments have the Solana program's
differences: a new chain starts paused, a canonical peer must be registered
before it is chosen, and neither the zero recipient nor an amount that bridges
to nothing is refused. Messages are never removed, so that each can be
submitted any number of times by anybody. No check of a redemption looks at the
recipient: `Receivable` is external and says which transfers to the zero address
the tokens themselves accept. Where the token is the gas token of an EVM chain,
WETH9 and a plain payment do, so that there anybody redeems such a message and
its value is burned; the ledger keeps the zero address as an account, from which
nothing is ever sent. The token bridge's wrapped tokens refuse it, and key 0 of
Solana is a program.

*SolanaTransfer.* `BuildTransfer` is the SDK reading the sequence, the fee and
the fee recipient; the draft it signs runs later (`TransferTokens`), or never
(`Expire`). A mint in `lamports` stands for its temporary account. The
instruction's calls are applied in the code's order to intermediate values of
`lamports`. `ChangeSettings` and `Donate` are what others may do meanwhile; the
fee is any value, because it follows prices, and the largest dropoff one of
`Limits`, with which the program compares the draft's dropoff when it runs. A redemption runs with the
recipient's token account as it is, or after the instruction that
`completeTransfer` of the SDK puts in front (`CreateRecipientAccount`). It can
run for any payer; the SDK names the signer.

*RelayFee*, *RelayQuote.* Each power of ten is a constant (`WeiPerMwei`,
`MweiPerMicro`, `MicroPerToken`, `LamportsPerSol`), and so is the width of a
`u64`. `Computable` gathers what makes `calculate_total_fee` fail;
checked additions of natural numbers fail exactly if their sum does not fit.
JavaScript computes fees and dropoffs with doubles. A fee in Mwei is divided
by 10^12, multiplied by 10^18, cut, divided and multiplied again, which moves it
by at most four roundings, about 450 wei for a whole token and less than the
10^6 wei of a Mwei up to some two thousand tokens: `AttachedFees` takes any value
within `DoubleError`. A dropoff of `k` micro tokens divided and multiplied by 10^6 may
come out just below `k` and is cut to `k - 1` (249 is the first such `k`):
`CutMicros`. In `RelayQuote` the actions are the route's steps; signing and
executing a transfer is one step, `Initiate`, because nothing is read between
them, and the executing contract uses the settings and prices of that moment. The
oracle's formula on EVM is external. The Solana client reads four accounts one
after the other; a quote from accounts of different times is covered as a stale
one. `sent` and `fresh` are history: the transfer just executed, and whether
anything changed since the quote. The checks with `isSupportedChain` and
`tokenBridgeRelayerV3Chains.has` look for a chain among the members and keys of
a map by network, so that they never hold and throw nothing.

*Deployment.* `book` is `contracts.json` and `config` is `tbr-v3.json`. A
contract is told by its deployment number, 0 for none, and the i-th edition of a
chain's entry asks for i dollars and i gas tokens: fees and prices are positive,
since in an update 0 means that a field is left alone. `registry` is what the contract that is
recorded for a chain holds for each other chain. Redeploying replaces it: what
was on its way goes to the replaced one, and so does what a running script still
does for that chain, whether it succeeds or not, which the model follows no
further (`Leaving`). `run` is the running script: the
book it read when it started, and for each chain the peers it has still to look
at and the transactions it has still to send. The EVM script and the Solana
script of one name run together, as they share nothing. On EVM a chain is asked
about all its peers and gets one transaction; on Solana the script goes from peer to peer. The
several queries of one peer are one `Read`: what changes between them makes the
transaction built on them outdated in the same way as what changes after them.
`Fail` is an error for one chain; `Lose` one after the transaction left, which
is then in `late` and may land at any time; `Crash` ends the process of a
platform, as an error outside the `try` of a chain does. `clean` is history for
`SuccessMeansDone`: the chains about which nothing else changed. The contracts'
answers (`Accepts`, `Updated`) repeat `EvmConfig` and `SolanaConfig`, without
the caller's role, without the pause, and as if each token bridge knew all
chains (the refusal of `TbrBase.sol:132` is in `EvmConfig!CanAddPeer`). A chain
that a Solana script skips because it has no peers there counts as done in
`Achieved`, since the script logs success for it. The model has exact numbers; the code compares fees as
doubles, so that one that does not survive the conversion is sent again on each run.

## 3. The runs

| Run | Instance | Shows |
|---|---|---|
| `solana_roles` | four accounts | a pending transfer keeps the authority locked, the authority follows the owner until the loader is called directly, a handover is complete and signed, badges come from the owner, and the abstract ownership is implemented, so that no nomination is overwritten |
| `owner_without_badge` | three accounts | *violation*: an admin removes the owner's badge, and the owner fails the check documented as "Owner or Admin" |
| `solana_config` | two accounts, three chain ids with 0, three addresses with zero | the registry is implemented (canonical peers are peers, and peers are never lost), and the owner alone redirects |
| `evm_config` | two accounts, four chain ids with 0 and its own, transactions of up to two commands | the same inside and after transactions, canonical peers are registered at every moment, the role a batch reads stays its sender's, and canonical peers move on the owner's word, also if the owner is new |
| `evm_dispatcher` | two callers, one an admin, amounts 0 to 3, two nested calls | each call is accounted for, nothing wraps or stays behind |
| `token_transfers` | a Solana program, an EVM contract and its successor, an outsider, two messages, two accounts of which one refuses payments; 393k states | everything paid out was published by a peer, as asked for and once, value is conserved, what is redeemable stays so, the promise to users is implemented, and every message of a registered sender arrives without a relayer |
| `solana_outbound` | two wallets, one mint, two drafts, two messages per wallet, two largest dropoffs; 228k states | messages are counted, dust stays, fees are as signed, others do not block |
| `solana_inbound` | two wallets, wrapped SOL and another mint, two messages; 254k states | value is conserved, redemptions settle as asked, and every recipient that can advance the rent gets its messages redeemed |
| `relay_quote` | three routes, eight prices of which two are unset and one is for another platform, two limits, two fees | a quote suffices while nothing changes, and what goes out is within the quote and covers the relay |
| `deployment` | an EVM chain and Solana are configured, another EVM chain is deployed twice and its entry edited once, one failure; 234k states | contracts know recorded contracts only, Solana opens a chain together with its settings, a success means what it says, nothing is sent twice, and the scripts converge |
| `fee_units` | the same | *violation*: on Solana the fee in dollars is stored as micro-dollars |
| `redemption_value` | as `relay_quote` | *violation*: the EVM SDK attaches too little to a redemption with dropoff |

Why the bounds are enough. Three accounts are owner, successor and a third
party, and the fourth lets an unrelated admin act during a handover. Three
addresses are none, the registered and another one. Two commands are enough for
one to undo or depend on the first, and a revert of both. Two nested calls have
an outer call whose money an inner one could take; the proofs cover any depth.
Two messages can be redeemed out of order and their sends be separated by a
change of canonical peer; a third EVM contract would repeat what the successor
does. On Solana two drafts of one wallet share a sequence, and one draft each
of two wallets share a temporary account; one bridged unit is two base units,
so that odd amounts have dust; rent 2 against 4 and 3 lamports makes both
success and lack of funds happen. `MaxSequence`, `MaxDrafts`, `MaxVaas`,
`MaxMessages`, `MaxCommands`, `MaxDepth`, `MaxBalance`, `MaxVersion`,
`MaxEdits` and `MaxFaults` are bounds of the model. The outbound run has no messages from abroad and the inbound one no drafts: the
two share no variable but the balances, which both change freely.

In `deployment`, the chain that is deployed twice is a peer only, so that the
others have an old and a new contract of it to tell apart; one edition leaves
old settings to be replaced; one failure is enough to leave a chain half done or
a transaction behind, which two scripts can overtake. `FeeInUsd` and `RedemptionFunded`
use the instances of the passing runs. That a configured chain is itself replaced is
covered by the proofs, which know no bound.

The powers of ten are 2 or 3, so that amounts and prices of one digit already
round at every place; a word of 64 is exceeded by the largest price and not by
the others. A percentage is of 3 parts, so that it cuts micro tokens.

Deadlock. `SolanaRoles.cfg`, `SolanaConfig.cfg`, `TokenTransfers.cfg` and
`Solana*bound.cfg` turn the check off: an authority given up before
initialization ends everything in the first two, and the bounds on messages and drafts end the others. Elsewhere it is on.

Fairness. `TokenTransfers!LiveSpec` assumes that for each contract and message,
if the recipient can redeem, it does so eventually (weak fairness of its own
redemption), and `SolanaTransfer!LiveSpec` the same of recipients on Solana,
with the transaction that the SDK builds. `Protocol-overview.md:44-46` says that
users redeem by themselves when no relay happens; nothing is assumed of
relayers, of registrations or of the admins. `RecipientRedeems` therefore ends
with a redemption, or with a moment at which the recipient has less than the rent of the
temporary account, which it must advance.

`Deployment!LiveSpec` assumes that the operators keep running each of the three
scripts (strong fairness of `Start`: it is disabled while another one runs),
that a script that runs goes on, ends, and that a lost transaction lands or
expires. Deployments, editions and failures are bounded by their number;
nothing is assumed about when they happen. Other modules have no liveness.

### Disagreements found

1. `admins.rs` lets any badge holder close any badge; the doc comment of
   `register_peer` (`lib.rs:77-80`) promises "Owner or Admin".
2. `Tbrv3.completeTransfer` (`contract.ts:319-350`) decodes a dropoff to whole
   tokens and multiplies it by the factor for micro tokens, under the comment "Here we
   need to calculate the amount in wei". Dropoffs of whole tokens are funded a
   millionth, and the contract refuses them from anybody but the recipient; all
   others make `BigInt` throw.
3. `relayFee` of `tbr-v3.json` is "specified in usd" (`config.types.ts:8-9`).
   The EVM script converts it; the Solana scripts pass it on as micro-dollars
   (`solana/register-peers.ts:59`, `solana/configure-fee-and-dropoff.ts:67`).

Without a run of their own: `initialize.rs:14-15` says that only the deployer can
initialize; the loader, which would enforce it, is not called if the chosen owner already
has the authority; `peers.rs:54` refuses chain 0 with the error
`CannotRegisterSolana`, while Solana is chain 1 and is accepted; `QuoteSuffices`
does not hold without `DoubleError`, for one quote in 25 by some wei;
`isChainAvailable` of the Solana platform (`automatic.ts:136-139`) returns whether the
chain is paused; the doc comment of `gasDropoffAmount`
(`token-bridge-relayer.ts:67`) says micro tokens, the code (line 793) takes whole
tokens.

Two differences between the chains show in `TokenTransfers` without
contradicting a doc: the Solana program accepts a zero recipient and an amount
that bridges to nothing. A message of the second kind can be redeemed, for
nothing. One of the first kind is redeemable by anybody, and burned, where the
token is the gas token of the EVM chain it arrives on; elsewhere it stays in
flight for ever.

## 4. The proofs

TLAPS checks every proof without trusting a step. Assumptions are the named
`ASSUME`s of the modules: roles and sentinels are distinct values, amounts are
naturals, a unit is positive, and the balance bound is below the word size. The
theorems about sums need two more: the sets of users, mints and chains are finite
(`AccountsAssumption`, `UsersAssumption`), and a base unit at home divides into
whole ones elsewhere (`UnitAssumption`: a wrapped token has at most the bridge's 8
decimals, so that its unit is one bridged unit). Every invariant named below was
checked by TLC on the instance of its module before it was proved.

- *SolanaRoles.* `TypeOK` and `UpgradeControl`, of which `PendingMeansLocked` is
  a part, rest on one invariant. That the lock holds the
  authority while a transfer is pending needs no more than the pending owner: the
  lock signs in confirm and cancel only, and both clear it. The
  refinement to `TwoStepOwnership` is step by step; that a nomination finds none
  pending follows from `PendingMeansLocked`, because submit needs the authority that the lock
  has. `HandoverComplete` follows from the same invariant, and
  `BadgesComeFromOwner` action by action. These proofs are in
  `SolanaConfigProofs`.
- *SolanaConfig*, *EvmConfig.* `CanonicalRegistered` is inductive with the type
  invariant, which also says that no contract of its own chain, or of chain 0, is
  a peer; on EVM it is stated for `work` and `store`, since a commit copies
  one to the other. `BatchRoleCurrent` holds since no role command runs in a batch,
  and `CanonicalMovesByOwner` needs an invariant that relates `work` to
  `store`: while a transaction runs, the owner of `work` is the owner of `store`
  or its sender is the successor; on Solana it is a matter of who signs what, with
  the roles' steps in between. `PeerRegistry` is implemented by both: on EVM
  its peers never shrink since `work` only adds to `store` (`PeersGrow`), on Solana a step
  keeps what it does not name (`ConsistentPeers` gives the rest).
- *EvmDispatcher.* The invariant is `Accounted`: at each depth, the balance
  below the next call, plus what was swept, is the balance found plus what is
  owed. With it and the bound of each call's debts by its value, nothing
  wraps, for any depth, amounts and word size above the balance.
- *TokenTransfers.* `Numbered`, `Routed` and `Addressed` strengthen the safety
  properties: message ids are 1 to their number and unique, canonical peers are
  peers on the chain they stand for, and messages say where they go. From them follow
  `SentToPeer`, `RedeemedAsAsked` (a message is paid once because its contract has
  claimed it), and that each step of the deployments is a
  departure, an arrival or nothing of `RelayedTransfers`. `NothingLost` proves
  `Conserved`: a departure takes from one account what its message adds to
  `Flying`, an arrival the reverse (`DepartureConserves`, `ArrivalConserves`), the
  zero address being one of the accounts, so that their sum (`Worth`) is that of the start. `RedeemableStays` needs that peers
  are never forgotten (`PeersGrow`). `RegistriesKept` shows that the
  registrations of each deployment here implement `PeerRegistry`, as the
  detailed ones do; it needs that a contract which accepts messages of a chain has
  a canonical peer for it (`Answerable`).
- *SolanaTransfer.* Lemmas reduce the sequence of transfers in an
  instruction to what each address gains and loses (`PayValue`, `OpenValue`,
  `CloseValue`, `TransferTokensValue`, `CompleteTransferValue`). The invariant
  is `TypeOK`, that nothing is overdrawn, `MessagesCounted`, and that messages
  from abroad have unique numbers. `SignedFeeOnly` and `RedemptionSettles`
  follow from the lemmas. So does `Conserved` (`NothingLost`): each transaction
  moves lamports and tokens between addresses, and no address outside the sum
  keeps any. `OnlyWholeUnits` is not inductive, as a redemption takes from the bridge what a
  message says; `Whole` adds that messages carry whole units. `OthersDoNotBlock`
  proves `NotBlocked` from what each check of the transaction reads; that the message account
  stays free follows from `MessagesCounted`, as its number is the payer's sequence.
  `NoMessageLocked` is about solvency: `Covered` says that the bridge holds
  for each mint what the unredeemed messages add up to, so that none of them can
  fail for another one's sake, and `Unlocked` that each can be redeemed by its
  recipient alone, with the transaction of the SDK, if it has the rent. This is the part of
  `RecipientRedeems` that needs no fairness.

- *Sums.* The community modules fold a function over a set, one picked element at
  a time. `SumTheorems` proves that the order does not matter, that a sum changes
  by what one of its terms changes, and that it is split by taking an element out.
  An induction over the set would need a theorem with an operator parameter;
  it is replaced by the choice of a smallest subset for which the statement fails,
  whose existence is a theorem about finite sets.

- *RelayQuote.* `RoundedUp` and `FeeRounds` are about the operators: the quote
  in Mwei covers the charge in wei, and the program's fee is the exact one less
  at most a micro-USD and a lamport. The invariant adds to the properties that a
  quote has the dropoff it was made for, and that a fresh one could be made
  now. `QuoteSuffices` on Solana follows because a dropoff is only ever cut and
  the fee grows with it (`FeeGrows`).

- *Deployment.* The invariant is `TypeOK`, `OpenWithSettings` and that every
  transaction that waits to be sent (`GoodRun`) or may still land (`GoodLate`)
  names contracts recorded by now and registers a peer on an unopened chain of
  Solana with settings only. That is why it does not matter when a transaction lands,
  and after how many other runs. `SuccessDone` proves `SuccessMeansDone` from `Settled`: for a
  chain that nothing else changes, the peers that the script has passed are as it
  wants them once the transactions it still has to send are applied (`After`) to
  what the chain holds. At the end of the script for the chain none is left.
  `Settled` says nothing of a chain whose own contract was replaced meanwhile.
  `RerunsAreIdle` proves `IdleWhenRight` from what is `Missing` where all is right.

Only model-checked: `Arrives`, `RecipientRedeems` and `Converges`, since
liveness under fairness is beyond the prover. Every other property of a passing
run is proved as well. `RedeemableStays`, `NoMessageLocked` and `SuccessDone` are
the steps of the arguments for those three that need no fairness. The other way round, `CanonicalRegistered`
on Solana, `TypeOK` of `RelayQuote`, `NoMessageLocked` and `RegistriesKept` are proved and not listed in a run.

## 5. What is not modelled, and the plan

Done: 1. roles, 2. peers and settings, 3. the dispatcher, 4. transfers between
chains, 5. Solana transfers, 6. fees and quotes, 7. deployment scripts, each
with its proofs, and the liveness of redemptions on both kinds of chain.

What could follow: the fee recipient of `EvmDispatcher` as an address that
configuration commands change; the fee of `SolanaTransfer` refined by
`RelayFee`; the availability check of the route before it validates.

Left out for good: the token acquisition modes, whose work is done by token and
Permit2 contracts (in `EvmDispatcher` they are points of re-entry); the proxy
and its upgrades, in a library that is not in the repository; the parsing and
serialization of commands and accounts; the queries, which change nothing; the
rent of accounts that other programs create; the deployment scripts that send
one instruction or query each (unpause, upgrade, initialize, add and remove
admin, set the fee recipient, verify, read). The `.pnp.cjs`, `.pnp.loader.mjs`
and `.yarn` files, the IDL and its types, and the factories of `build-archive`
are vendored or generated: they are most of the repository's TypeScript and
JavaScript by lines, and hold no behaviour of their own to model.

Running: `tlc -config X.cfg M` for a run of module `M`, `tlapm M.tla` for a
module of proofs.
