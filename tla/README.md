# Formal model of the NIX governance cast path, proposal view and wallet lock

This directory holds TLA+ models of three parts of the NixCore wallet, with the
TLC configurations that check them and TLAPS proofs:
* the wallet side of off-chain governance voting (`GovVote`);
* the governance page's proposal list (`ProposalView`);
* the wallet lock: the unlock/relock RPCs, the relock timer, the key-using RPCs
  that check the lock and the GhostVault page that unlocks through the GUI
  (`WalletLock`).

## The system

In the repository, the voting code sits in three places:

| Part | Source | What it does |
|---|---|---|
| GUI caster | `src/src/qt/offchaingovernance.cpp` `OffChainGovernance::vote` (215-400) | IBD gate, `LOCK2(cs_main, cs_wallet)`, wallet unlock, proposal lookup by name, ledger scan ("already voted"), confirmation dialog, collection of coinstake scripts, signing loop, `SendRequests(CAST_VOTE)`, spin on `isReady()`, `statusOK` check, weight aggregation, `WriteGovernanceEntry` if the weight is not 0, refresh `GET_PROPOSALS` with a second spin |
| RPC caster | `src/src/wallet/rpcwallet.cpp` `postoffchainproposals` (6056-6203) | The same path without the IBD gate, with `EnsureWalletIsUnlocked`, and with a 46-day `GetTxTime` window on the collected outputs |
| Proposal fetch | `getoffchainproposals` (6027-6049) | `SendRequests(GET_PROPOSALS)` and a spin, **with no lock** |
| Ledger erase | `erasegoventries` (6260-6290) | Under LOCK2, erases the entries one by one and throws on the first failure |
| Weight query | `getvoteweight` (6205-6257) | A read-only sum under LOCK2 |
| Proposal list view | `updateProposalList`, filter and refresh slots, details dialog (81-205, 426-433) | A cooldown-driven GET whose proposals are read without waiting; the details dialog and `vote()` find the selected row's proposal by its name |
| Wallet lock RPCs | `rpcwallet.cpp` `walletpassphrase`, `walletlock`, `walletpassphrasechange`, `encryptwallet`, `LockWallet` (2861-3118), `EnsureWalletIsUnlocked` (87-96) | Unlock under `cs_main`, then the staking-only flag and the `RPCRunLater` relock timer under `cs_wallet` |
| Key-using RPCs | `sendtoaddress`, `sendmany`, `bumpfee`, `leasestaking`, the zerocoin and sigma RPCs, ... | Check the lock (`EnsureWalletIsUnlocked` under LOCK2, the same without a lock, `IsLocked()` only, or nothing) and use keys |
| Ghost vault GUI | `src/src/qt/ghostvault.cpp` (153-331, 429-474) | Mint/convert/key-pack handlers that unlock through an `UnlockContext` and relock when it goes out of scope |

All of them talk to one process-wide client, `g_governance`. Its code is not
under `src/` and it is modelled from spec.md. It has a single `ready` flag, a
single `statusOK`, and one `votes` buffer and one `proposals` buffer shared by
every caller. The only synchronisation the callers use on it is the busy
spin `while(!g_governance.isReady()){}`. The two casters and
`erasegoventries` serialise on `cs_wallet`; `getoffchainproposals` does not.

## Modules

* `GovVote.tla` is the core module. Its state is:
  * `ledger`, the wallet DB's governance entries;
  * `holder`, who holds `cs_wallet`;
  * the per-caster program counter `pc`, vote id `cvid`, request id `creq`, reported `result` and cast count `ncast`;
  * `synced`, which stands for `!IsInitialBlockDownload()`;
  * the client state: `ready`, `statusOK`, `votes` and `proposals`;
  * the request and answer history: `requests`, `inflight` and `replies`;
  * `okCasts`, the vote ids reported as cast successfully;
  * the fetcher threads, `fpc` and `nfetch`.

  One action per handler step:

  | Action | Code |
  |---|---|
  | `GuiVote` | qt 215-262: gate, lock, scan |
  | `GuiConfirm` | the dialog, 264-281 |
  | `GuiSign` / `RpcSign` → `SignAndSend` | collection and signing loop, including the error returns that abort the batch, and the post |
  | `AwaitReply` | the spin |
  | `Tally` | statusOK, aggregation, and the write if the weight is not 0 |
  | `GuiFinish` | the tally, then the refresh GET or the return |
  | `GuiRefreshed` | the second spin, then the lock released |
  | `RpcVote` / `RpcFinish` | the RPC counterparts |
  | `Erase` | `erasegoventries`; any subset survives, as after a throw midway |
  | `FetchSend` / `FetchDone` | `getoffchainproposals` |
  | `Complete` / `Lose` | the service answers a request, or loses it |

  Data is abstracted to what the properties distinguish:
  * addresses, vote ids and fetchers are model values;
  * an output is a record of the five tests the collector makes;
  * the JSON message becomes the set of signed addresses;
  * weights are naturals.
* `MC_GovVote.tla` gives the model values. There are four addresses:
  * `a1`: an in-window coinstake output (weight 2), also present as a non-coinstake output;
  * `a2`: an out-of-window coinstake output;
  * `a3`: a P2SH output;
  * `a4`: an output that is not the wallet's.

  There are two key sets: all keys, or only `a1`.
* `GovLedger.tla` is the abstract governance ledger (spec.md, `GovernanceLedger`,
  `AlreadyVoted`, `DuplicateVoteError`, "store vote only on successful
  request"). Each cast is one atomic step:
  * `CastVote(v)` sends a CAST_VOTE only while `v` has no entry;
  * `Accept` marks a sent CAST_VOTE as answered with success;
  * `Record(v)` writes an entry only for a vote id whose latest CAST_VOTE was
    accepted and that has no entry;
  * `EraseSome` only removes entries.

  `GovVote` maps to it by `entries <- ledger`, `sent <- SentCasts` (the CAST
  requests, by request id and vote id) and `accepted <- AcceptedCasts` (the
  ids of the CASTs whose answer had `statusOK`).
  `ImplementsLedger == Ledger!Spec` is the refinement property. The module
  proves its own theorem `RecordedAccepted`: every recorded vote id has an
  accepted CAST_VOTE.
* `GovVote_proofs.tla`, `GovVoteReply_proofs.tla` and `GovVoteLedger_proofs.tla` hold the TLAPS proofs.

* `ProposalView.tla` models the proposal table of the governance page (all
  on the GUI thread). State: the service's published set, the
  `g_governance.proposals` buffer, `ready`, the pending and sent GETs, the
  table `rows` (a function from row numbers to the proposal whose name the
  row shows), the filter, `fFilterUpdated`, `due` (the cooldown is over; it
  stands for both `UPDATE_SECONDS` and `FILTER_COOLDOWN_SECONDS`), the
  selected row number `sel` (0 for none), the refresh spin, `pendingVote`
  (a `vote()` waiting in the modal unlock dialog, with the row number of the
  `QModelIndex` it took and the proposal that row showed), the last vote's
  proposal and `vote_id`, and `crashed` (an exception left a slot).

  A row keeps only the proposal's name, as the table does. After
  `setSortingEnabled(true)` the table is sorted on a column; `Rank` is that
  order, and `Table(S)` the sorted table of the rows `S`. The assumption
  `TableSortable` says every set of rows has a sorted table (the sort key
  tells proposals apart); TLC evaluates it, and it gives the provers the
  shape of `Table(S)` without an induction. A `QModelIndex` read past the
  last row gives an empty name (`NoName`).

  The unlock dialog of `requestUnlock` is modal and runs a nested event
  loop. Inside it the user cannot touch the page, but `strGhostnodesChanged`
  still reaches `updateProposalList` (`vote()` holds `cs_main` and
  `cs_wallet`, not `cs_mnlist`) and answers still land. So `vote()` is two
  steps when the wallet is locked.

  | Action | Code |
  |---|---|
  | `updateProposalList` / `RenderList` | qt 81-138: cooldown early return, then clear the table (which drops the selection), post the GET, fill the table from the buffer as it is, sort it |
  | `on_filterLineEdit_textChanged` | 141-147 |
  | `on_refreshListButton_clicked` / `RefreshDone` | 426-433: GET, spin on `isReady()`, `updateProposalList` |
  | `selectedRow` | 194-205 |
  | `on_tableWidgetProposals_doubleClicked` | 149-192 (also the expand button): name lookup, `std::stoi(end_time)`, which throws on a miss |
  | `vote` | 215-239: a selection, then either an unlocked wallet and the lookup at once, or the modal dialog with the index of line 217 |
  | `UnlockDone` | 234-262: the dialog cancelled, or the name read at the old index (241), looked up, its `vote_id` kept (the rest is `GovVote`) |
  | `Tick`, `GetAnswer`, `Publish` | time, the service's answers (which may fail), proposals published and expiring |

  The IBD early return of `vote()` and a failed `TRY_LOCK(cs_mnlist)` change
  nothing and are stutters. The user's choice of the sort column is left out:
  `Rank` is fixed.

  `MC_ProposalView.tla`: three proposals with names of their own, sorted on
  the name, two filter texts, at most 3 GETs. The empty filter text
  (`strCurrentFilter == ""`, which matches every proposal) is the constant
  `NoFilter`, which the MC module sets to `""`, as `NoName`. This keeps the
  string literal out of the module the proofs reason about, because the SMT
  backend rejects it.

* `WalletLock.tla` models the wallet lock. State: `crypted`, `locked`,
  `stakingOnly` (`fUnlockForStakingOnly`), the relock timer (`relockSet`,
  `pending`, `firing` = none/current/stale), the passphrase, the holders of
  `cs_main` and `cs_wallet`, a program counter per RPC worker thread and for
  the GUI thread, and `lastUse`, the last key use and whether the unlock in
  force was asked as staking-only.

  | Action | Code |
  |---|---|
  | `sendtoaddress` ... `leasestaking` (`LockedBegin`, `LockedUse`) | LOCK2, `EnsureWalletIsUnlocked`, key use |
  | `getsigmaseed` ... `getpubcoinpackv2` (`UnlockedBegin` with `EnsureOK`) | `EnsureWalletIsUnlocked` with no lock |
  | `mintzerocoin` ... `decryptallzerocoins` (`UnlockedBegin` with `~locked`) | `IsLocked()` only |
  | `ghostamount`, `ghostamountv2`, `cancelstakingcontract` | no check before the key use |
  | `walletpassphrase`, `WPUnlock`, `WPBlock` | 2868-2962: `cs_main`, argument checks, `Unlock`; then under `cs_wallet` the staking flag (HD only) and the timer set or erased |
  | `walletlock`, `walletpassphrasechange`, `encryptwallet` | 2967-3118 |
  | `TimerExpire`, `LockWallet` | the `RPCRunLater` timer firing, and `LockWallet` (2861-2866) waiting for `cs_wallet` |
  | `on_ghostNIXButton_clicked`, `on_convertGhostButton_clicked`, `on_generateGhostKey_clicked`, `GuiCancel`, `GuiUnlock`, `GuiUse`, `GuiRelock` | ghostvault 153-331, 429-474 and the `UnlockContext` |

  `WalletStatus` maps the state to the four states getwalletinfo reports
  (rpc 3389-3390): unencrypted, locked, unlocked for staking only, unlocked.
  The staking flag counts only on an HD wallet, as in
  `EnsureWalletIsUnlocked` (rpc 93). `StakingShown` is the flag as
  getwalletinfo can read it: it takes LOCK2 (rpc 3365), and a
  `walletpassphrase` holds `cs_main` from `Unlock` to the end of its
  `cs_wallet` block, so no reader sees the moment between the two; during it
  the flag shown is the one the call asked for.

* `WalletLockAbs.tla` is the abstract specification of the lock: what the
  help texts of the lock RPCs promise, with every RPC one atomic step over
  `status` and `lastUse`:
  * `Encrypt` (plain to locked);
  * `Unlock(s)` (an encrypted wallet to staking-only when `s`, fully
    unlocked otherwise, also when it is already unlocked: "overrides the old
    one"); `asked` records `s`;
  * `Lock` (walletlock and the timer);
  * `Use(b)`, allowed only on an unencrypted or fully unlocked wallet,
    which records whether the unlock in force was asked as staking-only.

  It proves `NoStakingUse`: no key is used under an unlock asked as
  staking-only ("stakingonly: If true, sending functions are disabled").

  `WalletLock` instantiates it as `Abs`, with `status <- WalletStatus`.
  `ImplementsAbs == Abs!Spec` is checked by `wl_race` and proved in
  `WalletLock_proofs`.

  `MC_WalletLock.tla`: one or two worker threads, two passphrases, and the
  subsets of RPCs each run lets the clients call.

## Runs

| Run | Expect | Properties | Shows |
|---|---|---|---|
| serial | pass | ResultIsOwnReply, ScanStillValid, NoCastOverLedgerEntry, ImplementsLedger, EntryNeverOverwritten | With only the two casters on a reliable service, results are the casters' own answers, the scan stays valid and no double cast goes out, the casters with erasegoventries implement `GovLedger` (an entry only for a CAST the service accepted), and no tally overwrites a ledger entry |
| shared | pass | NoCastOverLedgerEntry | The double-vote guard holds with a concurrent fetcher, lost requests, missing keys and partial erases |
| stale | violation | ResultIsOwnReply | A fetcher's answer satisfies the caster's spin, and the caster reports another request's outcome (**code bug**) |
| repeat | violation | RepeatCastBlocked | A success of weight 0 writes no entry, and the same vote id is cast again |

Bounds:
* one vote id;
* `MaxCasts` = 2 per caster in the passing runs, so a second cast on the same id is tried after a first one succeeded, failed or was erased;
* one fetcher with two calls in `shared`.

Every branch of every action fires in the two passing runs: GUI cancel, sign failure, a failed and a successful tally, a loss, an erase and a sync. A second vote id multiplies the state space by about 20 and adds no new interleaving: casts on different ids do not interact except through the lock, which one id already exercises.

`EligibleBallotsOnly` (the GUI collector has no 46-day window) and
`NoCastBeforeSync` (the RPC path has no IBD gate) are stated in `GovVote.tla`
and are violated by the code. Each is a single missing check, so they are not
kept as runs; the hazards list records them. `CastCompletes` (every cast
ends) is stated too and fails under `LossyService`: the spin on `isReady()`
has no timeout, so a lost answer leaves the caster spinning with `cs_wallet`
held. It is recorded as a hazard, not run.

Deadlock checking is on, except in `shared`. There a lost request really does leave a handler spinning forever, and the model then stops.

Fairness (`Fairness` in `GovVote`):
* weak fairness for every step a running handler takes by itself: signing, the spins and the tallies;
* weak fairness for the service's answer-or-loss.

Starting a vote, confirming, erasing, fetching and the chain sync are user or network events and get no fairness.

### ProposalView runs

| Run | Expect | Properties | Shows |
|---|---|---|---|
| pv_view | pass | DetailsNeverThrow | A service that only adds proposals, answers failing or landing in any order, redraws and filters, votes waiting in the unlock dialog: the details dialog always finds the selected row's proposal |
| pv_expired | violation | DetailsNeverThrow | The selected proposal expired since the table was drawn: the details dialog's `std::stoi("")` throws out of the slot (**code bug**) |
| pv_stalerow | violation | VoteIsSelected | A redraw during the modal unlock dialog moves the rows under the index `vote()` took before it: the vote goes on with another row's `vote_id`, or an empty one (**code bug**) |

Three proposals are enough for a filter that passes some rows only and for a
proposal published before the selected one in the sort order, which shifts
the rows; three GETs let an answer land between a draw and a click, and a
redraw happen inside the dialog. `pv_stalerow` breaks even with a service that
only adds proposals, and without a filter (a new proposal sorted before the
selected one): it is not the expiry of `pv_expired`.

`DetailsNeverThrow` is the only property of `pv_view`: `VoteIsSelected`
fails on every instance where a redraw can happen during the dialog. Two
proposals sharing one name would make the lookups take the other one; the
names come from the service, outside `src/`, and the hazards list records it.

The refresh button has a divergence that no run checks. Its
`updateProposalList` returns during the cooldown, so an explicit refresh may
redraw nothing. It is recorded under the stale-read hazard. No fairness:
everything is a user or network event, and no liveness property is checked.

### WalletLock runs

| Run | Expect | Properties | Shows |
|---|---|---|---|
| wl_all | pass | TypeOK, FullUnlockEnds | One worker calling every modelled RPC beside the GhostVault handlers, HD wallet: a full unlock always ends, or reaches a GhostVault `UnlockContext` waiting for the user to close its result box |
| wl_race | pass | LockedCheckHolds, NoKeyUseWhileStakingOnly, ImplementsAbs | Two workers: LOCK2 RPCs keep the unlock they checked until they use keys, and never use keys under a staking-only unlock; the threads together implement the atomic lock of `WalletLockAbs` |
| wl_stale | violation | NoStaleRelock | A fired relock timer of an earlier `walletpassphrase` relocks the wallet a later one unlocked (**code bug**) |
| wl_ensurerace | violation | NoKeyUseWhileStakingOnly | `getsigmaseed` passes `EnsureWalletIsUnlocked` between `Unlock` and the setting of the staking-only flag (**code bug**) |
| wl_nonhd | violation | FullUnlockEnds | Non-HD wallet: `walletpassphrase p 0 true` sets no relock timer and no honoured staking-only flag, so the wallet stays fully unlocked for ever (**code bug**) |

Two more defects turn up in the same module with other client sets, and
the hazards list records them:
* `spendzerocoin` checks `IsLocked()` only, so it spends under a staking-only unlock (`NoKeyUseWhileStakingOnly`, Clients = `ZerocoinRpcs`);
* the ghost button mints after its amount error (`GhostMintAmountChecked`, GuiUser = TRUE).

`wl_all` uses one passphrase and `wl_race` two. The second passphrase
(the wrong-passphrase throw, `walletpassphrasechange`) multiplies the GUI run
by ten and is exercised in `wl_race`. Timeouts are abstracted to negative, zero and positive, which are the three
cases the code distinguishes. Two workers are enough for a check and a lock
change on different threads. Fairness: strong fairness for a worker's steps,
for `LockWallet` and for the GUI's key use. Each of these waits on a mutex
that another thread keeps taking and releasing, and a blocked thread is not
starved forever by the OS. Weak fairness covers the timer expiring. Users
and clients get no fairness, and neither does the `UnlockContext`'s relock:
it happens only when the user closes the mint result box (ghostvault
203-223), which they need not do. `FullUnlockEnds` therefore counts a
GhostVault handler waiting to relock as an end: the wallet is then held open
by the user, not by the code. The same holds for `on_generateGhostKey_clicked`
keeping LOCK2 across its modal dialog (ghostvault 443-449): every RPC waits
on the user; no property is about it, and the hazards list records it. Deadlock is
checked: the model ends only in `Halted`, after `encryptwallet` has shut the
node down.

Adding the GUI thread to `wl_race` breaks `LockedCheckHolds`. The
`UnlockContext` relocks with `Lock()`, which takes no `cs_wallet`, so it can
relock between an RPC's check and its key use. This is a hazard, not a run,
because `Lock()`'s own locking is outside `src/`.

## Proofs (`WalletLock_proofs.tla`)

* `TypeCorrect`: `Spec => []TypeOK`. `TypeOK` is split into `TypeWallet`, `TypeThreads` and `TypeGui`, and each part is proved preserved by every action.
* `LockedCheckInvariant`: under `~GuiUser`, `Spec => []LockedCheckHolds`, for any set of workers and any set of client RPCs. The invariant is not inductive alone. It is strengthened by `LockDiscipline`: a worker at the use step of a LOCK2 RPC holds both locks, and `EnsureOK` held. `GuiIdle` is also needed. The argument:
  * every step that sets `locked` or `stakingOnly` (`WPBlock`, `walletlock`, `walletpassphrasechange`, `encryptwallet`, `LockWallet`) needs `cs_wallet` free or its own;
  * `WPUnlock` only unlocks.

  The GUI's relock is the one step that breaks this, hence the assumption.
* `StakingOnlyInvariant`: `Spec => []NoKeyUseWhileStakingOnly`. The hypotheses are those of the `wl_race` run, and each is needed:
  * `HD`: on a non-HD wallet `fUnlockForStakingOnly` is never set, so a "staking only" unlock is a full one;
  * `~GuiUser`: the GhostVault handlers use the keys whenever the wallet is unlocked;
  * `Lock2Clients`, meaning the clients call only the LOCK2 senders and the lock RPCs: `wl_ensurerace` and the zerocoin hazard show what the other RPCs do.

  The inductive invariant is `StakingInv`, which is `TypeOK`, `LockDiscipline` and `GuiIdle` together with `StakingDiscipline`. `StakingDiscipline` has five parts:
  * `UseIsLocked`: only LOCK2 senders are at a use step;
  * `PassHoldsMain`: a `walletpassphrase` worker holds `cs_main` from its start until its block ends;
  * `BlockAsked`: during that block, `asked` is its own argument;
  * `AskedRecorded`: an unlock asked for staking only is recorded in `stakingOnly`, unless a `walletpassphrase` block is still to run;
  * the property itself.

  A sender uses keys only while holding `cs_main` and with `EnsureOK`. So if `asked` held, `AskedRecorded` would name a block worker, and `PassHoldsMain` would give that worker `cs_main`, which is a contradiction. TLC checked `StakingInv` on the `wl_race` instance before it was proved.
* `Refinement`: under the same hypotheses, `Spec => ImplementsAbs`, the refinement of `WalletLockAbs`. It rests on `StakingInv` and on `PassCrypted` (a `walletpassphrase` past its checks runs on an encrypted wallet):
  * `AbsInit`: the initial states map to `Abs!Init`.
  * `AbsStep`: every step maps to an abstract step or a stutter:
    * a successful `Unlock` (`WPUnlock`) is `Unlock(s)` for the call's own `stakingonly` argument `s`: from then until its `cs_wallet` block ends the worker holds `cs_main`, so `StakingShown` is what it asked;
    * the block (`WPBlock`) that sets `fUnlockForStakingOnly` is a stutter: it writes the flag `StakingShown` already showed (`PassHoldsMain`, `BlockAsked`); lemma `NoBlockMove` says a step of another kind moves no worker in or out of the block;
    * `walletlock` and `LockWallet` are `Lock`;
    * `encryptwallet` is `Encrypt`;
    * a sender's use is `Use("locked")`, because `NoKeyUseStep` shows it records no staking-only unlock;
    * every other step leaves `WalletStatus`, `asked` and `lastUse` alone.

  A `walletpassphrase` that set the flag on its own (mutant `WPBlock_stickyFlag`, a flag never cleared by a later full unlock) maps to no abstract step, and `wl_race` finds it.

## Proofs (`ProposalView_proofs.tla`)

They hold for every value of the constants that satisfies `ViewAssumption`
and `TableSortable`.

* `TableRows` (lemma): `Table(S)` is a function from `1..Cardinality(S)`
  into `S`, from `TableSortable` and the meaning of `CHOOSE`.
* `DetailsSafe`: under `Growing` (the service never drops a published
  proposal), `Spec => []DetailsNeverThrow`. The inductive invariant is
  `RowsInBuffer`:
  * what is published is a set of proposals;
  * the buffer is a subset of what is published;
  * every row shows a proposal of the buffer;
  * the selection is 0 or a row of the table.

  Each answer replaces the buffer by what is published, a superset of it;
  each redraw draws rows from the buffer (`RenderStep`, by `TableRows`) and
  clears the selection. So a selected row's name is found, and
  `std::stoi(end_time)` gets a real end time. `pv_expired` shows the throw
  once a proposal expires, so expiry is the only way to it; `pv_view`
  checks the property under the same hypothesis.

`VoteIsSelected` has no theorem: it is false (`pv_stalerow`).

## What stays with TLC

* Liveness: `FullUnlockEnds` (`wl_all`) rests on fairness and `ENABLED`, which TLAPS does not handle here.
* What the fold `MapThenSumSet` computes for a given buffer would need induction over data, which the installed provers cannot instantiate. The proofs never need it: `ResultIsOwnReply` compares the fold only on equal arguments.
* The violation runs are counterexamples, so only TLC can show them.

## Proofs (`GovVote_proofs.tla`)

They hold for every value of the constants that satisfies `ConstAssumption`.

* `TypeCorrect`: `Spec => []TypeOK`, by induction on `Init` and `Next`, with one step per action. The lemmas it rests on cover:
  * the request ids: `NextId` is a natural while the history is finite (`FS_AddElement`);
  * the collected scripts;
  * the aggregated weights.
* `ScanInvariant`: `Spec => []ScanStillValid`. `ScanStillValid` says two things:
  * a non-idle caster holds the lock;
  * a caster in the dialog or the signing loop has a vote id absent from the ledger.

  It is inductive together with `TypeOK`. The key lemma, `OtherIdle`, says that when the lock is free or held by one caster, the other caster is idle. From it:
  * the only steps that write the ledger (a tally, an erase) cannot run while a caster is between its scan and its send;
  * the only steps that put a caster into the dialog or signing state do so right after a scan that found its vote id absent.
* `NoCastOverLedger`: `Spec => [][\A m \in NewCasts : m.vid \notin VotedIds(ledger)]_vars`. Only the signing steps add a CAST, and by `ScanInvariant` they send a vote id absent from the ledger.

`CastPending` is defined here: a caster waiting for or reading its answer
has a vote id that is absent from the ledger and was sent in a CAST. It is
inductive with `TypeOK` and `ScanStillValid` (`CastPendingStep`).

* `NoOverwrite`: `Spec => EntryNeverOverwritten`. Each step either only adds ledger entries or only removes them. A tally writes with `WriteEntry`, which replaces the entry of its vote id. By `CastPending`, that vote id has no entry yet (lemma `WriteNewKeeps`), and an erase only removes entries.

## Proofs (`GovVoteReply_proofs.tla`)

* `ReplyInvariant`: under `Fetchers = {}` (no `getoffchainproposals` caller shares `g_governance`), `Spec => []ResultIsOwnReply`. It holds whether the service loses requests or not. The hypothesis is needed: run `stale` shows the violation with one fetcher. The inductive invariant `ReplyInv` adds six facts to `TypeOK` and `ScanStillValid`:
  * `ClientHeld`: a request is in flight only while its caster holds `cs_wallet` and spins;
  * `OneInflight`: at most one request is in flight;
  * `ReadyDrained`: `isReady()` implies that nothing is in flight;
  * `WaitOwnRequest`: a spinning caster waits for its own CAST;
  * `ReadReady`: a caster in its read has `isReady()`;
  * `BufferIsReply`: once `isReady()` holds for a waiting or reading caster, `statusOK` and `votes` are those of the answer to its CAST.

  TLC checked `ReplyInv` on the serial instance before the proof, with two vote ids and with a lossy service. The tally sums the very buffer that answer filled, so the reported weight equals the fold over that reply's records. The proof compares the fold only on equal arguments and never computes it. There is one lemma per group of actions: quiet steps, send, spin, tally (`TallyReport`), refresh, answer and loss.

## Proofs (`GovVoteLedger_proofs.tla`)

* `LedgerRefinement`: under `Fetchers = {}`, `Spec => ImplementsLedger`. The
  Fetchers stand for every other sender of GET_PROPOSALS on `g_governance`,
  the governance page's own `updateProposalList` among them, so the theorem
  is about a wallet where nothing else uses the client while a cast runs;
  `stale` shows why. The invariant is `ReplyInv` (the buffers a caster
  reads are its own answer's), `OrderInv` (request ids grow, and a caster's
  CAST is the newest request, so its accepted CAST is the latest for its
  vote id) and `CastPending`. The step lemma `LedgerStep` maps each action:
  * a successful signing step to `CastVote`, by `ScanStillValid`;
  * the service's answer to `Accept` when it succeeds (`AcceptedCasts` grows);
  * a tally that writes to `Record`: `statusOK` is the answer to the caster's own CAST, which is the latest for its vote id;
  * an erase to `EraseSome`;
  * every other step to a stutter.

  The mutant `Tally_writeFirst` (the entry written before `statusOK` is
  checked) maps to no `Record`, and `serial` finds it.
* `EntriesWereAccepted`: under the same hypothesis, every governance ledger
  entry has a CAST_VOTE the service accepted. `GovLedger` proves it for the
  abstract ledger (`RecordedAccepted`), and `LedgerRefinement` carries it
  over.

## Not modelled

* `std::stoi` parsing of the weights in the casters (rpc 6191). Weights are naturals, and the throw after a successful cast is not modelled.
* `getvoteweight`, which changes no state.
* `lockunspent` and the coin lock set, so `cancelstakingcontract`'s early `UnlockCoin` is not modelled. The lease RPCs are modelled only by their locking.
* The argument parsing, transaction building and account/label RPCs of `rpcwallet.cpp`, which change none of the modelled state.
* `CWallet`, `WalletModel` and `g_governance` internals, which are outside `src/` and modelled from spec.md (`spec_modelled` in the map).
* Liveness of the proposal view: updates are driven by the `strGhostnodesChanged` signal (the QTimer is commented out), which the code does not guarantee to recur.

## Plan

1. `lockunspent` and the coin lock set, with `cancelstakingcontract`'s partial failure.
2. Compose `ProposalView`'s lookup with `GovVote`'s cast, so that the empty or wrong `vote_id` of `pv_stalerow` flows into the ledger scan and the CAST.
