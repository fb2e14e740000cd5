# TLA+ models of GarudaChain

GarudaChain is a Bitcoin Core fork with an asset registry, an order-book DEX
and a CBDC layer (`node/`), a Go service in front of it (`api/`), and clients.
This directory holds TLA+ specifications of the parts whose correctness depends
on orders of events that tests hardly reach, the TLC configurations that check
them and TLAPS proofs of what holds for every size.

## The system

| Part | State | Operations | Talks to |
|---|---|---|---|
| DEX (`node/src/dex`, `node/src/rpc/dex.cpp`) | LevelDB records: orders, trades, virtual GRD balances; asset balances in `AssetDB` | `placeorder`, `cancelorder`, `matchorders`, `depositgrd`, `withdrawgrd` | asset registry; called by the API and wallets |
| DEX market maker, swaps, oracle (`rpc/dex.cpp`) | market-maker and rate records, one sync thread | set-up, refresh, swaps, rate sync | DEX, asset registry, HTTP sources |
| Asset registry (`rpc/assets.cpp`, `assets/asset_db.cpp`) | assets, supplies, balances, dividends | issue, transfer, mint, burn, dividend, delete | DEX, API |
| CBDC on the node (`rpc/cbdc.cpp`, `cbdc.cpp`, `cbdc/`) | authority keys, mint limits | mint, burn, rotate key, block check | validation, miner |
| API (`api/main.go`) | caches, QRIS deposits, custodial ledger, presales | HTTP handlers, background goroutines | node RPC |
| Admin path (`api/security.go`, `admin_*.go`) | nonce cache, rate limiter, keys | `requireAdmin`, rotation | audit chain |
| Audit chain and witness (`api/audit_chain.go`, `audit_witness.go`) | a file, its tail in memory, a breaker; commitments on chain | append, open, verify, commit | admin path, node RPC |
| Browser extension (`extension/src`) | encrypted vault in `chrome.storage`, session and pending approvals in the service worker | wallet handlers, approval flow from page to worker | web pages, API |
| Mobile app (`mobile/`) | wallet in the secure store, P2P orders in AsyncStorage | wallet screens, order and chat screens | API |
| Indexer, seeder, website | PostgreSQL/Redis rows; node list | block loop; crawl | node RPC, API |

What makes these hard: RPC handlers run on several HTTP workers
(`DEFAULT_HTTP_THREADS = 4`) and the DEX and asset handlers take no lock and use
no database batch, so a handler is a series of separate reads and writes that
others interleave with and a crash cuts in two; the API calls the node with a
15-second timeout, so a failed call may have taken effect; the audit log must
stay verifiable when a write or an fsync fails or power is lost; in the extension
and the app every `await` lets other handlers run, and the browser or the phone
may stop the program between two of them.

## Modules

| Module | Models |
|---|---|
| `DexOrders` | order records, escrow and fill arithmetic, `int64_t` products |
| `DexEscrow` | the promise: every handler, and every trade of the matching engine, is one step |
| `DexAccounts` | `DexEscrow` with history (an account per order; value that entered, left or was overwritten) and the safety properties |
| `DexRpc` | the same handlers, and `transferasset`, `mintasset`, `burnasset`, as workers run them, one database access per step, with crashes |
| `DexSerial` | `DexRpc` shown to implement `DexEscrow` |
| `AuditChain` | the audit file, `appendAuditChain`, `OpenAuditChain`, `VerifyAuditChain`, the breaker and `requireAdmin` |
| `AuditWitness` | `AuditChain` with the goroutine that commits its tail on chain |
| `AdminReplay` | the replay window and the nonce list of the admin path |
| `CbdcOps` | `AdminReplay` composed with mint and burn of the API, the idempotency cache and the calls of the node |
| `GrdChain` | the L1 balances and the mempool the next two share |
| `Qris` | QRIS deposits: create, status, confirm, the confirming goroutine |
| `DexLedger` | the custodial ledger: `handleDexDeposit`, `handleDexWithdraw` |
| `TopUp` | `Qris` and `DexLedger` composed over one chain |
| `ExtVault` | the extension's vault and the wallet handlers that change it |
| `ExtApproval` | `ExtVault` with pages, content script and service worker: the approval of a request |
| `MobileWallet` | the wallet of the mobile app in the secure store and the screens that change it |
| `P2POrders` | the list of P2P orders of the mobile app, its order and chat screens |
| `DexProofs`, `RpcProofs`, `MatchProofs`, `AuditProofs`, `MoneyProofs`, `ExtProofs`, `MobileProofs` | proofs, with lemmas about sums in `SumLemmas` |
| `MC...` | instances for TLC |

### DEX

An order id is a SHA-256 over the immutable fields of the order and the second
it was placed in; in the model the record of these fields is the id, so two
identical orders of one second collide, as in the code. The stored value keeps
`filled` and `status`. A SELL escrows units, a BUY escrows `amount * price`
satoshi of virtual GRD (`Mul64`; signed overflow is undefined, so a release
build wraps and may drop the test for a product that is not positive). The code
does not keep a product from wrapping to a positive number; an order whose value
did not wrap is `ExactValue`, and `Exact` says that all stored orders are.

`DexEscrow` has one action per handler: `PlaceSell`/`PlaceBuy` (`placeorder`),
`CancelSell`/`CancelBuy` (`cancelorder`), `depositgrd`, `withdrawgrd`, and
`Trade`, one iteration of the loop of `MatchOrders`.

`DexRpc` splits them. A worker that takes a request performs the reads and
checks before its first write and then a program (`todo`) of accesses: read a
balance, write it, store an order, store a trade. `MatchOrders` collects live
orders from one iterator snapshot, sorts them by price (equal prices in any
order, `std::sort` is not stable) and works on these copies to the end, which is
why its program depends on nothing it reads later. The branch of its loop for an
order with nothing left is not modelled: `FillConsistent` shows that no such
order is ever collected. `Crash` empties the workers and keeps the database
(LevelDB survives a killed process). Reading the clock and storing the order are
one step. Requests a handler refuses change nothing and are not steps, except in
`burnasset`, which reads the supply before it may refuse.

The three handlers of the asset registry run on the same workers and the same
balances. `transferasset` reads both balances before it writes either
(`Set` writes the value computed from the first read), `mintasset` writes the
supply and then the balance of the creator, `burnasset` the balance and then the
supply. A transfer to oneself therefore credits without debiting; the units it
makes are counted in `lostUnits`, next to those of overwritten orders, so that
`CrashDriftBounded` can be stated of everything else. The runs on one worker and
`dex_race` leave the registry out (`Grants` is empty), since `DexEscrow` promises
nothing about it.

In `DexSerial`, `base` is the database as it was when no handler was between
two accesses. Substituting it for the variables of `DexEscrow` makes each
handler take effect with its last access, and each iteration of the matching
loop with its trade record.

### Audit chain

Lines are records with the fields that verification looks at. The hash of an
entry is the number of the attempt that built it, which stands for a collision
free SHA-256 over an entry that carries its time. `Appended` is what the file
contains after an append: a line without its newline swallows the next one. The
mutex is held from `AppendWrite` to `SyncOk` or `SyncFailed`. `Faults` selects
what may go wrong: a write that leaves nothing (also the marshalling error), a
write cut short, a failing fsync, a power loss, which keeps at least the synced
lines, a file that cannot be opened, read or positioned. A kill keeps the whole
file. A successful fsync is taken to make all earlier lines durable. `Restart`
includes `OpenAuditChain`; a file that cannot be read or does not verify leaves
the chain disabled and the service running. `CloseAuditChain` on
shutdown is a restart that keeps the file.

`AuditWitness` adds `commitAuditTail` in three steps (snapshot under the mutex,
broadcast, record); a broadcast may fail with or without effect. The witness
stays off when the chain is disabled or its own log cannot be opened.

### Mint and burn over the API

A handler of `CbdcOps` goes through the steps of `requireAdmin` (clock, window,
nonce list) and of `handleCBDCMint`/`handleCBDCBurn`: look the key up, call the
node, broadcast, store the response. The clock is read before the lock of the
nonce list is taken, so entries need not be in the order of their expiry. A call
of the node may fail, time out and be executed later (`NodeLate`), and the
broadcast may fail after the supply changed. At capacity the caches evict as the
code does, an arbitrary half included. An idempotency key names one request, so
amounts are not part of a slot. `excused` records when a key lost its
protection: its entry expired, was evicted or went with a restart, two deliveries
were under way together, or the client was told of a failure the node did not
have. The node's `mintasset` is one step here and split in `DexRpc`.

### QRIS deposits and the custodial ledger

`sender` is the holder of the deposits' mutex over its two calls of the node:
`sendtoaddress` (`SendOk`) and `generatetoaddress`, after which the status is
written (`Confirm`), so a deposit may be paid and still pending. A failed call may
still be paid later (`PaidLate`). The status handler reads a deposit without the
lock and marks it expired in a second step, possibly over `confirmed`. A ledger
request checks in one critical section and changes in another. A failed scan of
the chain counts as balance zero, as in the code. A payment is in the mempool until
a block contains it, and the owner of an L1 address may spend at any time
(`Spend`), also what the ledger has locked: nothing in the code prevents it, so no
property says that locked coins are still there. Not part of it: a restart, and
the rounding of the floating-point balances, which are integers here.

### Browser extension

The service worker is one thread, so a step is what runs between two awaits.
Vaults are objects (`heap`), because a handler that resumes holds the object the
session had when it started. `raced` records that two vault handlers overlapped.
Writes to `chrome.storage` do not fail in the model.

`ExtApproval` adds the promise of the page, the content script and the worker's
map of pending requests with its five-minute timers; the two answers of the worker
reach the content script in any order, and the browser may stop the worker at any
time. The listener of the worker does not look at the sender of a message and the
content script forwards every method. The model follows the code: an
`approval_response` for a pending request may come at any time, from anyone and
repeatedly (`Approved`, `Rejected`), and so may every wallet request, among them
`wallet_sendNative` and `wallet_sendToken` (`SendDirect`), which ask for an open
wallet but for neither a connection nor an approval. What the properties call
approved is therefore a request for which an approving answer was taken, not one
that a person saw in the popup. The popup, the icon and the badge have no part in
what is checked and are left out. The promises of `placeOrder` and `wallet_send*`
resolve also when the node refuses, so `ResolvedMeansDone` is about the other
signatures and transactions.

### Mobile app

In `MobileWallet` an operation is the sequence of its writes to the secure store;
a kill keeps what was written. One operation runs at a time (the screens wait for
it). `Without` is `Array.filter`: the kept accounts in their order. Names of
accounts, writes that fail, and the keys for the address and the quantum key are
left out; `getImportedKey` has no caller.

In `P2POrders` a task reads the whole list, awaits, and writes the whole list;
two tasks may be in flight. The chat works with a copy, a dialog with the copy of
the moment it was opened, and the countdown releases an order whose 24 hours are
over. A message is the number of the click that sent it, and the two messages of
an automatic release are one. `outdated` marks orders that were written over by a
task that had not seen them, `crossed` those whose chat was opened on top of
unfinished work. An opened chat replaces an open one.

## Runs

| Run | Instance | Checks |
|---|---|---|
| `dex_accounts` | atomic handlers, 3 orders, an `int64_t` of three bits | types, balances non-negative (`Solvent`), status agrees with fill (`FillConsistent`), every order's debit is accounted for by trades, refunds and what it holds (`EscrowBacked`), units and GRD conserved (`AssetConserved`, `GrdConserved`); what they say of GRD is said of orders whose value did not wrap |
| `dex_serial` | one worker, 5 calls | `DexRpc` implements `DexEscrow`; no crossed orders remain after a matching run; handlers return |
| `dex_rpc` | two workers, 4 calls, one crash | `Solvent` and `FillConsistent` survive every interleaving; while handlers do not overlap, a crash separates supply and holdings by at most the units of one call (`CrashDriftBounded`) |
| `audit` | two goroutines, 5 entries, 2 restarts, every fault; the witness with 3 entries and one restart | until a line is torn or an fsync fails the file verifies (`ChainUnbroken`), the tail in memory is that of the file (`TailRecovered`), a commitment names one entry (`PinsOneEntry`), which stays (`CommittedKept`); entries synced as a line of their own stay (`AckedDurable`); at most three unlogged admin operations in a row plus those past the check (`UnloggedBounded`); no append clears the breaker (`BreakerLatched`); the tail is committed in the end (`TailWitnessed`) |
| `cbdc` | two goroutines, 3 deliveries, 5 ticks, one restart | a key is executed once unless its protection was lost (`MintsOnce`); who is told "done" is told the truth (`ToldMeansDone`); caches keep their capacity; a nonce is not accepted again within its window (`AcceptedOnce`) |
| `topup` | two deposits, a poller, two ledger requests | a deposit is paid once, plus once per failed call (`PaidOnce`); its status is true of the money (`StatusTrue`); what is traded with is locked on L1 (`TradingBacked`); withdrawals that overlap overdraw an account by at most one withdrawal for each other goroutine (`OverdraftBounded`); no deposit stays pending (`DepositSettles`) |
| `ext_approval` | two requests of a site, one wallet handler, two sessions, one stop | a request takes effect once, and where it needs an approval only after an approving answer (`OnlyApprovedOnce`); what was refused never does (`RefusedNeverRuns`); a site is connected before its orders and sends (`ConnectedFirst`); a page is told the truth (`ResolvedMeansDone`); vault and session agree (`SessionStored`) and the vault stays openable (`StoredOpenable`) |
| `p2p` | two orders, two tasks, 3 or 4 clicks, one failing read | orders move only along their life (`OrderProgress`); an open chat comes to show the stored status and releases what is due (`ChatCatchesUp`) |
| `mobile_wallet` | two phrases, 3 accounts, two kills | what loads is complete (`LoadedWhole`); a stored hash matches its salt (`PasswordWorks`); a kill costs at most one imported key (`KeysStored`) |

Three runs show where the code departs from what it says of itself:

| Run | What it shows |
|---|---|
| `dex_race` | two concurrent `placeorder` calls of one owner lose a debit, so units exist twice |
| `audit_gap` | a write that fails leaves no gap in the numbers of the audit file, although the header of `audit_chain.go` says that this is how it shows: `appendAuditChain` takes `seq` back |
| `mobile_remove` | after a removal the number of accounts, used as the next id, repeats an id; removing it removes both and leaves none |

What the passing runs leave out by an exemption in the property, and why: two
concurrent `matchorders` sell an order twice and identical orders of one second
overwrite each other (`overlapped`, `lostUnits`); after an fsync failure, one
more entry and a restart the chain is disabled while `requireAdmin` asks only the
breaker (`UnloggedBounded` is stated while the chain is enabled); a kill followed
by a power loss can remove a committed line that was never synced (once the
witness ran, `audit` has one restart); after a failed fsync `seq` is new and
`prevHash` old, and the witness may commit the two together (`PinsOneEntry` and
`CommittedKept` end there, `damaged`); a BUY whose product wraps is stored with
too small an escrow, and what is given back for it can be negative or too much
(`Exact`); a mint delivered twice at the same time, or reported as failed after
the node executed it, may happen twice (`excused`); a deposit whose call failed, or
whose status was being read, may be paid twice or say "expired" (`gaveUp`,
`polled`); `CrashDriftBounded` is about units, not about virtual GRD.

Bounds. One asset and two addresses suffice for the DEX because orders of
different assets share only GRD balances, and a seller and a buyer (or one
address as both) exhaust the roles in a trade. Amounts and prices {1, 2} give
partial fills and fills below the limit, and the value 4 of the largest order
wraps in `dex_accounts` (`Int64Max` is 3; in the other DEX runs all products fit);
three orders let an order trade with two
others; one clock tick separates orders that would collide. Deposits are of one
satoshi and end at a small balance (`MaxGrd`), since a deposit only adds to what a
trader may order for. Five calls on one worker cover place, place, match, cancel
and one more; four calls on two workers contain every pair of racing handlers with
the orders they need; in `dex_rpc` units are minted in place of burned ones
(`MaxSupply`). Five entries of the audit chain exceed
the breaker threshold of three with two requests in flight; where the witness
runs one goroutine appends three. Three deliveries are
a request, its retry and a stranger; caches of capacity one and two overflow
within them, and five ticks pass every expiry. Two requests of one site, of any
method, are what it takes for one to connect it and the other to use that, or for
two to be answered in turn; `MCBound` explores either an edited wallet or two
requests (the proofs have no such limit). In `MCTopUp` the two deposits and the
two ledger goroutines, which are alike, come in a fixed order, and either both
deposits are made or one and up to four ledger requests. Two P2P tasks and four clicks, three once there is a second order,
contain an order that is paid, written by two tasks at once and released.
Deadlock is not checked: with its bounds reached, a model stops.

Fairness. `HandlersReturn` assumes that a worker that started a handler is
scheduled again (weak fairness of its steps); no handler waits for a lock.
`TailWitnessed` assumes that the ticker fires, a goroutine in fsync gets its
answer (both weak), and that the node accepts a broadcast if it is asked again
and again (strong fairness of `BroadcastOk`). `DepositSettles` assumes that a call
of the node ends, by an answer or the client's timeout (weak), and that a
goroutine which waits for the mutex gets it, although others take it in between
(strong: a Go mutex starves nobody). `ChatCatchesUp` assumes only that the event
loop runs tasks and that the interval of the countdown fires (weak).

## Proofs

Each theorem is for every value of the constants; its inductive invariant
includes the types of the variables it needs. Beyond the named assumptions of
the modules (amounts and bounds are natural numbers, sets of addresses, accounts
and goroutines are finite, page requests and wallet handlers are different things, the
vault on disk at the start is none or one that a password opens) a theorem
assumes what it states.

`SumLemmas`: what a sum over a finite set (`SumFunction`) is after one summand
changed, was added or removed, and that only the summands matter, which the
conservation theorems rest on. Instead of induction, a minimal counterexample is
taken among the subsets of a finite set (strict inclusion is well founded).

`DexProofs`, for any sets of assets, addresses, amounts and prices, products that
wrap included:

- `AccountsTypeCorrect`, `LedgerSolvent`, `FillsConsistent`, `OrdersBacked`. The
  inductive invariant `IInv` is their conjunction. None is inductive alone: that a
  trade keeps an order's account balanced needs the fill to be between zero and
  the amount, which needs the status to agree with the fill, and that a GRD balance
  stays non-negative needs the products to be exact (`MulExact`). The properties
  themselves say so: `EscrowBacked` is about SELL orders and BUY orders of an exact
  value, whatever else is in the book, and the GRD half of `Solvent` holds until
  another one is stored; `placeorder` does not rule that out. An order never leaves
  the book, so `Exact` now means `Exact` at every earlier step. The account of a BUY
  rests on `q * sell + q * (buy - sell) = q * buy`.
- `UnitsConserved` and `VirtualGrdConserved`. On top of `IInv`, every action moves
  as much between the sums (balances, escrow of live orders, overwritten orders)
  as it takes from one; a trade of an address with itself is a case of its own.
  Units are conserved always, GRD while `Exact` holds.

`RpcProofs`, for any number of workers, calls and crashes: `ConcurrentlySolvent`
(while `Exact` holds) and `ConcurrentFillsConsistent`. `RpcInv` says
of the accesses a handler has still to make that each debit is covered, by the
balance that was read or by the check right before it (`Covered`), and that each
order it is going to store, from however old a copy, has a status that fits its
fill (`Fits`). What the balances are in between does not matter, which is why
interleavings and crashes do no harm here, although they do to `EscrowConserved`.

`MatchProofs`, for a node with one worker (`OneWorker`), any calls and crashes:
`MatchLeavesNothingCrossed`, that is `UncrossedAfterMatch`. While
a matching run is under way its two sorted lists disagree with the stored book,
because the fills of a trade are stored one access at a time. `MatchInv` therefore
compares the lists with the book as the stores still to be made will leave it:
every live order of the asset in that book is in the list of its side, unchanged.
The lists are sorted, so when the heads do not cross, nothing crosses. With two
workers the property is false: an order may be placed after the lists were read.

`AuditProofs`, for any number of goroutines, entries and restarts and any faults:

- `AppendsDurable`. `DurableInv` adds that at most one goroutine is between Write
  and Sync, and that an acknowledged line is never the unfinished one, the only
  line a later write can damage.
- `ChainNeverBreaks` and `TailAlwaysRecovered`, until a line is torn or an fsync
  fails (`damaged`). `LinkInv` adds that `seq` is the length of the file, that
  the holder of the mutex has written the last line, and that `prevHash` is the
  hash of that line whenever the mutex is free.
- `UnloggedStaysBounded` and `BreakerStaysOpen`. `BreakerInv`: while the breaker is
  closed each unlogged operation is a failure it counted; once it is open, the
  unlogged operations and the requests in flight are bounded together.
- `CommitmentsNameOneEntry` and `CommitmentsKept`, about `AuditWitness` while
  nothing is damaged. `PinInv`: a hash is handed out once, and the pin under way
  and those on chain give the number the entry with that hash has, if it is still
  in the file. `CommitInv`: a pinned line is one no stop to come can take away.
  That needs `StopsOnce`: no power loss, or a single stop; a kill followed by a
  power loss does remove committed lines.

`MoneyProofs`, for any requests, goroutines, capacities and restarts, with a TTL of
at least twice the window, as in the code:

- `MintedOnce`. `OnceInv`: while a slot is not excused, at most one goroutine is
  at work on it, the node has no call left to execute, and what it executed is in
  the cache or about to be stored there.
- `ToldTheTruth`. `DoneInv`: whatever is cached was executed and broadcast, and so
  was what a goroutine is about to store.
- `NoncesAcceptedOnce`. `NonceInv`: a nonce that was used and not dropped is in
  the list with its expiry, or its TTL has passed on the real clock, although
  entries are removed by older readings of it.
- `CachesStayBounded`, by the cardinality of what `Set` evicts.

`MoneyProofs` also, for any deposits, amounts, accounts and goroutines:

- `DepositsPaidOnce` and `StatusIsTrue`. `QrisInv` accounts for every payment of a
  deposit by its status, the call under way and the calls that failed.
- `OverdraftIsBounded`. `LedgerInv`: what an account holds is at least the debits
  still to come from goroutines past their check, less one withdrawal for each
  goroutine but one; a withdrawal that starts passed the check of the balance.
- `TradingAlwaysBacked`, overlapping requests included: each step changes the sum
  of the trading accounts and the sum of the locks by the same amount.

`ExtProofs`, for any pages, requests, wallet handlers, accounts, sessions and stops
of the worker, with answers from any sender:

- `ApprovedOnce`, `RefusedStaysRefused`, `ResolvedIsDone`, `StoredCanBeOpened`.
  `RequestInv` says of every request what the pending list, its handler, the page
  and its effects may be together; a request leaves the pending list before
  anything runs. `VaultInv` says where a handler may wait and with which password.
- `ConnectionComesFirst`. `SiteInv` follows every copy of a vault, stored, in memory
  or held by a suspended handler: for a site in any of them an approving answer to
  a connection was taken.
- `SessionIsStored`. `TurnInv`: as long as the vault handlers take turns, what the
  running one holds is what the session and the store hold.

`MobileProofs`:

- `OrdersMoveOn`, for any orders, tasks and users. `OrderInv` says of a task what it
  plans to write compared with the list it read, and of a dialog that its button
  fits the status of its copy; a task whose list is the stored one then moves its
  order along its life.
- `WalletLoadsWhole`, `PasswordStaysUsable`, `KeysStayStored`, for any phrases,
  accounts, passwords and kills. `WalletInv` is the store between two writes
  (`StoreInv`) together with the writes still to be made (`Pending`): which of
  `saveWallet`, `savePasswordHash`, `clearWallet` or an edit of the accounts is
  under way, how far it is, and what of it is stored. That a removal leaves an
  account needs the ids to be distinct, which they are until an account is
  created after a removal (`renumbered`).

Only model-checked: `CrashDriftBounded` of `DexRpc` (its invariant has to relate the
rest of a matching run to sums over the book at each of its accesses),
the refinement in `DexSerial`, and liveness
(`HandlersReturn`, `TailWitnessed`, `DepositSettles`, `ChatCatchesUp`), which the
prover does not reach.

## Not modelled

- DEX market maker and swaps: they reuse the operations of `DexRpc`; the market
  maker settles again what `MatchOrders` settled, and a swap ends with a wallet
  payment that may fail. Oracle and peg rates: floating-point prices fetched over
  the network, and one thread.
- Asset registry: `issueasset`, `issuepegged` and `deleteasset` (the assets of a
  model exist from the start); `declaredividend` moves no balance.
- CBDC authority on the node and the fiscal split of the miner: comparisons and
  straight-line arithmetic around signature checks.
- Admin path: signatures are a Boolean; key rotation, key provider and rate
  limiter are left out.
- API: the in-memory order book (floating-point prices), presales and handlers
  that relay a call to the node.
- Extension and mobile app: key derivation, encryption, transaction building, the
  popup and the screens that only display.
- Indexer and DNS seeder: loops of database and network I/O. The indexer logs a
  failed transaction and moves on.
- Bitcoin Core's consensus, mempool, wallet and networking; cryptography
  (ML-DSA-87, HMAC); website, GPU miner, archived code and scripts; read-only
  queries. Sums of balances are not wrapped to 64 bits.

By far the most lines of the repository are in these parts: the files with the
suffix `.ts` alone are mostly Qt translations (XML) and user interface. The
models cover a small share of all lines and the state-changing core of the
components named above. `PROJECT.json` lists the hazards of the code, with the
few that no property covers.
