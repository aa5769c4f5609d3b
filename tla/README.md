# Namehold Wallet in TLA+

TLA+ models of the wallet's own concurrent logic, the TLC runs that check them on
small instances, and TLAPS proofs that carry the most important results to every
instance. Paths below are relative to the repository's `src-tauri/src/` unless they
start with `src/`.

## The system

Namehold is a desktop wallet for Handshake (HNS) coins and names. A React frontend
calls Tauri commands; the Rust backend keeps its state in one SQLite database and
talks to an hsd node over RPC. A second process, `namehold-syncd`, shares the
database and syncs in the background.

Three things make it hard to get right:

* Every command takes the database lock for a *section*, drops it, and awaits
  something (a confirmation window, a Ledger, an RPC) before the next section. What
  the next section writes was decided on rows that may have changed since.
* The chain is the authority on what became of a transaction, and it answers late,
  partially (no transaction index, a mempool that forgets), and differently after a
  reorg.
* Two processes, each with several threads, sync the same profile.

### Inventory

| component | state it keeps | operations | correct when |
|---|---|---|---|
| Transaction drafts (`commands/tx.rs`, `db/queries.rs`) | `wallet_tx_drafts`: status, ages, signed hex | build, sign, broadcast, poll, delete | a row never claims more than happened, and catches up with what did |
| Coin reservations (`noncustodial/send.rs`) | `tracked_utxos.reserved_by_draft_id` | claim, TTL sweep, release | a coin in flight is not given away; an abandoned one is not lost |
| Coin cache (`noncustodial/sync.rs`) | `tracked_utxos.spent_by_txid` | upsert, mark missing | it converges to the node's view |
| Chain evidence (`noncustodial/tx_evidence.rs`) | none | classify the node's answers | silence is no verdict |
| Sync lock (`db/sync_lock.rs`, `commands/sync.rs`, `daemon/mod.rs`) | `sync_locks` row, `LockLost`, `SyncStatus.running` | acquire, heartbeat, take over, release | two processes sync one profile only for a bounded time; a dead holder blocks nobody |
| Full sync steps (`commands/sync.rs`) | cursors, address window, progress | node sync, window growth, repair, discover | an interrupted run leaves a consistent cache |
| Shakedex purchases (`shakedex_jobs.rs`, `noncustodial/shakedex/purchase.rs`) | `shakedex_purchases` state, rebroadcast count | send, refresh from chain, finalize | a paid purchase is never given up, an unpaid one never claims the name |
| Shakedex listings (`noncustodial/shakedex/sell.rs`, `cancel.rs`, `shakedex_jobs.rs`) | `shakedex_listings` state, steps, market fields | lock, finalize and sign, lower price, cancel, restore, reorg undo | the state follows who holds the lock coin |
| Market publication (`market/learnhns.rs`, `shakedex_jobs.rs`) | market status, retry time, attempts | announce, upload, keep listed, take over | the market shows our current file or we know it does not |
| Name actions, auctions (`commands/names.rs`, `noncustodial/actions.rs`, `bids.rs`) | bid commitments, covenant coins | open, bid, reveal, redeem, register, renew, transfer | each action is built only inside its window |
| Speed up (`noncustodial/speed_up.rs`) | child drafts | plan, recheck, broadcast | the child is sent only while its parent waits |
| Signer session, prompts (`noncustodial/session.rs`, `commands/secure_*.rs`) | master key slot, expiry, pending prompts | unlock, use, expire, lock, switch or delete the profile | no key past its cap, none of another profile |
| Reminders (`commands/deadlines.rs`, `daemon/mod.rs`) | reminded episodes, daemon heartbeat | scan, claim, deliver | once per episode across both processes, and none that stays due is missed |
| Chain scanner (`commands/chain_scan.rs`) | bid index, cursor, window | scan block, move the window, save the cursor | no bid below the cursor is missing, whatever fails |
| Local node (`commands/node.rs`, `local_node.rs`) | child handles, pid records | start, stop, quit, re-sync | only the app's own hsd is stopped, and none of its own is forgotten |
| Keys and vaults, encodings, Ledger protocol, explorer views, Namebase, settings, assets, migrations, tray, frontend | | | not modelled: cryptography, formats, I/O or plain records |

Interactions: drafts and reservations share one database and one lock; the poll and
the sync read the node without it. The sync lock is the only agreement between app
and daemon; losing it is learnt from the next heartbeat. Shakedex jobs judge the
drafts of purchases and locks, and so does `broadcast_tx_draft` before sending them;
the market jobs run in the same sync after the jobs that follow the lock, and act on rows
the seller's commands change meanwhile. Devices restored from one recovery phrase share
nothing but the chain and the market. App and daemon both send reminders from one table
of claims. The signer's slot is emptied by whatever switches or deletes a profile.

## Modules

| module | models |
|---|---|
| `Chain` | hsd and the network: mempool, blocks, reorgs, evictions, relays, foreign spends. External: no line of it is the repository's. |
| `TxDrafts` (extends `Chain`) | draft rows, reservations, coin cache, and every command and job that writes them |
| `CoinClaims` | abstract: a draft claims all its coins or none, and a claim in flight ends only with the flight. `TxDrafts` implements it. |
| `NameSale` | a name in a seller's lock: its owner coins, mempool, expiry, price steps, what the node answers of them. External. |
| `ShakedexPurchase` (extends `NameSale`) | one purchase: its row, its draft, its send, and the purchase job request by request |
| `LockChain` | a name on its way into a lock and out of it: TRANSFER, FINALIZE, cancel, sale, reorgs, another device. External. |
| `ShakedexListing` (extends `LockChain`) | one listing: its row and guarded writes, the seller's commands, the job that follows it |
| `MarketCopy` | a listing's copy on the market, the devices that keep it there, their market jobs and bookkeeping |
| `SyncLock` | the lock row, app and daemon processes, their sync threads and heartbeats |
| `Reminders` | reminders claimed by app and daemon over stored keys and the daemon's heartbeat |
| `SignerSession` | the slot of the unlocked key, unlock prompts, profile switches and deletions |
| `ChainScan` | the bid index, its window and its cursor |
| `LocalNode` | the app's own hsd: start, record, stop, over sessions, among other processes |
| `TxDraftsProofs`, `SyncLockProofs`, `ShakedexPurchaseProofs`, `ShakedexListingProofs`, `MarketCopyProofs`, `RemindersProofs`, `ChainScanProofs` | theorems about the module of that name |
| `DesktopProofs` (extends `MCDesktop`) | theorems about the signer, the local node, and the five protocols in one app |
| `MCTxDrafts`, `MCSyncLock`, `MCPurchase`, `MCListing`, `MCMarket`, `MCDesktop` | the instances TLC checks |

`MCDesktop` puts five modules into one run that share no state: `SyncLock`, `Reminders`,
`SignerSession`, `ChainScan` and `LocalNode`. `part` is chosen at the start and says
which of them moves; the others rest in their initial state.

A definition that begins with "Mutant of" is a plausible mistake in the definition
it follows; no specification uses it. Substituted for that definition, it must break
a property of some run: that is how each property is known to say something.

### TxDrafts against the code

A locked section is one step. The halves of a command on the two sides of an await
are two actions, and what is remembered between them is a variable:

| variable | in the code |
|---|---|
| `status`, `age`, `idle` | the row's status, time since `created_at` (TTL) and since `updated_at` (grace, watch) |
| `height` | `confirmation_height`: of the block that holds the transaction, of another (written late, or the block is gone), or one the tip has passed by `CONFIRMATION_FINALITY_DEPTH` |
| `reservedBy`, `spent` | `tracked_utxos.reserved_by_draft_id`, `spent_by_txid IS NOT NULL` |
| `signing` | a sign command between its checks and `persist_signed_draft` |
| `sending` | `broadcast_tx_draft`: loaded, then what became of `sendrawtransaction` |
| `polled` | `refresh_tx_confirmations`: the status it read for a row, then its verdict |
| `view` | `sync_wallet_state`: the coin list fetched and not yet applied |

`SignStore` writes whatever the row has become, `PollPersist` looks again only at the
age of the rows it gives up, and aborts half-way when such a row is gone, as the code
does. A crash (`CutShort`) may fall between the two autocommitted writes of a verdict.

Abstractions, and why they are sound for the properties:

* A transaction is its draft and the coins it spends. Fees, outputs and change are
  left out; no property compares them.
* Heights are not numbers. What a confirmed row's recorded height is worth is one of four
  cases (`Heights`): the poll drops the row once that height is 12 below the tip, mined or
  not, so a height whose block a reorg took away may pass the depth like any other
  (`TipPasses`). A block buried by the depth is not undone, as `tx.rs` assumes.
* Clocks are capped counters. Only the order Grace < Ttl < Watch of the three windows
  matters (`DraftsAssumption`).
* One poll and one wallet sync at a time: both are commands the frontend serialises.
  Looking up one draft is one step; different drafts are looked up at different times.
* The node's coin list of all addresses is fetched in one step. A list that mixes two
  moments is not modelled.
* Drafts of Shakedex purchases and locks and speed-up children are excluded: their
  jobs and gates also judge and discard them. `ShakedexPurchase` and `ShakedexListing`
  have those of purchases and locks.

The refinement `ClaimsKept` maps `claims` to the drafts that hold every coin they spend
and `out` to those whose row says they may have reached the chain. A discard, a
sweep, a build over somebody's coins are then `Return` and `Claim`, every verdict is
`Settle`; a release by hand is the one step that is none of them.

### ShakedexPurchase against the code

`state`, `missing`, `resent`, `said`, `rest` are the columns of the purchase's row
(`missing` counts blocks since `missing_since_height`, `said` what `lost_reason` says of
the money, `rest` the time since `updated_at`), `draft` and `age` its draft. The job
(`shakedex_jobs.rs`, `Job`) reads the row once, then asks the node: every request is a
step named for it (`JobTx`, `JobLock`, `JobPrice`, `JobSend`, `JobTaken`, `JobTransfer`,
`JobName`, `JobOwner`, `JobMoved`, `JobStill`, `JobByHash`, `JobHistory`), and `job` is
what it carries from one to the next. It writes the row when it ends, whatever the row
has become. `job.task` is why it asks: to follow an open purchase (`refresh`, then
`mined` or `lose`), to `revive` a lost one, to `recheck` an owned one.

Abstractions: a transaction is the owner coin it makes; one purchase, whose coin
reservations are `TxDrafts`'; a poll and a send do not overlap the job's answers in the
liveness half; blocks and time count from one job to the next. The FINALIZE is the
network's, since anyone may send it once the lockup is over; heights and the lockup's
countdown are left out. The speed-up child a rebroadcast takes along is left out.

### ShakedexListing against the code

`row` is the listing's row (`shakedex_listings`): its state, the lock coin, the FINALIZE
(`final`), the file over a lock coin, the Cancel and its FINALIZE home. `drafts` has what
the job reads of each of our transactions, `signed` the lock coins recorded as signed
over, `sets` (history) the step sets signed over each. A command that asks the seller
first (`FinalizePrompt`, `AbortPrompt`, `CancelPrompt`, `HomePrompt`, then the `...Store`)
waits in `cmds`. A lock may see several Cancels (`OurCancels`): an unsent one is discarded,
which lists the name again, and the next one is built. The job reads the listing (`JobStart`,
one row for the whole pass), asks its first request (`JobFirst`), the rest with the
write (`JobRest`), and what follows the write (`JobTail`). Writes carry the guards of
`ListingWrite` (`db/queries.rs`), which are by state, by lock coin or by draft.

Abstractions: one listing of one name, each transaction but the Cancel built once, so the
guards "another open listing of this name" and a second registration of the name do not occur;
the price steps are one file; another device of the same phrase may send any of its
transactions, but in `Listing` nobody else finalizes our own cancel home, and in
`ListingLiveness` nobody else finalizes into the lock.

### MarketCopy against the code

`row` is a device's listing with its market columns, `job` its market job between two
requests (it acts on `seen`, the row it read), `prompt` a command that waits for its
seller or the node. A job reads its row (`Begin`), prepares the copy to send (`Cut`: an expiry
that is near is moved ahead first, then the file is cut to its current step at the median
time; `NotNow` ends a job the node gives no verdict for), reads the market's copy (`Look`),
sends (`Send`) and records the result (`Record`). What it does in each depends on why it runs:
`announce`, `upload_current` for a first or moved step, `keep_listed`, `follow_elsewhere`, or
the report of the end, each with its `record_market_result`. `FollowLock` is the job that
follows the lock coin. The commands are `Publish` and `Import`, `Cancel` with
`SendOrDropCancel`, `LowerPrice` and `TakeOver` with their `Answer`, and `Renew`.

A command writes whatever the job is doing. Deleting an unsent Cancel lists the name again and
starts its bookkeeping over in that one step (`StartOver`), so an answer on its way may find
the listing in the state it was read in, with the bookkeeping reset: the round trip that
`record_market_result`'s condition (`Same`) does not see (`db/queries.rs:3935`). A sent Cancel
may die (`CancelDies`), and then only the job takes the listing back. `Answer` writes the file
with the expiry read before the prompt over a refresh made meanwhile; the next keep-listed pass
moves it again. `market.unheard` and `job.lost` are history: which devices had an upload taken
that their row does not tell of, and whether the job read its row then.

What becomes of the lock coin is the environment's. Left out: the length of the back-off, rows
and files that do not read, a foreign expiry past every refresh, a sync whose lock was taken
over while it runs (`market_lock_lost`: two processes of one device uploading at once), and
the way of an importer's `sold` listing back when its lock un-mines entirely (the job restores
it; only the seller's goes to `finalizing` here).

### SyncLock against the code

A process is one run of an executable; a restart is another process. The release
build aborts on a panic, so a panic is `Die`. `Start` is `start_full_sync` finding
`running` clear, or the daemon's next cycle. `Read` is the SELECT of
`acquire_for_app` or `try_acquire` and the branch it chooses; `Insert`, `TakeOver` and
`Refresh` are the writes, a step later. `Heartbeat` and `HeartbeatFails` are the
heartbeat thread, `MarketCheck` is `market_lock_lost`, `Finish`/`StopForLostLock` the
end of the run with `finish_run`, `Release` the deletion by pid that follows it.
`since` is a history variable: how long ago the owner acquired the row.

Abstractions: one profile; the wall clock and the threads' clock tick together unless
the machine sleeps; a heartbeat thread that is due wakes before the next tick. What a
run writes into the profile is not modelled here.

### Reminders against the code

An episode is one stay of a name in a state that wants a reminder; `claimed` is
`deadline_notify_state`. The app's pass (`scan_deadline_notifications_with`) takes its
day, asks the node (`AppBegins`), claims its reveal and renewal reminders, and the
finalize reminders if the daemon's heartbeat is not fresh; the daemon claims the latter
(`DaemonStep`). "Told" is the claim: a process that dies between the claim and the
notification has used it up, so a reminder comes at most once, by the code's design.
Not modelled: lead times, grouping into one notification, a pass that fails half-way, a
clock set back, the reminders of watched names.

### SignerSession against the code

`session` is the slot: whose key, ticks to its expiry and to its hard expiry; `prompting`
the unlocks that wait for their passphrase; `found`, `switching` and `deleting` the
activations and deletions between the write of the database and the look at the slot. A
use (`ensure_for`, `authorize`) touches the expiry and never the cap. Not modelled: a
clock set back (the expiry is wall-clock time) and a machine asleep.

### ChainScan against the code

`first` and `last` are the row of `chain_scan_cursor`, `rows` what `name_bid_outpoints`
says of each bid, `scan` the loop: sleeping, with a tip, in a batch, at its end.
`Advance` is `advance_scan_window` with the comparison that follows; a block's rows are
one step (one transaction in `scan_block`). The app may end anywhere, a block or the
cursor's write may fail. A bid's value and address are abstracted, and so is a second
network, which has rows and a cursor of its own.

### LocalNode against the code

`child` is the handle in `hsd_children`, `record` the pid file, `start` how far `start_hsd`
has come (its reservation in `hsd_starting` makes it one at a time), `forgets` a stop
between the kill and the removal of the record. A process has one life; two may have the
same pid, one after the other. A quit that leaves the node running is `SessionEnds`, as a
crash is; one that stops it is a stop before it. Left out: the re-sync, the generated API
key, the readiness polls, another network's node, a pid reused between `own_node`'s look
and the signal. The pid file lies in the directory of the `hsd_prefix` setting; a setting
changed while a node runs, after which its record is looked for elsewhere, is left out too.

## Runs

| run | question | instance and bounds | states |
|---|---|---|---|
| `DraftRaces` | do overlapping commands, poll, sync, a crash or a fault keep one draft honest, and do rows and cache converge? | 1 draft, 1 coin, commands overlap, releases by hand, 2 sends (a send and its retry), 1 fault or crash | 0.3 M |
| `DraftContention` | do two drafts over shared coins corrupt each other's reservations? are they the abstract claims? | 2 drafts, 2 coins, one draft over both, no transaction index, 1 send, 1 fault | 1.5 M |
| `Purchase` | is a purchase ever forgotten, called lost, or called owned wrongly? does its row come to say what became of it? | 1 purchase, nodes with both indexes and with none, 1 reorg or eviction, 3 price steps; crashes and failed requests, or a `steady` world without them, for the liveness; rebroadcast after 1 missing block, given up after 2, looked at again for 1 tick | 0.9 M |
| `Listing` | can interleavings make two files over one coin, or lose a FINALIZE or a Cancel? | 1 listing, 3 commands, 2 of them open at once, two Cancels of one device (symmetric), one reorg of one or two transactions, one eviction or the expiry, another device's FINALIZE, cancel, sale and ways out; a device that makes the listing or one that restores it; no transaction index | 1.8 M |
| `ListingLiveness` | does the listing come to say who has the name? | 3 commands, 1 open, 1 reorg, eviction or expiry, 1 failed sync, transaction index | 0.5 M |
| `Market` | do devices keep the current step on the market, warn only of others, and report the end? | 2 devices in peace with 3 commands; or 1 device with lost answers, refusals, failed Cancels, reorgs or foreign uploads (1 of them), and 1 command with 2 ticks or 2 commands (a Cancel and its deletion) with 1 | 0.9 M |
| `Desktop` | sync lock: do app and daemon share the profile? | an app with 2 overlapping runs, 2 daemons, 1 failed heartbeat, 1 mishap, threshold 2 intervals | 0.35 M in all |
| | reminders: once each, and none missed? | one listing, one reveal, 3 days | |
| | signer: does the key go in time, and with its profile? | 2 profiles, cap 3 ticks, timeouts 1 to 3 | |
| | chain scanner: is the bid index complete up to its cursor? | 2 auctions of different heights, 6 blocks, window 3, batches of 2, 1 reorg, 1 crash, any failures | |
| | local node: only own nodes stopped, none forgotten? | 3 processes, 2 of one pid, any number of sessions | |
| `FindPaidForgotten` | where the code departs from what it says | as `Purchase` | |
| `FindResign`, `FindLateSend`, `FindFreshLockLost`, `FindRevertedFinalize` | where the code departs from what it says | smallest instances | |

Why the bounds are enough: draft hazards are about one row seen by several actors
or one coin wanted by two rows, which one and two drafts show. The fault lets a
transaction be evicted and mined after all, or mined, un-mined and spent elsewhere.
With a threshold of two intervals and one miss the lock is at the edge where a live
row is as old as it can be without being stale; the code has three intervals (30 s and
10 s), and the proofs hold for every ratio.

One reorg undoes the FINALIZE or the purchase; a missing purchase needs one block to be
rebroadcast and one more to be too old, so every branch of `refresh_missing` is taken
(the code has 6 and 432 blocks). A listing needs a command to open it, one to move it
and one to race with; two prompts open at once are what one seller's windows give. Two
Cancels are the one a job has read and the one signed since; nothing tells them apart but the
order they are built in, so the run takes them as symmetric (`MCListing`). The liveness run
has one, since symmetry is not sound for it. On the
market a second device is the one whose steps the first has never seen; a third would
only repeat it. In the scanner a window of three blocks and a chain of six make it move
over scanned and unscanned blocks, past one auction and not the other. Three processes
are a node left behind, the next one, and a stranger with the first one's pid.

Deadlock is checked where time always passes: the draft runs and `Desktop`. A purchase, a
listing and a market copy come to rest, so their runs do not check it.

### What the properties say

Drafts and coins:

* `ReservationsAreOwned`, `GivenUpHoldsNothing`: reservations and rows agree, whatever
  races; only a crash between two writes leaves a failed draft holding coins, for the
  TTL sweep.
* `SentMeansSent`: broadcasted implies handed to a node, confirmed implies it was in a
  block, however stale the poll that wrote it.
* `InFlightCoinsFreedOnlyByVerdict`: the sweep, a discard and another draft's claim
  never free a coin of a draft that may have reached the chain.
* `ClaimsKept`: rows and reservations implement `CoinClaims`.
* `TrackedDraftsConverge`, `CacheCatchesUp`, `MinedAfterAllIsConfirmed`: rows and
  cache catch up. Exception: a confirmed row whose recorded height has passed the poll's
  depth is never looked at again, so one that a reorg un-mined while nobody polled (the
  application closed, the node unreachable) may stay confirmed.

Purchases:

* `SentPurchaseKept`: neither the job nor a refused send forgets a purchase some node
  was handed. A crash between the send and the write of its status is the exception: the
  draft still reads as `signed`.
* `LossIsTrue`: a purchase is not called lost while the chain traces to it, as long as
  no reorg or expiry falls between the requests of one judgement. A node without the
  index cannot tell once the name was moved on by its owner, and then the code says
  nothing was paid.
* `RevivedWasMined`: a lost purchase is not taken for owned because another purchase of
  the same seed brought the name home.
* `PurchaseSettles`: the row ends up telling what the chain shows.

Listings:

* `NeverSignedTwice`: at most one set of price steps is kept over one lock coin, through
  drafts deleted unsent, dead FINALIZEs and prompts left open.
* `FileIsOfItsLock`: the steps a listing hands out are over the lock coin it follows, never
  those of a dead FINALIZE. Exception: a lock that was adopted and taken away again by a
  reorg keeps its steps (`unadopt_restored_lock`).
* `FinalizeKept`, `CancelKept`: no write made from a stale read takes a listing off a
  FINALIZE that may still land, or off a Cancel of the lock coin it follows. Exception of the
  first: a job that read the listing with an earlier FINALIZE, as `FindRevertedFinalize` shows.
  Exception of the second: a job that read it with an earlier Cancel, discarded since.
* `ListingFollowsName`: the listing comes to say who has the name. Exceptions, each of
  them what the code does: an aborted listing whose TRANSFER is spent again before the job
  looks stays aborted, and a listing past its lock stays there when a reorg puts another way
  out of the TRANSFER in place of the FINALIZE.

Market:

* `SomeoneKeeps`: as long as every step the market serves is of a device that follows the
  lock, and somebody publishes, one that publishes still manages the listing: the devices
  never all step back for each other. In the run its premise is met in the world of two
  devices, which has no faults; over reorgs and lost answers it rests on `KeepsCorrect`.
* `WarnedOnlyOfOthers`: the warning "someone else's copy was on the market" is first given
  only over a copy of somebody else, also by an answer recorded over a listing that was
  cancelled and listed again meanwhile. The exceptions are real false warnings: when the job
  read the listing, the answer to an upload had been lost, or discarded because the listing
  had changed, or its bookkeeping had started over; or a reverse auction steps down over its
  own copy, whose expiry differs from the file's after a renewal or a refresh. A warning the
  job had read and records again over a listing that started over meanwhile repeats an old
  one.
* `MarketFollows`, `EndReported`: the market comes to serve the current step and to
  hear of an end. After a reorg that replaces one reported end by another it is not
  told again; `EndReported` accepts either.

Desktop:

* `StaleMeansGone`, `TakeoverNoticedInTime`: a live run's row does not go stale; a run
  that lost the row learns of it within a heartbeat and one more for each that failed.
* `LostRunsStop`, `DeadHolderReplaced`: a lost run ends, a dead holder is replaced. The
  former is stated of one run and one cycle; the others differ in name only.
* `SentOnce`, `Reminded`: each reminder is claimed once, and one that stays due is claimed
  while some process that sends it goes on. Exceptions, both contrary to comments: a pass
  that asked its node before midnight and finds a stale heartbeat after it claims with
  yesterday's day, while the daemon runs (`commands/deadlines.rs:808`); an episode that
  closes and opens again between two scans keeps its old key (`commands/deadlines.rs:395`).
* `KeyGoneInTime`: no key is in memory past its cap, however it is used.
* `NoKeyOfAnother`: once switches and deletions are through, the slot has no other
  profile's key, nor a deleted one's. Exception `strayed`: `unlock_local_signer` does not
  look again after its prompt (`commands/secure_wallet.rs:675`), so an unlock overtaken by a
  switch or a deletion stores the key all the same, contrary to what `activate_profile`
  says at line 240.
* `IndexComplete`: of the auctions it keeps the index has every bid and reveal up to the
  cursor and none that was not mined. Exception: a reorg of a block that was scanned. The
  scanner does not go back, so what it wrote stays and what came instead is missing.
* `OnlyOwnStopped`, `NoneForgotten`: stops and quits end only processes the app has
  spawned, and a running node it has spawned stays known as its own. Exceptions
  (`orphans`): no record was written, or a stop's late `remove_pid_file` takes the record
  of a start that followed it.

### Fairness

*Drafts.* The drafts query polls every 15 s (`src/src/queries/wallet.ts`) and a poll
started is persisted (weak fairness); a node asked again and again answers again and
again (strong fairness of `Look`: an unanswered look-up ends that poll's interest in
the draft, so the next poll asks anew); a broadcast command in flight ends; the wallet
syncs on a timer and infinitely many syncs succeed; time passes while a draft is in
flight (`Waiting`). Nothing is assumed of the user, of miners, or of faults.

*Purchases.* In the `steady` world, where no request fails and the app does not crash,
every sync runs the job, its requests are answered (each has a timeout, and a job that
fails has written nothing, as if it had not run), a send in progress ends, the reply to a
rebroadcast is not lost every time, blocks come, and an unsent draft ages.

*Listings.* The job's steps and the polls go on; failed syncs are bounded. Nothing is
assumed of the seller, the chain, or another device.

*Market.* A device's jobs go on, requests get some answer, the hour comes that a retry
waits for. `FollowLock` is strongly fair: the job that follows the lock runs in each sync
before the market jobs, so it cannot be passed over for ever by them.

*Desktop.* Time passes; each thread of a run goes on (`Goes`): its heartbeat is scheduled,
an acquisition and a release complete, a lost run reaches its next check, the daemon
starts a cycle every `SYNC_INTERVAL_SECS`; a sync need not end. Of the reminders only
the process that `stays` goes on, app or daemon as chosen at the start; the other may hang
or die, and the heartbeat ages.

## What the runs found

1. `FindResign`. Retrying a `broadcast_pending` draft signs it again and overwrites the
   status with `signed` (`commands/tx.rs:1182`). If the broadcast then does not happen,
   a transaction the node may hold reads as never sent (`db/queries.rs:1468`): it is no
   longer polled, may be deleted, and its coins are swept.
2. `FindLateSend`. A draft signed and left past the TTL can still be sent without its
   reservation (`commands/tx.rs:2088`), and its coin, in flight, is selected again.
3. `FindFreshLockLost`. `finish_run` clears `running` before the lock is released
   (`commands/sync.rs:420`), so a second run of the app can take the row over and then
   lose it to the first one's release, which goes by pid.
4. `FindPaidForgotten`. A purchase given up leaves a dropped draft that Activity offers
   to discard. Mined after all, `revive` makes its row `awaiting_finalize` without a
   draft, and the next sync deletes the row as never sent (`shakedex_jobs.rs:348`),
   though "a purchase past `pending_send` is the chain's to decide"
   (`db/queries.rs:1560`).
5. `FindRevertedFinalize`. The job reads its listings once for a whole pass. A seller who
   discards a FINALIZE and signs another after that read has the second one taken back when
   the job finds the first one dead (`db/queries.rs:2999`, guarded by the state alone).

Seen while modelling and not run:

* A reorg that un-mines a confirmed payment while nobody polls, until the tip is past its
  recorded height by the finality depth, leaves the row confirmed for ever: the poll's list
  goes by the stored height alone (`db/queries.rs:5177`), although its comment says such a
  reorg "is caught instead of trusting a stale `confirmed` status forever"
  (`db/queries.rs:5161`). `TrackedDraftsConverge` excludes exactly this.
* What `FindRevertedFinalize` shows of FINALIZEs goes for Cancels: a job that read the listing
  with a Cancel the seller has discarded since finds it gone (`shakedex_jobs.rs:2193`) and
  calls `uncancel_listing` (`db/queries.rs:3397`), guarded by the state alone, which takes off
  the Cancel signed meanwhile. `CancelKept` excludes exactly this.
* A reorg between the two reads of `name_moved_on` can call a live purchase lost, and a
  lost purchase whose draft reads as confirmed is not looked at again; an owned purchase
  is rechecked by its TRANSFER coin only, so a reorg of both its transactions leaves it
  owned.
* A lock restored by name whose purchase was finalized away before the next sync stays
  restored. `unadopt_restored_lock` (`db/queries.rs:3273`) keeps the steps and the file of an
  adopted lock that a reorg took away, contrary to `db/queries.rs:2875`; after a second reorg
  the listing can offer a file over a coin that no longer exists.
* `scan_covers_auction` (`commands/chain_scan.rs:505`) says the index "has every bid of
  the auction" as soon as the cursor is past its OPEN, so `read_name_bids` shows a partial
  list while the scanner is behind the tip.
* `resync_hsd_chain` (`commands/node.rs:1251`) takes no reservation of `hsd_starting`: a
  start in flight can spawn hsd on the chain that is being moved.
* The list of watched names (`daemon/watched_names.rs:175`, 457) loses or repeats keys when a
  name fails or is skipped and when the process dies in between.
* `collect_deadlines` (`commands/deadlines.rs:466`) applies the active profile's node height
  to every profile of every network; a height that flickers can bring a reveal or renewal
  reminder back.

`release_tx_draft_reservation` (`commands/tx.rs:3013`) frees a coin whatever the
draft's status. The UI never calls it. `DraftRaces` includes it (`ReleaseByHand = TRUE`);
`DraftContention` leaves it out, and `InFlightCoinsSafe` and `ClaimsRefined` assume as much.

## What is proved

The proofs hold for all values of the constants: drafts, coins, inputs, faults, crashes
and windows; processes, threads, intervals and thresholds; transactions, kinds of node,
reorgs, patience and prompts; devices, price steps, lost answers and refusals; profiles and
timeouts; episodes; bids, auctions, windows and batches; processes and pids. They assume the
named assumption of their module (`ChainAssumption`, `DraftsAssumption`, `LockAssumption`,
`SaleAssumption`, `PurchaseAssumption`, `KindsAssumption`, `ListingAssumption`,
`DevicesAssumption`, `MarketAssumption`, `SignerAssumption`, `RemindersAssumption`,
`ScanAssumption`, `NodeAssumption`): typing, the order of the windows, the distinct kinds of
transactions, reorgs of one or two transactions of a name, a listing made here or restored,
schedules of one or two steps before they are lowered, finitely many devices on the market,
one sync thread a daemon. TLC evaluates each of them.

Every safety property a passing run checks, invariant, action property or refinement, is a
theorem.

| theorem | argument |
|---|---|
| `TypeCorrect` (drafts), `LockTypeCorrect`, `SignerTypeCorrect` | inductive |
| `OwnedCorrect` | inductive with the types: only `Delete` ends a row, and releases |
| `GivenUpCorrect` | inductive: `WritesFreeGivenUp` says every write of a giving-up status comes with the release of its coins |
| `SentCorrect` | `SentMeansSent` is not inductive: a poll may hold a verdict on a row that changes. `Knows` adds what is known in flight: a submitted draft was relayed (`InFlightKnows`), a verdict "confirm" means it was in a block, "promote" and "revert" that it was relayed, and that relayed and landed only grow (`ChainKnows`) |
| `InFlightCoinsSafe` | an action property, one case per action, from the types alone; assumes no release by hand |
| `WholeCorrect`, `ClaimsRefined` | reservations are whole: a draft holds all its inputs or none, since claims, sweeps and verdicts move them together. Then each action is a step of `CoinClaims` or a stutter; assumes no release by hand |
| `StaleCorrect`, `TakeoverCorrect` | from `WithinRoom`: a syncing thread's row, or the acquisition that took it, is no older than `misses * Beat + beat`. That needs `DaemonHolds`: without mishaps a running daemon holds the row only while it syncs, so it never refreshes, in `Refresh`, a row that has become another's |
| `SentKeptCorrect` | from `Handed`, what a send leaves behind: an unsent draft is a purchase's that is not sent, a refused one reached no node, a dropped one's row is past `pending_send` |
| `LossTrueCorrect`, `RevivedCorrect` | `Remembered` says for every request of the job what its answers still tell of the chain if neither a reorg nor an expiry came since: by the time a judgement is written, they exclude every way the name could trace to the purchase (`Traced`: how it came to its owner). `Assigned` says which rows a judgement may be about. The types of purchases need the four together |
| `SignedOnceCorrect` | a set of steps is counted only with its lock coin recorded in the same write, and no write drops a recorded coin |
| `FileCorrect` | `GoodRow` ties the row's states to its columns: which of them has a lock coin, a FINALIZE, a file and over what. Every guarded write (`ListingWrite`) keeps it, whatever the row has become |
| `FinalizeCorrect`, `CancelCorrect` | the job writes from rows it read a pass ago. `SinceRead` lists what the seller's commands may have made of the row since, `JobOK` which rows each request is asked for, `Passed` that a Cancel the listing got past is not left unsent. A write of the job that takes a transaction off the row then found it dead (`Handled`), or acted on an older one: the exceptions |
| `KeepsCorrect` | `SomeoneKeeps` is not inductive: a device steps back for the step it finds on the market, so what is found there matters. `Holder` adds that a step of a followed device on the market is always that of somebody who keeps the listing |
| `WarnedCorrect` | a device whose copy is on the market knows it: by the answer on its way, the last step it recorded as sent, or the note that the listing changed (`Copied`), unless an answer was lost or the listing started over since (`unheard`), and a job that reads it then is marked so. `Rows` says of the row and its job which of what the job has read still stands; `Expiries` that no expiry, of a copy or of a file, is later than a refresh would write |
| `KeyGoneCorrect` | ticks held and ticks to the hard expiry add up to the cap, and the expiry never exceeds the hard one |
| `OwnKeyCorrect` | a key of a profile no longer active is doomed: some switch has yet to drop it (`OthersDoomed`), or it strayed; the same of a deleted one's (`DeletedDoomed`) |
| `SentOnceCorrect` | a reminder sent in this episode is still among the keys, unless it was a listing's of an earlier day: scans keep what another writer added and what is still open |
| `IndexCompleteCorrect` | the index is complete up to the cursor and, in a batch, up to the block read (`Has`); the window may skip blocks, but only those at or before the OPEN of every auction it keeps, and bids follow their OPEN (`ChainOrder`) |
| `OnlyOwnStoppedCorrect`, `NoneForgottenCorrect` | what the app holds a handle or a record of it has spawned (`Held`); while a start has checked, every own node is dead or an orphan, so the one it spawns takes nobody's record (`Known`) |
| `DeskRunsEach`, `DeskTypeCorrect`, `DeskCorrect` | each step of the app is a step of one protocol and leaves the others alone, so it behaves as each of the five, and all their invariants hold of it together |

Only model-checked, since temporal reasoning under fairness is out of the prover's reach:
`TrackedDraftsConverge`, `CacheCatchesUp`, `MinedAfterAllIsConfirmed`, `PurchaseSettles`,
`ListingFollowsName`, `MarketFollows`, `EndReported`, `LostRunsStop`, `DeadHolderReplaced`,
`Reminded`. Neither proved nor checked: amounts, encodings, cryptography.

## Not modelled

Cryptography, encodings, the Ledger and Namebase protocols, the explorer's views, settings,
assets, migrations, the tray and the frontend are formats, I/O or plain records without
concurrency; a model would only repeat them. Of the parts with behaviour of their own
these are left, in this order:

1. `SpeedUp` over `Chain`: a child whose parent is mined, dropped or replaced between
   review and send.
2. The secure prompts: one-time prompts owned by a window.
3. The sync steps under `SyncLock`: what a run that lost its lock has already written.
4. Name actions: auction windows, blinds and nonces against drafts given up.
5. Watched names, the re-sync of the node, purges of a profile with jobs in flight.
6. Pure modules against reference definitions: coin selection and fees, the price
   schedule, auction windows, effective node configuration.
7. Abstract specifications of listings and of the market, as `CoinClaims` is of drafts.
