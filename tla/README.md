# Formal models of the Sloga backend

TLA+ models of the parts of the backend where several processes change shared
state without a common transaction, and a mistake costs money, secrecy or a
call: the payments engine and the Prot ledger, the MLS delivery service,
protected channels, and the voice state kept for LiveKit's webhooks. TLC checks
the models on small instances; TLAPS proves most of their safety properties for
every instance. Paths below are relative to the repository root.

## 1. The system

Sloga's backend is a set of Rust services over MongoDB, Redis, RabbitMQ and
S3: the REST API (`crates/delta`), the WebSocket gateway (`crates/bonfire`),
daemons (`crates/daemons`: crond, pushd, voice-ingress), media services
(`crates/services`) and the shared crates (`crates/core`).

| Component | State it keeps | Operations | What is hard |
|---|---|---|---|
| Payment order row (`models/payment_orders`) | state, version, lease_until, buyer, disputes, pending reversal | insert, acquire/release lease, fenced replace, unlink | stalled holders, takeover, lost updates |
| Payments engine (`payments/src/engine.rs`) | none of its own: orders, memberships, numbers, badge | checkout, fulfil, resume, expire, void, reverse, release a number, delete an account | a dozen awaits per handler, each a place to crash, stall or be overtaken; Stripe refunds that cannot be undone |
| Cipher memberships, numbers (`models/cipher_*`) | one row per member with a version; one row per number with its order and release mark | insert, compare-and-swap, delete; claim, mark, cancel, release | two orders of one user under two leases; the last number |
| Event dispatch (`payments/src/dispatch.rs`, `models/payment_events`) | one row per Stripe event: state, attempts | handle_event, re-drive | duplicate, concurrent, lost deliveries; the attempts cap |
| Reconcile sweep (`crond/src/tasks/payments_reconcile.rs`) | none | resume paid orders, re-read disputes, apply reversals, finish releases, settle refunds, sync Prot, re-drive events | one clock per tick; races with webhooks |
| Account deletion (`crond/src/tasks/delete_accounts.rs`, `users`) | deleted flag, badge | void open orders, forfeit Prot, unlink, delete the membership, flag the user | runs beside fulfilment of the same orders |
| Prot wallet and ledger (`engine/prot.rs`, `models/prot`) | wallets, ledger rows with unique keys, shortfalls | credit, clawback, forfeit, staff adjustment, founding grants and their sync | postings are transactions, the steps between them are not |
| MLS groups (`models/mls`, `routes/mls`) | group row (epoch, roster), commit rows, join intents | create, commit, repair, join, close, prune | the winner of an epoch dies between its two writes; rosters read before they are used |
| Protected channels (`models/protected_channels`) | entitlement, seat list, seats, Text group, memberships | grant, put a list, create a group, commit, kick, leave, post | write skew between snapshot transactions |
| Voice state (`voice-ingress`, `database/src/voice`) | per channel: roster, connection record; per user and server: pointer, joined_at, flags | join, leave and room webhooks, removals, roster repair, sweep | webhooks late, lost or sent again; several connections of one user; check-then-act |
| Stripe client, catalog, settings, routes | none | HTTP, validation | (I/O and pure code) |
| Upload sessions (autumn), scheduled messages, E2EE envelopes and key backup | sessions and parts; due rows; queues | finish/prune; claim/requeue; store/acknowledge | small protocols, not modelled yet |
| Rate limits, coalesced requests, presence | buckets; in-flight keys; session sets | take; join; add/remove | small protocols, not modelled yet |
| Gateway, REST handlers, push, media proxies, permissions, parser, config | per connection or none | many | I/O, or pure |

How the modelled parts interact. A checkout request stores an order and opens
a Stripe session. Stripe's webhook deliveries (any number, in any order) go
through `handle_event`, which stores the event once and calls the engine. The
crond sweep starts the same engine functions for orders it finds unfinished.
Account deletion voids and unlinks the account's orders and forfeits the
wallet. Every engine function takes the order's lease, decides on the copy it
got, and writes by a replace fenced on state, version, lease and buyer. The
membership is shared by all orders of a user and is written by compare-and-swap
on its own version; the Prot ledger posts in transactions that bump it. Calls:
clients join a LiveKit room and an MLS group for its media keys; LiveKit tells
voice-ingress who is there; the end of the room closes the group. Protected
channels bind their Text MLS group to a seat list the owner signed.

What makes each part correct:

* order row: no update is lost, one writer, a settled order stays settled;
* engine: a refunded payment buys nothing, a voided one has its refund taken, no refund
  of ours during a dispute, a number belongs to at most one membership, the
  badge follows the membership, everything paid is settled in the end;
* dispatch: Stripe is told "done" only for what was done; no event is forgotten;
* Prot: a posting counts once, what is refunded is clawed back (once), a deleted
  account keeps nothing, a membership in good standing gets its Prot;
* MLS: one winner per epoch, made against the roster before it, sent to all of it;
* protected channels: who can decrypt is seated, listed and a member, or owed a
  removal that can be made; no plaintext in a protected channel;
* voice: who is connected is on the roster, readable and announced; who is gone
  is not.

## 2. Modules

| Module | What it is |
|---|---|
| `PaymentOrder` | One order and every change the engine writes to it, as relations between the held and the stored order |
| `OrderLifecycle` | Abstract specification: an order that changes atomically by those relations |
| `OrderLease` | The row with lease, version and clock; workers that lease it, stall, write, are refused, release or die |
| `CipherState` | Shared tables, the worker record, and the steps all handlers share: lease, fenced write, compare-and-swap, badge, dispute listing |
| `CipherRelease`, `CipherReverse`, `CipherFulfil` | `finish_number_release_locked`; `reverse_locked`; `fulfil_locked`; each with what it calls |
| `CipherEngine` | What starts a handler (requests, events, sweep, deletion), Stripe, the whole next-state relation, fairness and properties |
| `PaymentEvents` | `handle_event` and the re-drive over one event row |
| `ProtWallet` | A buyer's wallet: Prot orders, clawbacks, staff adjustments, and the forfeit of account deletion |
| `ProtFounding` | The Prot a membership brings: upward sync, clawback of reversed orders, number release |
| `MlsEpochLog` | Abstract specification: a group is a log of winning commits |
| `MlsCall` | Call groups: commits and their repair, join intents, creation and supersession, end of the call, prune task |
| `ProtectedText` | One protected channel: snapshot transactions on entitlement, list, seats, group, memberships and messages |
| `VoiceState` | One user's voice state in the channels of a server |
| `OrderLeaseProofs`, `CipherEngineProofs`, `PaymentEventsProofs`, `MlsCallProofs`, `ProtectedTextProofs`, `ProtWalletProofs`, `ProtFoundingProofs`, `VoiceStateProofs` | Proofs about the module they are named after |
| `MC*` | Constants and symmetry for TLC |

`CipherRelease`, `CipherReverse` and `CipherFulfil` extend `CipherState`, and
`CipherEngine` composes them. `OrderLease` and `CipherEngine` both use
`PaymentOrder`; each is proved to change an order only as `OrderLifecycle` does
(`OrderLease` as a refinement, `CipherEngine` per order as a step property, since
its behaviours may start with orders already sold). `MlsCall` implements `MlsEpochLog`.

### State and actions

**`OrderLease`.** The row is `order`, `version` and `lease` (`lease_until`, -1
when unset). A worker has the `now_ms` it read once, and the copy `acquire`
returned. `Acquire` is `acquire_payment_order_lease` (check, lease and version
bump are one update), `WriteAccepted` and `WriteRefused` are `write` over
`update_payment_order_if_state`, `Release` is the release fenced on the token,
`UnlinkBuyer` is account deletion's unlink, which takes no lease. `at`, when a
lease was really taken, is history no action reads.

**`Cipher*`.** A worker is a record `wk[w]`: the call it makes next (`pc`), its copy
of the order, the membership it last read, and the arguments of what it is doing.
Each database or Stripe call is one action, and what the code decides between two
calls is an operator from worker record to worker record (`FulfilPaid`, `VoidStart`,
`ReverseStart`...), so two handlers interleave at every await. `Fail` ends a handler
at any call that can return an error (the lease is given back), `Crash` ends it
without giving anything back. The lease of an order is just the worker that holds
it, and a fence is the worker's `mine` flag: the copy is still the stored order.
That this is what the comparison of four fields amounts to is
`OrderLease!NoLostUpdate`, which is proved. With `course.stalls` a lease may run out
under a live worker. Stripe (`stripe`) is external: the session, whether part of the
payment was refunded, which of our two refunds (of a void, of an upgrade) were
taken, how the refund of the whole payment stands (`refund`: settling, back,
failed), and the status of each dispute. A refund is taken settled or, for the
orders of `course.slow`, unsettled; `RefundSettles` then ends it either way,
whatever was made of it meanwhile. A request repeated under its key may get the
first answer again. Events are not queued: a handler may start whenever what it
reports is true at Stripe, so an event may come late, twice or never.

**`PaymentEvents`** has one row and any number of tasks started by a delivery
(`Deliver`) or by the sweep (`Redrive`). One processing attempt is a step with
any of its three outcomes. `handled` and `acked` are history.

**`ProtWallet`.** `ledger` is a set of rows, unique by kind and id; `Post` is
`apply_prot_posting`, one transaction. A worker works on its copy of an order
and reads, credits, looks at the account a second time and forfeits in separate
actions; `task` is the deletion of the account, `staff` the adjustments. `late`
and `lost` are history: credits by workers past their lease.

**`ProtFounding`.** `member` is the row, an incarnation of it is named by its
first order (`Base`). A sync reads the row (`SyncRead`) and commits only if
nobody wrote it since (`current`); `Claw` and `Commit` are the clawback of a reversed order.
`replaced`, `released`, `cut` and `skipped` are history for the properties:
`skipped` are the orders whose clawback the code leaves out, because their id is
below the base or because an earlier row's release recorded them Refunded.

**`MlsCall`.** `groups`, `commits` and `intents` are the collections. A commit
request reads the group (and repairs it: `ReadGroup`, `NextCommit`, `Repair`),
inserts its row (the unique id decides the epoch), applies the effects in a
second conditional write, consumes intents and delivers. Any request and the
prune task may stop after any call. A commit may be for any epoch from 1 on, as
the route takes it. `early` and `expired` are history: whether a commit arrived before
one it is made on, and the groups the prune task has chosen.

**`ProtectedText`.** `db` maps documents to values. A transaction is `Begin`
(read the snapshot, plan the writes) and `Commit` (apply them); a write to a
planned document in between sends it back to `Begin`, a write to a document it
only read does not. So the properties are about which documents each
transaction of `protected_channels/ops/mongodb.rs` touches.

**`VoiceState`.** `conns`, `members`, `entries`, `pointer` and `joinedAt` are
the Redis keys `vc_conns`, `vc_members`, `vc:{user}`, `{user}:{server}` and
`joined_at` (which stands for the flags written with it). Each Lua script,
pipeline part and SFU call is an action of the webhook handler of a connection
(`proc[s]`) or of a removal from a channel (`proc[c]`); `janitor` is a roster
reader or the sweep. LiveKit (`sfu`) is external. `shown` is what clients were
last told. `lost` is history: the webhooks that were given up. Its "ghost"
entries are the lost leaves no later leave has made up for.

### Simplifications

* Reads that nothing can tell apart are one step: the account and the membership in
  `Judge`, the order's number and the repeated membership read in `Number`, all
  advisory reads of a checkout, the read and the fence of
  `drop_release_for_lost_dispute`. `record_upgrade_refunded` (lease, write, release
  of the upgrade) is one step: nobody can write the upgrade between.
* Bounded retry loops are unbounded; giving up is `Fail`.
* A refund's amount is none, partial or full; a tier is a number. In `Cipher*` the
  refund window and "Prot spent" are nondeterministic (`undo`, `ProtSpent`);
  `ProtFounding` models the spending, and leaves money and badge out.
* A partial refund settles at once, and a payment has one refund of all of it at a
  time.
* Left out of `Cipher*`: `refund_settling_since` and `settle_refunds` (the event of
  a settled refund is there), the amount-mismatch void (in `ProtWallet` it is
  `terms`), the wait for the card's country, revocation by staff, the lookup of an
  order by its payment intent.
* A stranded `Received` event may be re-driven at any time (ten minutes in the
  code). `attempts` saturates at the cap, since nothing tells larger values apart.
* `ProtWallet`, `ProtFounding`: one buyer; the checkout and the wallet's cap are
  left out; in `ProtFounding` an order has one handler at a time.
* `MlsCall`: one channel; the envelopes the commits travel in and key packages are
  left out.
* `ProtectedText`: a commit removes any user, since rejoin intents may allow it;
  device and group size caps, eviction of a squatted Call group, threads, the growth
  flag, the byte-identical re-PUT, handovers and the claim of a server's ownership
  are left out.
* `VoiceState`: one user; identities, flags and tracks, screen legs, watch parties,
  remote control, moves, session records, node pins and the fallback for servers
  that refuse scripts are left out. `reconcile_channel` is one step after
  `still_ghost`. LiveKit sends a connection's leave after its join was answered or
  given up, and `room_finished` after the room's other webhooks; a user is in one
  channel at a time; `joined_at` tells connections apart (in the code two joins of
  one second look alike, `api.rs:615`).

## 3. What TLC checks

| Run | Instance | Shows | Distinct states |
|---|---|---|---|
| `order_lease` | 2 workers, leases of 1 tick, 4 instants, 5 versions | no update is lost, leases taken with the current time last, the row implements `OrderLifecycle` | 86,568 |
| `cipher_orders` | 2 workers, 1 dispute. One order with a dispute, refunds that settle late or fail, and account deletion: two of them under failed calls and dead processes, all three without, the last two with stalled workers; a sold purchase and an upgrade being paid, both refunded, the upgrade disputed; 3 purchases of 2 buyers over 2 numbers; a purchase refunded and made anew while its upgrade is applied | a payment whose refund for a void was taken stays void and buys nothing; a payment is voided only once a refund of it was taken or a dispute lost; no refund of a void in a dispute; nothing is left of a deleted account; orders follow their life cycle; at rest the badge is the membership's and disputed orders are listed; the number on a membership is claimed by one of its orders; a row is deleted only once its upgrades are Refunded or Voided | 875,840 |
| `cipher_liveness` | 1 order, 1 dispute, refunds that settle late or fail, crashes | paid orders settle, recorded disputes close, releases end | 46,218 |
| `payment_events` | 3 tasks, attempts cap 3 | a 200 means handled; a stored event settles or is given up | 89,415 |
| `prot_wallet` | 1 order of 2 Prot, 1 staff adjustment, 2 workers, account deletion, stalls at the credit | the wallet is the sum of its rows; what is refunded is clawed back; Prot in a deleted account's wallet is on its way out | 2,751,027 |
| `prot_founding` | 2 orders (purchase, upgrade or second purchase), 1 syncer, 1 Prot spent | the ledger is ahead of the membership only while a reversal is unfinished; nothing is clawed twice; a row that goes leaves nothing posted; a released number's Prot was unspent; a membership in good standing gets its Prot | 1,042,034 |
| `mls_call` | 3 devices of 2 users, 2 groups, 2 requests, ceiling 2, 2 epochs | the rows implement `MlsEpochLog`; a client that saw every commit is not told it is ahead; a commit that was not early is sent to the roster it was made against; two devices of a user come with one commit | 907,807 |
| `protected_text` | 2 users, 3 devices, 2 requests, caps 1 and 2, 3 lists, 2 epochs | who can decrypt is seated and listed, or owed a removal that can be made; a group is bound to the newest list; the cap holds; nobody is seated by a list older than their removal; only members are seated; no plaintext | 2,147,738 |
| `voice_state` | 2 connections in one channel, 1 in another, 1 lost webhook, removals, readers and the sweep | who is connected is recorded, listed and readable, and was announced; who is gone is on no roster unless a leave was lost | 1,482,523 |

Runs that are expected to fail state what a comment of the code says and show a
behaviour of the code that differs:

| Run | Comment | What happens |
|---|---|---|
| `cipher_upgrade_refund` | `engine.rs:32` no refund of ours while a dispute is open | the release looks at an upgrade without its lease, then refunds it |
| `prot_adjust_stranded` | `routes/admin/prot_adjust.rs:94` a deleted account never keeps a credit | the server dies between the credit and its second look; the nonce cannot be retried |
| `mls_early` | `routes/mls/commits_submit.rs:267` a Call commit goes to the roster before it | a commit sent one epoch ahead wins after the commit before it landed, and goes to the roster read before both; the Text path compares the epochs (`:565`) |

Each property of a passing run has a mutant: the model with one definition
changed the way a plausible bug would (the operators commented "Mutant"), which
the property catches.

**Bounds.** Two workers or requests are enough for every race between two handlers,
not for a history that takes three orders or requests; eight modules are therefore
also proved for any number of them (section 4). `MaxVersion`, `MaxEpoch` and the
like bound counters above what a run's histories need; in `cipher_liveness` high
enough never to be met. A run's `Courses` choose its histories: what was sold
before, which sessions are open, what may be refunded, whose refunds may settle
late, what may be disputed, deleted, fail, crash or stall (`CipherEngine`); which
connections are made, and whether readers and the sweep run, the user runs ahead of
their webhooks, or pipelines are interleaved (`VoiceState`). Between them the
passing runs take every action. In `cipher_orders` failures, deletion, dispute and
refunds meet three at a time: all at once is beyond the time of a run, and what is
claimed of stalled workers is proved. Two epochs let a commit be repaired after
another won, and one be early; three lists let a list go stale and land late; a
ceiling of two makes an admission fit only after a removal. Workers, requests, and
devices or connections that nothing tells apart are interchangeable; runs with
liveness use no symmetry. `CHECK_DEADLOCK FALSE` stands where the system may come to
rest: every request answered, every bound used up.

**Fairness.** `CipherEngine!LiveSpec`: a call that was made returns (weak fairness
of each worker's handler); a lease nobody gives back runs out; the sweep visits, at
every tick, each order it selects and is not kept from it for ever by a lease
(strong fairness of each of its four starts); Stripe ends disputes, settles a refund
one way or the other and does not refuse a refund for ever; crashes become rare. No
webhook is required to arrive. This is what crond's endless loop and the lease
timeout give; strong fairness is needed because a webhook handler may hold the lease
at every other tick. In `PaymentEvents` the same, with breaks that become rare. In
`ProtFounding` each syncer keeps running (weak fairness): the hourly sweep, for as
long as grants are on. Nothing fair is asked of orders or Stripe there.

## 4. What is proved

`OrderLeaseProofs`, for any set of workers, any lease length and any bounds, from
`LeaseAssumption` (the constants are numbers) only:

* `TypeCorrect`: `TypeOK` is inductive.
* `NoUpdateLost`, `OnlyOneWriter`. The filter compares state, version, lease and
  buyer, and yet the whole copy is current. That is not inductive alone: a copy
  may become acceptable later if the version ever came back. `FenceInv` adds that
  no copy is newer than the row (`CopyInv`: a copy with the row's version *is* the
  row but for the lease, which a release clears without a bump) and that no two
  active workers have the same version (`DistinctInv`).
* `Refinement`: from `FencedIsCurrent`, an accepted write is a `Change` of the
  stored order, and all other steps but the unlink leave it alone (`StoredStep`).
  `MoneyStaysRecorded`, `SettledOrdersStay` and `LostDisputesStay` (what
  `OrderLifecycle` promises) follow from the same lemma.
* `FreshLeasesLast`, `FreshReleaseHarmless`: under `FreshClock`. `TimeInv` ties a
  token to its worker's instant and keeps it stored until it has run out;
  `LatestInv` says the last worker to take the lease has the highest version and
  token.

`PaymentEventsProofs` proves `TypeCorrect` and `AckedMeansHandled` for any number
of tasks and any cap. `HandledInv` adds that a settled row, and a task about to
store a settled state, imply that the event was handled.

`MlsCallProofs`, for any devices, users, groups, number of requests, changes,
ceiling and bounds, from `MlsChanges`, `MlsNil` and `MlsBounds`: `TypeCorrect`,
`ClientNeverAhead`, `FanOutIsComplete`, `DevicesOfAUser` and `Implements` (the
refinement of `MlsEpochLog`). All follow from one inductive invariant, `Inv`,
about the groups the prune task has not chosen:

* `Unique`: one commit row for a group and epoch;
* `RowsOf`: the rows of a group are those of the epochs 1 up to its own, and at
  most one more, the winner whose effects are not on the group yet, which is
  legal against the roster the group has now. This is why a loser or a reader
  can finish the winner's work;
* `Decides`: a request that holds a reading of the group either holds the current
  roster or works against an epoch whose row is there already, so its insert
  will fail or its conditional write do nothing. Of a commit that was not `early` it
  also says that its epoch is at most one past the group's (`NeverAhead`), and that the
  roster the route read is that of its second reading (`FanOutComplete`). An early commit
  may win as well; the refinement and `OneDevicePerCommit` hold of it too.

Without `RowsOf` an insert could skip an epoch, without `Decides` a stale
request could apply a commit twice. The refinement maps a group to itself with
its pending row absorbed, so the abstract `Win` is the insert, and applying or
repairing is a stutter.

`ProtectedTextProofs`, for any finite set of users, any devices, requests, caps
and bounds, from `TextUsers`, `TextOwner`, `TextDevices`, `TextCaps` and
`TextBounds`: all seven safety properties of the run and `TypeOK`. A transaction
plans from a snapshot and is only sent back when a document it *writes* has
changed, so what has to be shown is that what it *read* still holds. `Inv` has

* of the documents: `Roster` (who can decrypt is seated and listed, or pending),
  `Listed` (seats and groups exist only under a list, which names and seats its
  owner), `Fitted`, `Struck`, `Orphans`;
* of each staged request: `Known`, what its plan contains and which facts of its
  snapshot are still true (for a list: that the seats it takes are of members and
  fit the cap; for a commit: that who it adds is seated and listed).

`Rely` is the write discipline of all transactions: who gives a seat writes list
and entitlement, who takes the seat of somebody in the group writes the group, who
changes the list of an open group writes the group, and so on. Each transaction
keeps to it, and under it each `Known` survives a write to other documents
(`*Stable`), so it can be used when the plan is applied (`*Applied`). A document
dropped from a plan breaks one of the two; the mutants of the run do that.

The two proofs that sum over sets (`ProtWalletProofs`, `ProtFoundingProofs`) begin
with the lemmas they need of it: the sum of a finite set does not depend on the order
and grows by the weight of an element added. The library's induction over finite sets
takes an operator, so it is replaced by a smallest counterexample: a set of subsets of
a finite set has a smallest member (`SmallestSubset`, from the library's
well-foundedness of the strict subset order; `CipherEngineProofs` has the lowest free
number from it).

`ProtWalletProofs`, for any finite set of orders, any workers, adjustments and
amounts, wherever workers may outlive their leases, from `WalletAmounts`,
`WalletOrders` and `WalletNone`: `TypeOK`, `DoubleEntry`, `RefundedIsClawed` and
`DeadWallet`. `Inv` ties a lease holder's copy to the row (`Leases`; it may only
have been unlinked since) and says of an order that owes its Prot that every step
which would end it without the Prot still lies behind one that claws it back
(`Debts`); `Works` says which state a worker's copy has at each call, also past
its lease. `DeadWallet` is not inductive: that a balance is on its way out says
nothing about *how much* is. `DeadInv` bounds the balance by the sum of the Prot
of the orders that are Paid and not clawed, unless somebody is about to look again
and forfeit it all; so the clawback of each such order brings the bound and the
balance down together.

`ProtFoundingProofs`, for any number of orders, tiers, syncs, any spending and any
amounts that do not fall from tier to tier (`FoundingProt`: catalog.rs:28,
`tier_prot`; with `FoundingBounds` and `FoundingNames`): `TypeOK`, `OverPosted`,
`NeverClawedTwice`, `PastSettled` and `ReleasedUnspent`. `Inv` has

* `RowInv`, `ListedInv`: a row was bought by its first order and upgraded by the
  others, and an order that is listed on an active row has no clawback;
* `PostedInv`: nothing is posted for a row that is gone (but for `cut` ones), nor
  for one whose own clawback has run; nothing is short for a released one;
* `SyncInv`, `ClawInv`, `ReadInv`: a reading of the row that is still current
  tells the amount that is missing or too much *now*. This is what the version
  check of the two transactions is for, and why a sync and a clawback, or two
  clawbacks, planned from the same row do not both post;
* `OverInv`: while more is posted than the tier brings, there is an order to blame
  (`Blame`), which is reversed, not clawed back, and not past the step that does
  it. `OverPosted` only says that some reversal is unfinished, which an unrelated
  order could be.

`CipherEngineProofs`, for any workers, users, orders, disputes, cap and courses,
from `CipherAssumption` and `CoursesAssumption` (what a behaviour may start from:
of each user a purchase and the upgrades on it, no more purchases than numbers):
`TypeOK`, `OrdersFollowLifecycle`, `VoidedRefundTaken`, `NoVoidRefundInDispute`,
`RefundIsFinal` (`RefundedStaysVoid`) and that an order has one fence
(`FenceExclusive`). All but `NoVoidRefundInDispute` also for workers that outlast
their leases.
`VoidedRefundTaken` says what `void_paid` can answer for: an order is Voided
only once Stripe took its refund, or a dispute of it was lost. That the money arrives is not proved and
not true (section 5).
None is inductive: what a worker writes was decided several calls before, from its
copy. `Inv` has

* of a worker's record alone, `Fine`: the call it makes next, and each call its
  badge sync, listing or reversal will return to, fits its copy (`Fits`: at
  `void_write`, say, the copy is Paid, and a refund of all of it was taken unless a
  lost dispute is on it). The operators between two calls preserve this (`Carries`, one
  lemma each), so an action's proof is only about the tables it changes;
* of a worker and the tables: `MineInv` (a copy with its fence is the stored
  order, and the only one), `Tied` (without stalls, the copy of a lease holder is
  the stored order but for the link), `OpenInv` (below), `UpInv` (an upgrade about
  to be refunded was paid), `CreateInv`;
* of an order, `Sound`: what is stored agrees with Stripe (a lost dispute on it
  is lost there; Voided and paid means a refund taken, or lost) and, while it is
  `Marked`, it stays Voided, Refunded or Paid with the void's reason. `Marked` is
  more than taken: a worker that lost its fence to another may still ask for
  the refund of the void its copy shows. Only the worker that put the reason on
  record takes it off again, when Stripe refuses the refund, and with its fence:
  `OpenInv` says that the order is not `Marked` then.

The shapes of step are proved once (`StepKeeps`, `StoreKeeps`, `PayKeeps`,
`StartKeeps`, `BareKeeps`, `MoneyKeeps`), and each action is one of them.

Of the membership rows it proves `NumberHeld` (`NumbersAreHeld`),
`RefundedNeverApplied` (`RefundsBuyNothing`) and `DeletedRowsRefunded`
(`RowsGoRefunded`), from a second invariant `Held` over the first. A row is changed by
whoever read it some calls ago, a number taken or put back by whoever looked for it, so
`Held` says what each of them still knows:

* `Claims`, of a worker within its lease: the number it has is its order's in
  `cipher_numbers`; at `rel_put` no row has that number any more (`Unheld`); and who
  has still to apply its order, or voids it, found it on no row. The order's lease keeps
  that true: only its holder puts it on a row. A recorded reason does too, since
  `apply_membership` is not reached with one;
* `Watched`, of a number release in its loop over the upgrades: each order of the row
  it read is still to be looked at, is waited for, or is settled, and settled orders
  stay settled (`Grows`), so at `rel_delete` all are. `Known` and `IntentInv` add that
  every order on a row was paid, or one could be passed over;
* `NumbersInv`, `HeldInv`, `BoughtInv`, of the tables: a number is a purchase's which
  has no other (so a rolled back upgrade never takes the number's order off its row),
  the number of a row is of one of its orders, no order on a row is void.

A compare-and-swap keeps this if the row it replaces is the one it read (`CasHeld`);
where it is another's, the user is in `crossed`. `Routed` says of a record to which calls
its listings and badge syncs return, `Calm` that a call needs nothing new.

`VoiceStateProofs`, for any connections, channels, removals, lost webhooks and
courses, from `RoomAssumption` (connections and channels are different things, each
connection has its channel) and `CoursesAssumption`: `TypeOK`, `NoGhost`,
`ConnectedIsSeen` and `ConnectedIsShown`. All three speak of a system at rest, and what
is true at rest is what no handler still has to do; so `Inv` says, of each state, who
still has to act:

* `RosterInv`: a channel on the roster is `Attended`. Some connection's leave is still
  to come (`Owing`), or one is running that will find every record of the channel
  (`Cleans`: it read them all, or is yet to read), or a leave was lost and no running
  one answers for it (`Haunted`, from the "ghost" entries of `lost` and the ones a leave
  has taken on, `owed`). At rest only the last is left, which is what `NoGhost` excepts;
* `ConnInv`, `KeysInv`, `LostInv`: what handlers know of connections stays true, the
  keys of the server are written and deleted together, a record outlives its
  connection only if its leave was given up;
* `SeatInv`: past its record a connection in the call stays recorded, past the roster
  write on the roster. A leave deletes only what its listing showed gone, and it read
  the records before the listing; that is why a sibling that joins in between is safe;
* `OneRoomInv`, `PointerInv`: a user who is not ahead of the webhooks has joins under
  way in one channel, and the server's keys are of that channel. Without this the late
  leave of the old channel would take the new one's state;
* `ShownInv`, `AnnouncedInv`: who is shown will be announced to have left; who is on
  the roster and not shown has the join whose `joined_at` the state carries still before
  its announcement.

Only model-checked: of `CipherEngine`, what holds at rest (`DisputesListed`,
`BadgeSettled`, `DeletedLeavesNothing`: they need, of every call of every handler, what
it will still list or show, which the invariants here do not follow); and all liveness
(`PaidSettles`, `DisputesClose`, `ReleaseEnds`, `EventSettles`, `GrantedAtLast`):
fairness and `ENABLED` are outside the prover. In all of these the numbers of section 3
are the limit of what was shown.

## 5. Remarks on the code

Met while modelling; the properties above are stated so that they hold, and say
where these are excepted.

*Payments.*
* The leases of a sweep are taken with the time its tick began
  (`payments_reconcile.rs:56`), so a late one is shorter than the LEASE_MS of
  `engine.rs:100`, or over at once, and two holders may share the token.
  `LeaseLasts` therefore needs `FreshClock`; nothing is lost (`NoLostUpdate`
  needs no clock).
* `engine.rs:2199` says a dispute opened during a release keeps the number
  retired; not once the membership row is deleted and the run stopped there.
* `engine.rs:24` says a refunded order is never applied; a worker past its lease
  still inserts the membership (`engine.rs:1522` is not fenced by the lease), so
  `RefundedNeverApplied` excepts courses with stalls (`RefundIsFinal`, about the
  order, does not).
* `dispatch.rs:208` says a settled row is not put back into the queue; check and
  write are two calls, and a slower attempt does so. The event is handled again.
* The compare-and-swap of a membership compares user and version only
  (`cipher_memberships/ops/mongodb.rs:107`), and an inserted row starts at version
  0 (`engine.rs:1518`). A handler that read a row which was since released and bought
  anew may therefore match the newer row and overwrite it with what it read, although
  `mongodb.rs:104` says it "cannot overwrite it" (an upgrade being applied while its
  purchase is refunded and made again; `cipher_orders` has that history). `crossed` has
  the users whose row was changed this way; the properties of rows except them.
* Two checkouts at once pass the advisory check for another live order
  (`engine.rs:675`). The re-drive cap (`dispatch.rs:1141`) ends in a given-up
  event by design.

* A refund that Stripe takes unsettled (`pending`) voids the order and may fail later;
  the order stays Voided, and the note at `engine.rs:372` leaves it to an operator who
  reads the log. A retry of the void may find the refund failed already and void the order
  all the same, since the repeated key gets the first answer; and one that finds
  `charge_already_refunded` for a refund still settling (`engine.rs:320`) does not log
  the line the operator is to look for.

*Prot.*
* A worker past its lease may credit an order that was voided or refunded
  meanwhile (`late`). A void by account deletion whose refund Stripe refuses,
  after the clawback, is resumed as Fulfilled without its Prot. An unlinked order
  refunded while the deletion is incomplete keeps its Prot until the retry.
* `prot/ops.rs:311` says an older incarnation's Prot "was settled when it was
  revoked". The revocation is one write and the clawback a later transaction: a
  purchase that replaces the row in between (`cut`) makes the clawback be refused
  (`ops.rs:386`). So is that of an upgrade created under an earlier incarnation
  and applied to a newer row (`skipped`), since its id is below the base.
* An order applied but not yet Fulfilled when its process dies, whose row is then
  replaced, is applied again when resumed. If that is an upgrade, the number
  release of the first row, which works from its earlier reading of the row
  (`engine.rs:2910`), may record it Refunded while its reversal on the second row
  is under way, so that its clawback there never runs. This takes three orders;
  the proof of `OverPosted` met it, the run with two could not (`skipped`).

*MLS.*
* A Call commit sent one epoch ahead, for which the epoch before lands between the
  route's reading of the group and the insert, wins and goes to the roster before both
  (`mls_early`). The device left out has to
  refetch the gap, as after a fan-out the Text path skips.
* One Call commit may add two devices of one user. A closed group may get one
  more winning commit. The prune task may take a week-old open group between an
  insert and its effects; the promise of `MlsEpochLog` ends there.
* A crash between the effects and the deletion of the intents leaves the intent
  of an admitted device; one between closing a superseded group and inserting the
  new one leaves the channel without an open group until the next create.

*Protected channels.*
* A request takes its time when it arrives, so it may reactivate a seat whose
  cooldown ended while it ran, past the cap (`overran`). A removal that dies
  before its second release leaves a seat without a member (`abandoned`). A
  message request that dies between insert and second look leaves a plaintext
  message ("stray"). The owner's seat is never released.

*Voice.* `ConnectedIsSeen` and `ConnectedIsShown` are of users who are not ahead
of their webhooks, without readers and sweeps in between. Outside of that:
* The comment at `reconcile.rs:288` says `create_voice_state` writes the `vc:`
  entry before `joined_at` and that re-fetching "fully closes the race". It is
  written last (`mod.rs:1198`), and the delete is a call after the re-fetch: a
  join in between loses its state.
* Roster repair (`mod.rs:2854`) and the ghost sweep are check-then-act on the
  whole user and may erase a join in between; a removal's teardown between the
  parts of the pipeline leaves a roster entry without a state.
* If the join webhook of the old channel is handled after that of the new one it
  takes the pointer, and its leave then deletes the new channel's state; going
  back before the leave is handled does the same.
* After a lost leave: a removal that tears down between a leave's script and its
  confirmation lets nobody publish the Leave (`mod.rs:13440` says the webhook
  does); the pointer may name the wrong channel.
* A Leave may reach clients after a newer Join ("overtaken"). A retried join
  refused after its state was written leaves a sibling unannounced. So does one over
  the cap, for a third connection: it comes after the listing of the removal that `api.rs:662`
  makes of the siblings, finds a state with another's `joined_at`, and keeps it.

## 6. Plan

1. Proofs of what `CipherEngine` has at rest (`DisputesListed`, `BadgeSettled`,
   `DeletedLeavesNothing`).
2. `settle_refunds` and `refund_settling_since`: the sweep that re-reads a pending
   refund whose events are lost (extends `CipherReverse`, `CipherEngine`).
3. Upload sessions (finish against prune), scheduled messages (claim and
   requeue), the envelope queue, rate limits and coalesced requests, each with an
   abstract specification.
4. Voice moves and their session records on top of `VoiceState`.

## 7. Not modelled

Most of the repository's lines are not a state machine of their own: tests
(inline in almost every source file; `voice/mod.rs` is mostly tests), HTTP
routes that validate and make one database call, model structs and generated
conversions, migrations, configuration, the Discord import and media tools, the
gateway's fan-out, parsers, permission arithmetic and game data. These are I/O or
pure functions with test tables of their own, and have nothing TLC would see that
a unit test does not. The models cover the handlers that interleave; they map to
a small share of the repository's lines for that reason.
