# Verification of kurskonverter (BTC Route Bot)

kurskonverter is a Telegram bot that tells a user what it costs in roubles to
have a given amount of BTC arrive at an outside address (or of US dollars at a
bank account), over several routes, from market data it refreshes in the
background. It makes no trades. This directory holds TLA+ models of the parts
where the program keeps state or reasons about money, the TLC configurations
that check them on small instances, and proofs of the main invariants for every
value of the constants.

Paths below are relative to `src/`. Run the tools in this directory:

    tlc -workers 2 -config MCPanels.cfg MCPanels
    tlapm PanelsProofs.tla

## 1. The system

| part | code | state | operations | talks to |
|---|---|---|---|---|
| Telegram front end | `internal/telegram` | striped user locks; per chat a menu panel with a revision | `Handle`, `callback`, `uiCallback`, `pendingInput`, `panel`, `newPanel`, `saveSetting`, `quote`, `usdQuote` | storage, market store, route engine, Telegram |
| Storage | `internal/storage` | SQLite tables `user_ui`, `user_preferences`, `users`, `provider_payments`, calculations; schema version | `UIState`, `SaveUI`, `SetPreference`, `SetPayment`, `Save`, `Load`, migrations | called by the front end |
| Market store | `internal/market/snapshot.go` | atomic pointer to the published snapshot, a mutex | `Read`, `Update` | refreshers write, handlers and `/ready` read |
| Refresh | `internal/market/updater.go`, `internal/app/workers.go` | one goroutine per source, statistics | `Run`, `Fetch` of each worker | providers, market store |
| Readiness | `internal/app/health.go` | flags set by the lifecycle | `/health`, `/ready` | market store, storage; asked by Docker and `deploy.sh` |
| Providers | `internal/provider/*` | names of exchange offices (BestChange) | requests, retries, pagination, decoding | the venues' APIs |
| Money | `internal/money`, `internal/domain` | none | `CeilRatio`, `CalculateBuyCost`, `SellForQuote`, `SelectP2P` | called by the route engine |
| Route engine | `internal/route` | none between calls | `Engine.Calculate`, `Path.Calculate`, `Backward` of each step, `CalculateUSD` | reads one snapshot |
| Lifecycle | `cmd/bot/main.go` | an error group, two readiness flags | start, joint shutdown | all of the above |
| Deployment | `deploy/deploy.sh` | files `current-image`, `previous-image`, a file lock, the container | deploy, rollback | Docker, `/ready` |

An update from Telegram enters a queue of 64, one of two workers takes it, locks
its user's stripe and runs a handler with a deadline of 15 seconds. The handler
reads and writes rows of SQLite, reads a copy of the market, calculates, and
edits or sends messages. Refreshers replace parts of the market independently.

Where it is hard:

* **Front end.** Two workers, updates delivered again after a restart, a panel
  whose database row and whose message in the chat are changed by separate calls
  that fail separately, buttons that stay on screen for ever, inputs that time
  out. Right means: no button acts on a screen it was not drawn for, no typed
  text goes to the wrong setting, revisions never go back, a command's menu shows
  up below the command, and every handler ends.
* **Market store.** Copy-on-write that is done by hand. Right means: updates are
  not lost, a reader sees one moment, and no caller can change what others see.
* **Route engine and money.** Backward computation with a rounding at every
  step. Right means: who follows the quote step by step gets at least the target,
  pays nothing in vain, and is told of every fallback fee.
* **Deployment.** A script with a rollback, each command of which may fail or be
  killed. Right means: files name images that worked, success means served,
  failure means restored.
* **Refresh and providers.** Retries and their waits inside one deadline, pages
  read one after another while advertisements move between them, results and
  failures that reach the market with an age. Right means: nothing is counted
  twice, nothing that stood on the list is missed, a calculation uses no data the
  provider gave up long ago, and a source comes back when its provider does.
* **Storage and lifecycle.** Transactions on one connection, cut off by a
  deadline, a stop or a crash; migrations by binaries of several versions; three
  goroutines that stop together. Right means: the schema is whole, the history
  has the last calculations of everyone, a button shows what it was sent with,
  "ready" is true when it is said, and no half of the process lives on.

`PROJECT.json` lists all components, modelled or not, and the hazards at their
lines with the properties that watch them.

## 2. Modules

| module | models | role |
|---|---|---|
| `Panels` | `internal/telegram` with `internal/storage/preferences.go` | state machine |
| `MCPanels` | | values for TLC |
| `PanelsProofs` | | theorems about `Panels` |
| `AtomicMarket` | what the market store promises | abstract specification |
| `MarketStore` | `internal/market/snapshot.go` and its callers | state machine, implements `AtomicMarket` |
| `MCMarketStore`, `MarketStoreProofs` | | values for TLC; theorems about `MarketStore` |
| `Deploy` | `deploy/deploy.sh` | state machine |
| `MCDeploy`, `DeployProofs` | | values for TLC; theorems about `Deploy` |
| `Money` | `internal/money`, parts of `internal/domain` | operators |
| `Route` | `internal/route/calculator.go` | state machine over `Money` |
| `Usd` | `internal/route/usd.go` | `Route` extended by the calculation for dollars |
| `MCRoute` | | markets for TLC |
| `MoneyProofs`, `RouteProofs`, `UsdProofs` | | lemmas about `Money`; theorems about `Route` and `Usd` |
| `Fetch` | `internal/provider/httpclient`, pagination in `bybit/p2p.go` and `wallet/client.go` | one fetch and the provider it asks |
| `Refresh` | `internal/market/updater.go`, `internal/app/workers.go` | `Fetch` in the loop of a refresher, the entry of the market |
| `MCRefresh`, `RefreshProofs` | | values for TLC; theorems about `Refresh` |
| `Storage` | `internal/storage/sqlite.go`, migrations | transactions, migrations, history |
| `Service` | `cmd/bot/main.go`, `internal/app/health.go`, saving in `internal/telegram` | the process over `Storage` |
| `MCService`, `ServiceProofs` | | values for TLC; theorems about `Service` |

### Panels

`ui[u]` is the user's row of `user_ui` (state, panel message, revision, time of
the last save); `settings` the stored choices; `chat[u]` the messages the user
sees, panels carrying the revision in their buttons; `queue`, `lock` and `job`
the updates, `userLocks` and the two workers. `wrote` is history only.

A handler is a script of steps. `job[w].todo` is the step it is in, `then` the
step to come after it. Each storage or Telegram call is one action, and each
has a branch that answers and one that fails (`Answers`, `Fails`). `Expire` is
the end of the 15 seconds, after which every call fails. `panel` is the actions
`OpenPanel` (read and change the row), `SaveUI`, `EditPanel`, `SendPanel`,
`KeepPanel`; a Telegram call that failed may have taken effect. Several reads in
a row that change nothing are one action. A screen is named by its kind; its
text is left out, and so are page numbers of the list of banks. What a user
typed is a number, a word, or an amount that names its currency.

`Press` may press any button still to be seen in the chat, of the newest panel
or an old one, or of a message from an earlier version of the bot (`Legacy`).
`Crash` ends all handlers. The bot library confirms updates to Telegram when it
asks for more, so after a restart the updates that were cut short, and those in
the queue, may come again, or all but a suffix is lost. A handler that had ended
may run once more too; that is the same as the user repeating the update, which
the user's actions include.

A chat starts empty, with a message of an earlier version, or at a panel drawn at
revision 4: by then any screen can be open, and this saves TLC the way there.

### MarketStore and AtomicMarket

An entry of a snapshot (a book, a list of offers, a fee) refers to a memory cell
for its slices; a list of P2P offers has a second cell for the offers' country
lists, which `clone` does not copy. `CopyEntry` copies one entry, so that all
interleavings of copying, publishing and writing are there. `Read` is `ReadLoad`,
`CopyEntry`, `ReadReturn`; `Update` is `Lock`, `CopyEntry`, `ToApply`, `Apply`,
`ToSeal`, `CopyEntry`, `Store`, `Unlock`. `Scribble` lets every caller write into
the slices it owns. Unreachable cells are freed, so names of cells can be reused;
the memory has content for the cells in use and for no other. A cell's name says
who allocated it and for which entry, so that equal situations are equal states.

`AtomicMarket` has no copies and no mutex: `Publish` changes the market in one
step, only where the refresher has news; `Observe` gives a reader the whole
market of one moment. `Atomic` says that `MarketStore` implements it: the market
is the content of the published snapshot, and a reader's view is what is already
copied, completed by what the snapshot it loaded says.

### Deploy

`service` is the image the container runs, `current` and `previous` the two
files (empty is `None`), `job[d].pc` the command a process is at. A write with
`>` is two actions, since the shell empties the file first; the write to
`current-image` after success goes through a rename and is one. A `compose up`
that fails or is cut may have replaced the container or removed it. `Kill` ends
the process anywhere and frees the file lock, as the kernel does.

### Money and Route

Amounts and prices are whole numbers of a small unit, rates are parts of `One`;
the code uses decimals of any precision and no division that rounds in the
calculations modelled, so nothing but the unit is lost. `Route` takes one market,
target and filter and performs `Engine.Calculate`: routes in turn, a path's steps
one action each (`Backward`), then the P2P purchase. Between any two steps the
caller's context may be done. Data that are disabled, stale or not there are
`Missing`. The percentage differences between quotes and the texts of
warnings are left out.

`Usd` asks, when the routes are done, for the target as dollars: `Consider` takes
one advertisement for dollars after another, with the cheapest purchase of the
USDT it needs, and keeps the best pair. It sees the market as the routes do.

As in the code, a quote keeps the advertisement it is bought from, and a pair both of
its advertisements; here by their place in the market's lists. The properties look them
up there, not in what the code has filtered: `NeverShort` and `UsdCovered` ask that one
order within limits and reserve is enough (`InOneOrder`), `FallbacksMarked` and `UsdCovered` that
a fallback fee is marked and excluded on demand, be it of a step, of the advertisement
of a path (the explicit 0% of the settings) or of either side of a pair.

`Yields` and `Fills` say what a venue makes of an amount. They are not taken from
the code: an order is filled in the best of all ways, and coins move in whole
steps. The properties compare quotes with them. `Least` and `Pairs` do the same
for dollars: they try every amount of USDT instead of rounding.

### Fetch and Refresh

`listed` is what the provider lists; `Appear`, `Vanish` and `Reprice` change it at
any time. `job` is the fetch: `asking` while a request is under way, `waiting`
while `httpclient.Read` pauses between attempts, with `left` until the request
times out or the pause ends, and `spent` until the deadline of 12 s. `GetPage` is
an answer with a page and the verdict of `GetOffers` on it; `Busy` an answer 429 or
5xx with or without Retry-After; `Broken` anything final. `GetOne` stands for the
sources of a single request: fees, books, instruments. Clients of several requests
(Bybit's instruments, OKX's fees) are one request that succeeds or fails as a whole.

`Refresh` adds the ticker (whose channel holds one tick), the publication with
its date (a P2P list is dated when it is published, a book bears its provider's
date, up to `Ahead` in the future) and what a failure does to the old entry
(`AfterError`). Time is discrete and relative; nothing urgent is overtaken by it.
`Settle` is the moment from which the provider behaves, used by `Recovers` only.
`slid`, `stayed` and `gone` are history.

### Storage and Service

`disk` is what is committed, `tx` the open transaction with its copy. There is one
connection, so `BeginTx` needs `tx = None`. `Service` takes the process from `Start`
through migrations (`Skip`, `Migrate`, `RecordVersion`, `CommitSchema`), the first
call to Telegram (`Launch`) and the goroutines of the errgroup (`Runs`, and an end
for each) to `Exit`. `StartFails`, `ServerFails`, `Signal` and `Crash` may come
anywhere; after them the container starts the same binary or that of another
version. Each statement of `Save` is one action, and the deadline, a failing call
or the stop can cut it off between any two (`SaveFails`). `Request` and `Check` are
`/ready`: the flags are read one after another while everything else goes on.

## 3. What the runs show

| run | bounds | shows |
|---|---|---|
| `panels` | 1 user, 2 workers, 2 updates, 1 fault, 1 crash, 4 starts | type; `ButtonsNeverAhead`, `OneScreenPerRevision`, `PressIsCurrent`, `TypedIntoOpenInput`, `MenuBelowCommand`, `RevisionsGrow` |
| `panels_calm` | 3 updates, time passes, no faults | `StaleButtonsKeepNewerValues` when settings are changed by buttons and inputs only |
| `panels_live` | 2 users on one lock, 1 fault | `HandlersEnd`, `EverythingHandled` |
| `panels_stale` | a bank panel and `/settings <p>` | finding 1 |
| `store` | 2 refreshers, 1 reader, 3 updates | type, `SlicesOwned`, `Atomic` (refinement), `ReadsEnd` |
| `store_alias` | the demo worker | finding 2 |
| `deploy` | 2 processes, 3 images, 4 deployments, 2 faults, 2 kills | type, `FilesAreProven`, `SuccessIsServed`, `FailureRestores`, `PullBeforeService`, `DeploymentsEnd` |
| `deploy_order` | the same | finding 3 |
| `route` | 144 markets of the direct path, 144 of the long one, 64 for dollars | type, `NeverShort`, `NothingToSpare`, `ThinForReal`, `FallbacksMarked`, `UsdCovered`, `UsdCheapest` |
| `refresh` | 4 advertisements, pages of 2, 3 attempts, 1 change of the list, deadline 3, ticks every 2 | type, `NoAdTwice`, `WholeUnlessSlid`, `NoGhosts`, `FeesConfirmed`, `Recovers` |
| `refresh_partial` | the same, Bybit | finding 4 |
| `service` | 2 users, 2 workers, 2 migrations, binaries of 2 versions, 2 calculations of which 1 is kept, 2 faults | type, `SchemaWhole`, `LastOnesKept`, `ShowsWhatWasAsked`, `ReadyIsEarned`, `StartsAgain`, `NeverHalfAlive` |

Why the bounds suffice. *Panels*: a violation needs one update that changes the
row and one that was made before it, on two workers; starting in the middle of a
conversation supplies the first half, so two updates with a fault and a crash
meet in every order. Settings are alike but for `rate`, whose input has no
buttons, so two kinds, one platform and one value tell all branches apart.
*MarketStore*: a lost update needs two refreshers, a torn read one reader and an
update of two entries or two updates; cells are reused, so memory is no bound.
*Deploy*: one good deployment, one that fails, one killed and one after it; the
fault and the kill can hit any command. *Route*: prices, amounts, lots and fees
are small but co-prime often enough that every rounding has remainders and none;
thin books, limits, missing data and refusals all occur, and so do cheapest advertisements
that are restricted, sold out by the lot, on the wrong side or with a fallback fee. *Refresh*: two pages are
needed for a row to slide over a border, and one change makes it slide; the
numbers are in the order of the real ones (a pause may be longer than what is
left of the deadline, a request may not, a fetch may be longer than the interval,
the time to live spans two fetches). *Service*: a crash and a failure, or two
crashes, meet every step of a start and of a saving; one migration can be applied
twice and one cannot; with one calculation kept, the second of a user removes the
first. The theorems of section 6 lift these bounds.

Symmetry is used for the two workers in `panels` only (a safety run).
`CHECK_DEADLOCK FALSE` is given where the system may stop: users that send no
more updates, deployments that are over, a calculation that has ended.

## 4. Fairness

* `Panels`: weak fairness of each worker's next step, as storage and Telegram
  calls return within the handler's 15 seconds, and strong fairness of taking
  the lock, as a Go mutex hands itself over to a waiter that waits for more than
  a millisecond. Users need not do anything.
* `MarketStore`: weak fairness of readers only. `ReadsEnd` holds although a
  refresher may stop for ever with the mutex in its hands.
* `Refresh`: weak fairness of time, of the client (it gets an answer or its time
  is over), of beginning a fetch that is due, and of what follows it. The provider
  need not do anything: `Recovers` assumes by its left side that it has settled.
* `Service`: weak fairness of the process's own steps (the container is restarted,
  goroutines are scheduled, `Shutdown` ends), of each worker's next call and of
  the probe. Faults and signals are not fair, and `MaxFaults` ends them.
* `Deploy`: weak fairness of each process's next command. Readiness probes end
  after 24 tries. Kills and faults are not fair.

## 5. Findings

1. *Outdated buttons.* README.md:13 says that outdated buttons do not overwrite
   newer values. `/settings <p>` stores a payment method and clears the choices
   per platform without a new panel. The revision does not change, so a bank button
   drawn before the command is still accepted and overwrites what the command
   stored (`internal/telegram/bot.go:131`). Run `panels_stale`; `panels_calm`
   shows that without this command the sentence holds.
2. *Owned copies.* The comment in `internal/market/snapshot.go:12-13` says that
   readers and writers get owned copies; the country lists of P2P offers are
   shared by all of them. Nothing writes to them today. Run `store_alias`.
3. *Order of the deployment.* README.md:175 has the pull before the save of
   `previous-image`; the script saves first. After a failed pull both files name
   the image in service and the rollback by hand has lost its target. Run
   `deploy_order`.
4. *Partial lists.* BYBIT_SETUP.md:43 says that incomplete pagination is an error
   and a partial list is not passed off as the whole market. The end is found by
   counting rows. If an advertisement of an earlier page vanishes or gets another
   place between two requests, the one that slides over the border of the pages is
   in neither answer while the rows still add up (`internal/provider/bybit/p2p.go:85`).
   Run `refresh_partial`; `WholeUnlessSlid` says that this is the only way.

Observed and not counted as findings. `deploy.sh:34` writes `current-image` in
place during a rollback; cut there, the next failed deployment believes it is the
first and stops the bot (`FailureRestores` is stated relative to the record for
this reason). `deploy.sh:57` makes a deployment that is in service exit with a
failure when the image has no commit label. `newPanel` stamps the row, so that
any command prolongs an open input by another 30 minutes. The age of P2P
offers counts from the end of the refresh, so what a calculation uses may have
left the provider's list a time to live and a fetch (12 s) before. A book that
its provider dated beyond the tolerated second is refused now and used later, when
its date has come, if refreshes fail meanwhile; it lives longer by the difference
(`NoGhosts` allows for it). A Retry-After longer than 10 s ends the attempt but not
the next tick, which asks again. README:112 says that a failed refresh keeps the
old data; fees and instruments are deleted, as ROUTES_SETUP.md:16 says. README:114
excludes dates in the future; the code allows one second. `CalculateUSD` sells the
least amount that covers the request and does not look for a greater one when an
advertisement's minimum would need it; `UsdCheapest` judges by the same rule.

## 6. What is proved

All proofs are checked by TLAPS for arbitrary constants that satisfy the
module's `ASSUME`: any number of users, workers, stripes, settings, images,
processes, and any bounds.

`PanelsProofs`. The assumption used is `PanelsAssumption`: `SlotOf` maps users to
stripes, `Nobody` is neither worker nor user, and the names of screens are
distinct where they must be. None of the safety properties is inductive. What a
press may do depends on the lock being held from the check to the write
(`HoldsLock`); that the revision saved is new depends on the handler's copy of the
row being the stored row (`CopyIsFresh`), which needs the lock again; that two
panels of one revision agree depends on the panel in flight being the only
screen with its revision (`DrawnAlone`); and that presses lead to buttons'
steps and not to a command's (`PressesAreButtons`) is needed for the write to
come right after the check. `PanelsInv` is the conjunction. It is
initially true, each action preserves it (one lemma per action), and the theorems
`TypeCorrect`, `NeverAhead`, `OneScreen`, `CheckHolds` follow, and
`RevisionsOnlyGrow` from the invariant and the next-state relation. Since `Crash`
and the failing branches are part of `Next`, the theorems cover them.

Three properties are about a whole script and not about a row, and `PanelsInv` says
nothing of scripts. `FollowInv` does: the updates in the queue ask for what their kind
may ask for and were sent below messages there are (`Planned`), and a handler's next two
steps are among those its update leads to (`Faithful`). It gives `TypedGoesToOpenInput`:
a text comes to a `set` only out of `PendingInput`, by the row as it is, and no one
changes the row in between, since all others work for other users (`OthersUndisturbed`).
`MenuAhead` is the part for commands: while no call has failed, the row forgets its
panel before the panel step reads it, hence the panel is sent and not edited, its id is
above the command's and the row that is kept has the revision drawn; `MenuComesBelow`
follows. A failure is a failure of any handler (`faults`), as in the property.
`OutdatedButtonsWait` needs `OutdatedInv`: what is stored was stored under a revision
older than the row's, or its handler is about to take the next. It is stated under the
conditions that the code needs: no `/settings <payment>` among the commands (`NoPay`,
finding 1 is what happens otherwise), and neither a failed call nor a crash so far, since
either may fall between `SaveSetting` and the saving of the next revision. Runs `panels` and
`panels_calm` were used to check `FollowInv` and `OutdatedInv` before they were proved.

`DeployProofs`. From `DeployAssumption`. The invariant `DeployInv` adds `Progress`: for
each command, what is in service and on record when a process has come that far.
With the mutual exclusion in `TypeOK` (a process that is not idle has the lock)
it is inductive. `OnlyProvenImages`, `SuccessMeansServed`, `FailureRolledBack` and
`PullComesFirst` follow.

`MarketStoreProofs`. From `StoreAssumption`; for any goroutines, entries, values
and updates. `TypeCorrect` needs `Stages`: what a goroutine has in its hands at
each stage, and that an entry that is there has a cell named after it. `SlicesAreOwned`
needs more than the ownership it states: a copy under way must share nothing with
any other copy, finished or not, nor with what the others copy from, because it
will be owned or published later. `Apart` says so; what two goroutines copy from
they may share only while both copy the published snapshot. `StoreIsAtomic`, the
refinement, adds `Progresses`: while a refresher clones, what it has copied and
what it has yet to copy together say what the market says; after its caller's
function they say so but for the entries it has news of. This is preserved since
no step but `Scribble` changes the content of a cell in use (`Kept`), `Scribble`
writes to a cell that is `Apart` from all others, and the mutex keeps others from
publishing. `Store` maps to `Publish`, `ReadLoad` to `Observe`, a reader's
`Scribble` to `Alter`, `Drop` to `Forget`, and all else to a stutter.

`RefreshProofs`. From `FetchAssumption` and `RefreshAssumption`; for any lists,
page sizes, pauses, deadlines, intervals and times to live. `TypeCorrect` says among
other things that no fetch outlives its deadline; it needs `AttemptLeft` (who waits
has another attempt). `AdsAreTakenOnce` rests on `TakenSeen` (what was taken was
seen, in a row already read), `FeesAreConfirmed` on the ages of a fee during and
between fetches (`FeeAges`), `NothingOutlivesItsTime` on how long ago each
advertisement in hand was seen (`Recent`), and `NothingStayingIsMissed` on `ReadPart`: unless
something slid, what has stayed is seen or stands in a part not read yet.

`ServiceProofs`. From `StorageAssumption` and `ServiceAssumption`; for any users,
workers, versions, migrations and numbers kept. All rest on `Control`: who is inside
a transaction owns the open one, and nothing runs in a process that is not up.
`SchemaIsWhole` adds what a start has done of the schema (`Schema`), `ReadinessIsEarned`
which flags are still to be read by a probe that should not succeed (`Earned`).
`HistoryIsKept` and `ButtonsShowTheirOwn` rest on `HistoryInv`: what the open
transaction of a worker has of the history after each statement (`Written`), and
that the file has the last of what was ever committed, under ids that are not given
out again once committed (`Past`). That deleting what `Keep` newer ones follow from
a trimmed history with one row more gives what deleting from the untrimmed one
would is the lemma `TrimKeepsLast`, about cardinalities.

`MoneyProofs`, `RouteProofs`, `UsdProofs`. From `MoneyAssumption`, `RouteAssumption` and
`UsdAssumption`; for any markets, targets, filters, units and any length of books and
lists. `RouteAssumption` says what the providers let through: the amount asked for is
positive (`internal/route/calculator.go:28`), levels of a book are positive
(`internal/provider/httpclient/book.go:12-29`), and all other numbers (fees, limits,
precisions, offers) are integers of any sign and size, since the code checks them where
it uses them. `UsdAssumption` adds a positive cent.

The properties compare two definitions of different kinds: what the code computes by
sorting a book and folding over it, and `Yields`, a maximum over all ways to fill an
order. Neither is a formula over numbers, so `MoneyProofs` first establishes what they
are:

* `SumUnfolds`, `ArrangementExists`, `FoldLeftExists`: sums over functions and folds over
  sequences obey their recursion, and a finite list can be put in order. The library's
  induction theorems take an operator as parameter and cannot be cited; the same facts
  follow first-order, from the least number of a set of naturals (`WFMin`) and from the
  recursive function that `MapThenFoldSet` is. This gives induction for each fact by itself.
* The code's walk through a sorted book is a *greedy* fill (`WalkIsGreedy`): whole levels,
  then part of one. A greedy fill of the cheapest asks costs no more, and one of the
  dearest bids earns no less, than any fill of the same amount; the proof compares two
  fills at the price of the level where the greedy one ends and sums the differences. That
  the sums do not depend on the order of the levels makes it a fact about the book as it
  came (`FillsRearranged`).
* `CeilRatio` is the least multiple of the step not below the quotient, and so is what
  `SellForQuote` finds in the first level that reaches the target.

`RouteProofs` shows for each kind of step that the input it asks for is `Exact`: it yields
the output, and one unit less does not (`StepIsExact`); a step that fails for lack of
depth yields too little when it is given the whole book. The inductive invariant `RouteInv` says
that this is so for each step taken so far of the path under way (`CalcInv`), for every quote
(`QuotesInv`) and every refusal (`RefusedInv`), that the mark of a fallback fee is set when one was
used so far or by the advertisement bought from, which covers the amount (`Bought`), and that each route is quoted or refused once when its turn is over
(`OnceInv`). `Rank` only rearranges the quotes. All five invariants of `Route` follow.

`UsdProofs` adds `Considered`: the best pair so far is a pair by the reference definition,
covered by an advertisement on each side, with the marks of both (`Good`),
and no pair with an advertisement already considered is cheaper. The amount the code
rounds to is the least that brings the dollars (`NeededIs`), and what `SelectP2P` chooses is
the cheapest offer that covers it (`ChosenIsCheapest`). With all advertisements considered,
`UsdIsCovered` and `UsdIsCheapest` follow; `RoutesHoldAlongside` carries the theorems on routes
over to the specification TLC runs.

## 7. What is only model-checked

* Liveness (`HandlersEnd`, `EverythingHandled`, `ReadsEnd`, `DeploymentsEnd`,
  `Recovers`, `StartsAgain`, `NeverHalfAlive`): fairness and ENABLED are out of the
  prover's reach.
* `Recovers` and the other eventualities apart, every property of a passing run has its
  theorem; `StaleButtonsKeepNewerValues` has it under the conditions of run `panels_calm`.

No module here declares a RECURSIVE operator, so that all stay open to proof.

## 8. Plan

Done, in this order: `Panels` with its proofs, `MarketStore` against
`AtomicMarket`, `Deploy` with its proofs, `Money` and `Route`; then `Fetch` and
`Refresh`, `Storage` and `Service`, `Usd`, and the proofs of `MarketStore` (with the
refinement), `Refresh`, `Service`, `Route` and `Usd`. To come:

1. `Recovers` with several requests per fetch, to see by how much they narrow the
   margin between the retries and the deadline.

## 9. Not modelled

Wording and layout of messages (`formatter.go`), parsing of amounts and
countries beyond accepted or not, signing of requests, decoding of the venues'
answers, configuration, demo data, command-line diagnostics, the SSH wrappers
around `deploy.sh` and the CI workflows: they keep no state, or only translate.
The percentage differences of ranked quotes are left out, and so are the statistics
shown by `/metrics`, which nothing reads back, the names of offices that the
BestChange client keeps, and the lists of venues it merges. Bybit's count of
advertisements is taken to be true. The 10 s of the server's shutdown are not
reached by the requests there are: `/ready` ends within one. Messages of group
chats, which the handler ignores, are not sent in the model.
