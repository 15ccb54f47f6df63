# Verification of k12edu-backend

TLA+ models of the Go service under `src/`, the TLC runs that check them on small
instances, and proofs, checked by TLAPS, of what holds for every instance. Paths below are
relative to `src/`; `internal/` is left off where it is clear.

## 1. The system

One Gin process (`cmd/api/main.go`, `httpapi/router.go`) serves a local-first learning
app on several devices per user. State lives in PostgreSQL (`db/db.go`), in Redis if it is
configured, in a store for file contents (disk or S3), and, for the AI gateway, in the
memory of the process. Every request has a goroutine of its own; almost every handler runs
its SQL statements one by one **without a transaction** (the exceptions: the transaction of
`HardDelete`, which holds a single statement), so the unit of interleaving everywhere
is the statement. A client that goes away cancels only the call to the AI provider, the one place
that uses the request's own context (gin 1.10 does not pass its cancellation on); the statements of its handler
go on. Any statement may fail, and the process may stop anywhere.

| Component | State | Operations | What makes it correct |
|---|---|---|---|
| Progress document (`sync/handlers.go` 227-267) | a row per user with a version | PutProgress, GetProgress | whoever overwrites has merged what is there, but for requests without a version; conflicts are resolvable |
| Event log (`sync/handlers.go` 87-225) | `sync_events`, `archived_at` | Events, ArchiveEvents, CompactEvents, ReplayEvents | a polling device gets every event; compaction loses none, with named exceptions; replay recovers the rest |
| Devices and cursors (37-85, 269-311) | `devices`, `sync_cursors` | RegisterDevice, Acknowledge, AppendEvents' batches | accepted events are stored; retries do not duplicate; erasure is final |
| Merge (`sync/merge.go`) | none | three-way merge of JSON | increments, items and tombstones survive, devices come to agree |
| Chat billing (`ai/handler.go` 79-112, 238-331; `admin/handlers.go` 233-364) | `ai_policies`, `ai_wallets`, `ai_ledger`, `ai_usage`, plans | checks before the call, settlement after it, CreditAI, UpsertPlan, AssignPlan | bounds on overdraft and overshoot, quotas, books that agree |
| AI gateway (`ai/handler.go` 182-293) | Redis counter, `Handler.recent`, breaker fields | rate limit, retries, circuit breaker | bounded rate, nobody locked out, breaker closes when provider and clients stay |
| AI safety (`ai/handler.go` 52-69, 113-180; `admin/handlers.go` 258-300) | `ai_safety_events` | filter, redaction, appeal, review, purge | open events come before a reviewer; appeals are decided; reviewers can be erased |
| Accounts and sessions (`auth/`) | `users`, `account_tokens`, `auth_sessions` | register, login, lockout, Apple, refresh, passwords, deletion | bounded guesses, a way to log in, deletion is final |
| File store (`httpapi/storage_handlers.go`, `storage/`) | `user_files` and contents | Upload, Delete, HardDelete | rows and contents agree, deletions finish |
| Content and cache (`content/handlers.go`) | `content_items`, Redis answers | Published, Create, Update, Delete | the cache catches up |
| Administration (`admin/handlers.go`, `auth/handlers.go` 300-316) | roles, permissions, tokens, `audit_logs`, all of the above | grants, SetRole, SetDisabled, reviews, reports | authority lapses and is not regained alone |
| Maintenance (`db/maintenance.go`) | none of its own | PurgeExpired | removes only what is over |
| Plumbing (router, config, mail, metrics, admin page, scripts) | none that matters | | |

**Interactions.** Chat passes the gateway (rate, breaker), then billing's checks and the safety
filter, then calls the provider, and settles. Administrators write the same wallet, plan and user
rows that requests read. Deleting a user row cascades to every other table, except that a review of another's safety event
forbids it, and that audit records stay; `HardDelete`
removes file contents before it. `DeleteAccount` changes the user and then the sessions.
Content writers invalidate what content readers cache. Requests of one user from several
devices meet only in the database.

**What is hard.** Checks that are stale when acted on (quota, balance, cost, lockout,
unlinking), sequences of statements that fail half way (settlement, compaction, deletion, file
store), lost answers and retries (progress, event batches), late commits against cursors (event log),
races of cache fills and invalidations, late outcomes against the breaker, claims in tokens that
outlive the rows they were made from, rows that push others off a page or out of retention. PROJECT.json lists
each hazard with its line and the properties it is caught by, or why none does.

**The committed source does not compile in three places**: `ai/handler.go` 304-310 (the type
`usage` has the name of the field that is decoded into it), `storage/s3.go` 38 (`GetObject`
returns two values), `httpapi/storage_handlers.go` 51 (an `io.NopCloser` assigned to a
`multipart.File`). The models follow the evident intent; none of the three lines changes state.

## 2. Modules

Time, where it matters, is a clock or an age that a `Tick` advances; a request is a
handler slot with a program counter, one action per statement. "Faults" is a bounded number
of failed statements, lost answers, failed commands and crashes. History variables
(marked so in the declarations) record what happened and are never read by a guard.

| Module | Models | Refines / used by |
|---|---|---|
| `SharedDocument` | what the progress store promises: a document that grows, except when the draft of a device that took it for empty replaces it | abstract |
| `Progress` | PutProgress (UPSERT, then SELECT for a 409), GetProgress, and the devices' retry loop | refines `SharedDocument` |
| `ProgressRow` | the row and the devices' copies | shared by `Progress` and `MergedProgress` |
| `ProgressProofs` | proofs about `Progress`, `Merge` and `MergedProgress` | |
| `Merge` | mergeField, mergeWithTimestamps and their helpers as functions of JSON values | used by `MergedProgress` |
| `MergedProgress` | devices that change one document, store it and merge; a request is one step | |
| `EventLog` | inserts (start and commit apart), Events' paging, ReplayEvents, ArchiveEvents, CompactEvents in its three statements | |
| `EventLogProofs` | proofs about it | |
| `EventIntake` | RegisterDevice, AppendEvents event by event, the app's queue and retries, other accounts and erasure | feeds `EventLog` |
| `EventIntakeProofs` | proofs about it | |
| `ChatBilling` | withinBalance, admit, withinCostLimit, the call, the five settlement statements, CreditAI, plans, months | |
| `Administration` | one account's role, permissions, session and tokens: Login, Refresh, the checks of the admin routes, SetRole, SetDisabled, grants | shares rows with `Accounts` |
| `AdministrationProofs` | proofs about it | |
| `Moderation` | safety events from insertion to purge: list, review, appeal, and the erasure of authors and reviewers | |
| `Accounts` | one account: all of `auth/service.go` that changes its row, tokens and sessions, and SetDisabled | |
| `AccountsProofs` | proofs about it | |
| `Gateway` | `allowed` with INCR, EXPIRE and the list in memory, and the breaker | |
| `ChatBillingProofs` | proofs about `ChatBilling` and `Gateway`, the two halves of Chat | |
| `FoldTheorems` | lemmas: what sums over finite sets of numbers add up to | used by `ChatBillingProofs`, `ProgressProofs` |
| `FileStore` | Upload, Delete and HardDelete on rows and contents, on both drivers | |
| `ContentCache` | Published with its cache, and the writers' InvalidateAll | |
| `StorageProofs` | proofs about `FileStore` and `ContentCache` | |

`MC<Module>` instantiates `<Module>` for TLC. Definitions such as `AdmittedOffByOne` next to
`Admitted` are what a slip in the code would make of the definition: they are used only to
show that a property notices (PROJECT.json, "mutants").

### Correspondence

**Progress.** `version`, `payload` are the row (`version = 0`: no row). `body[r]` is the
parsed request, `pc[r]` whether its handler is before the UPSERT or before the SELECT of the
409 answer. The client is external: it sends one request at a time, may give up and send
another while the first is still on its way, and merges what a 409 or a GET returns. The
payload is the set of edits in it, a merge their union; `Own[d]` are the edits the user makes on device `d`. A device sends the version it was last told
(`known`). That is 0, as an omitted field is, if it never asked, found no row, or was answered by a handler whose read
failed. A request with base version 0 is `Blind`: the UPSERT takes it whatever is stored.

**Merge, MergedProgress.** `Progress` has every statement of PutProgress but takes a merge for a
union; here the statements are one step, and the merge is the real one, on a document with a counter, a
field with a timestamp, and an array of items with an `id`, a counter and a tombstone. JSON
numbers, strings and booleans are all `Num`; equality of values is `equalJSON`'s equality of sorted
encodings. `mergeField` calls itself for the fields of objects and
the items of arrays; `Merge` has a definition for each level (`MergeFields` of a document, `MergeItems` of an array, `MergeValues` of
an item), each calling the one below, because nothing could be proved in a module with recursive operators. The document has these
levels and no more: an array or object as the field of an item is out of the model (`MergeValues` would give the local one). A device
merges into its own document (`local`) what the row has become, against the document that the two had in common
(`base`). The row exists from the beginning; the base version 0 is `Progress`'s subject.

**EventLog.** `at[i]` is `created_at`, which is `NOW()`, the time the inserting statement
starts; the row becomes `live` in a later step. A page is any choice `ORDER BY created_at LIMIT
n` allows among ties, or a part of it, for a read that breaks off goes unnoticed (`rows.Err` is read nowhere).
`holds[k]` is what a compaction row contains. A compaction's three
statements are separate steps, and it may stop between any two. `before`, of archiving and of compacting, is any time up to one
past the last of the clock: the code accepts any, and a time to come is what makes a compaction `Premature`. The cursor that
Acknowledge stores (`sync_cursors`) is left out, as no other handler reads it; `cursor` is what the device goes by.

**EventIntake.** One installation of the app and the accounts used on it. `req` is the handler the app waits for,
with the events of the batch still to insert; `late` is what handlers that it gave up on may
still insert. A `Nameless` event has no usable id, so that the server makes one up on each try; a `Deviceless` one names no
device and needs no row of it. A batch of more than `BatchLimit` events (500) is refused as a whole, as is one with a malformed event. The app is external;
it is taken to send its whole queue, to keep the queue when another account signs in, and to
send again all nameless events when `failed` has a `""` in it, since it cannot tell which. `stored` counts rows up to two: none, one, more.

**ChatBilling.** `pc[r]` walks through balance, plan, admit, limit, provider, usage, wallet,
charge, ledger, policy as Chat does. A failed check statement lets the request pass (as the
code does, counted in `bypassed`), a failed settlement statement is skipped. `due[r]` is the
month read after the answer, which may not be that of the admission. `CostLimit` is positive; with 0 or less, the
configuration's default, the code has no limit and there is nothing to bound.

**Accounts.** One account, as other accounts only make statements fail or concern other
rows. A session is named by the second its refresh token was signed in, because the token has
nothing else in it. An action that starts a request with an access token asks only what the
handler's SELECT asks: middleware looks at no row. `HasRow` distinguishes a soft-deleted
row (`deleted_at` set), which UPDATEs by id still change, from none.

**Gateway.** The Redis key has its count and time to live apart, because INCR and
EXPIRE are apart. Redis may count a request whose answer is lost. The breaker's two fields are
read under the mutex before and written under it after the call, so `Check` and the two
`Record` actions are atomic, and anything may happen between. A client that goes away cancels the call (`Cancelled`), which the
code records as a failure of the provider's; there is no bound on that, only on Redis errors and crashes (`MaxErrors`).

**Administration.** One account, whose requests (`req`) log in, refresh and write under
`/admin`. `left[g]` is how long the best access token of each ground (a role, or the session that a refresh
relied on) is still valid, `since[g]` how long the ground has been gone. `Enter` and `MayWrite` are the two permission checks of most groups,
`EnterContent` the one check of the content group; `Act` and `Edit` are the statement that follows. Plans and content are nothing of the
account's, so that writing them changes no variable. "parent" administrates no more than "student" and is not told from it.
`audit_logs` is left out: most handlers, but not UpsertPlan and those of content, insert a row after their statement and drop the error.

**Moderation.** `created` is the order of insertion. `shown` is what any page of AISafetyEvents has shown
a reviewer, who may act on it at any time later. "escalated" is not told from "rejected". What is older than
`horizon` has outlived RetentionDays (365 by default; with 0 or less nothing is purged, `retaining = FALSE`). An owner who asks
for erasure reviews no more; that is an assumption, for the code does not stop reviews.

**FileStore.** A file is a storage key; it is used once (`fresh`). Removing missing contents
is an error on disk and a success on S3. HardDelete's rows are streamed; here its SELECT is one
step, since a row that appears later is not in its snapshot.

**ContentCache.** A kind's rows are the number of times they were written. `Scan` is one
step, though SCAN is a loop: a key that is there throughout is returned, and one that appears
meanwhile was filled after the write. DEL follows for each key.

## 3. Runs

| Run | Checks | Distinct states |
|---|---|---|
| `MCProgress` | `WriterHasMerged`, `OnlyBlindErases`, refinement of `SharedDocument`, `EditsGetStored` | 90 600 |
| `MCProgressBlind` | violated: `StoredStays` | |
| `MCMergedProgress` | `DocumentsOK`, `IncrementsKept`, `ItemsKept`, `NotesGoForward`, `DevicesAgree` | 34 000 |
| `MCEventLog` | `CompactionKeepsEvents`, `GapsAreLateOrTied`, `Delivered`, `ReplayRecovers` | 435 000 |
| `MCEventIntake` | `AcceptedIsStored`, `RetriesInsertOnce`, `ErasedLeaveNothing`, `EventsGetStored` | 124 000 |
| `MCChatBilling` | `OverdraftBounded`, `CostOvershootBounded`, `QuotaRespected`, `BooksAgree` | 2 870 000 |
| `MCAccounts` | `GuessesBounded`, `LoginMethodKept`, `DeletionEndsSessions`, `ErasedStaysErased` | 1 160 000 |
| `MCAdministration` | `TokensLapse`, `NoSelfPromotion` | 165 000 |
| `MCModeration` | `OpenGetDecided`, `ErasureCompletes` | 10 700 |
| `MCGateway` | `RateBounded`, `CounterExpires`, `BreakerCloses` | 93 000 |
| `MCFileStore` | `RowsHaveBlobs`, `NoOrphans`, `DeletionCompletes` | 36 000 |
| `MCContentCache` | `StaleOnlyByRace`, `CacheCatchesUp` | 329 000 |

The type invariants of the modules with proofs are proved (`TypeInvariance`, `GatewayTypes`, `CacheTypeInvariance`) and
left out of the runs, but for `DocumentsOK` of `MergedProgress` (`DocumentTypes`), which a wrong merge breaks; that of `Moderation` documents the state.

### What they show

* **Progress.** The version protects what it is meant to: whoever carries the current one has merged all the row
  holds, however requests are delayed, retried or answered into the void, and every edit gets
  to a document that its device is told is stored: the 409 answer carries what the next attempt needs. A request with
  base version 0 is outside the protection: `WHERE $2=0 OR version=$2` lets it replace whatever is stored. It is no rare one: it is the first PUT of
  every device that asked before there was a row, and of one whose last read failed. `MCProgressBlind` shows it without any
  fault: a second device's first PUT erases what the first was told is stored. No other step takes an edit out (`OnlyBlindErases`), and that one is what the refinement
  has as `Replace`.
* **Merge.** Whatever the order in which devices change, store and merge, items and tombstones
  reach the row and stay, the note with the later timestamp wins, and the devices come to hold the
  same document. Counters, of the document or of an item, keep every increment but in one case: when two
  devices have reached the same value, `equalJSON(local, remote)` returns it before the
  sum is tried, and one increment is gone (`alike` in `IncrementsKept`). They gain increments only after a lost
  answer: the device merges its own stored increments in again, because its base is older than they are.
* **Event log.** Two overlapping compactions and a failure between any two of their
  statements lose nothing from the live view, with two exceptions. One is rows that the UPDATE archives and the SELECT did not return: those beyond its LIMIT
  of 5000, those after a read that broke off, and those that commit in between. These are in no compaction
  event, though `openapi.yaml` calls it replayable; the original rows stay, archived. The other is two compactions one of which was asked
  for a time to come: each may gather what the other does and archive the other's row (`CrossedOut`). Paging misses rows in two ways, both possible: a row that committed behind a
  cursor, and a row that ties with the end of a page. Everything else reaches a device that polls, and a
  device that replays from the beginning gets all of it, as long as one answer has room for it: ReplayEvents has no next page.
* **Event intake.** What the app was told is accepted is stored, or was erased with its account, or has the id of another account's
  event, which `ON CONFLICT(id) DO NOTHING` answers as a success. Named events are inserted once however often they are sent;
  nameless ones again, once a try may have gone through. A request that outlives its account inserts nothing. A malformed event keeps the whole queue from being accepted for as long as it is in
  it, and a queue longer than a batch may be is refused for good by an app that sends all it has; without either, everything sound gets stored.
* **Administration.** No row is looked up for an access token: a role or a revoked session that was lost lives on in it, but not longer
  than a token's lifetime plus the request under way. A refresh is the exception that the property names: one whose read of the session fails counts as if the session
  had been active. An account that has lost role, permission and tokens does not return to power by any requests of its own.
* **Moderation.** Open events are never purged, but the list has a LIMIT and rows of every status: an open event that
  200 newer rows have overtaken is seen by nobody. An accepted appeal against an old decision is deleted with its event by the next purge, which does not look at
  appeals; a review leaves `appeal_status` at 'pending', so that a reviewer cannot tell the heard from the unheard, and
  nothing is claimed of their being heard. Whoever has reviewed an event of somebody else cannot be erased until it is purged, which is never if RetentionDays is not positive and the author stays.
* **Billing.** Checks are stale when acted on, yet the damage is bounded by one call per
  request in progress, plus one per check that could not be made. `QuotaRespected` needs the `1`
  in it: with a quota of zero the INSERT of the first request of a month is unconditional.
  Without faults the books agree, except that a call across the end of a month is booked in no
  month when that month has no row yet: at most one for each request in progress, and TLC finds that many.
* **Accounts.** Parallel guesses overtake the lock by at most the number of requests in
  progress. A live account keeps a login method unless an administrator re-enabled it after
  deletion. After a deletion only sessions of logins under way at that time remain, and a
  password can come back into the erased row only by a change or reset that was under way. Apple
  accounts without an email address cannot refresh.
* **Gateway.** Every minute Redis admits fewer than twice the limit; a counter without
  expiry exists only during its EXPIRE or after a fault (where it locks the user out for good).
  The breaker never stays open. It closes for good once the provider stays up *and* clients no longer go away during
  calls: without the second, TLC finds cancellations opening it again and again.
* **File store.** Without faults every listed file has its contents or is about to be
  unlisted, and no contents stay behind except those of an upload that got its row during a
  HardDelete. A deletion that is retried ends, except on a local store whose contents are
  gone: there `os.Remove` fails for ever, and the row stays.
* **Content.** Without faults a cached answer is out of date only by a fill that raced a
  write; the expiry ends this and what faults leave behind.

### Bounds

Two requests in progress are enough for every race of the kind "checked, then overtaken", and
two statements of one handler are always separated by the other. Progress has three slots, for a
late request of one device beside a running one of each. The clocks (two times in
`EventLog` beside 0, two months, two seconds, tokens that live two ticks in `Administration`) allow before, equal and after; `EventLog`'s two
compactions can gather each other's rows, more of them are left to the proof. `Progress` takes three edits, two of them of
one device (`Own`), so that a stale copy can hold an edit and lack another. A compaction gathers one row in `MCEventLog`; what more rows in one do is left to the proof. Limits and thresholds are 2 (but pages and compactions take one row),
the least that tells "at" from "below" and "above"; pages of one row and two events let a newer row bury an older one. Faults: one or two, so that a fault
meets the recovery of another where a second matters (`Progress`, `Gateway`, `FileStore`). All bounds
are constants, named where they are declared; clocks and counters stop at theirs in the guards.
`MCMergedProgress` allows three changes, the least with which two
devices change a counter differently; with four (523 000 states) the properties hold as well.
`CHECK_DEADLOCK FALSE` is set where the system does stop: in `MCFileStore` storage keys run out, in
`MCMergedProgress` changes do.

`MCEventIntake` has an event of each sort (named; nameless and of no device; without payload, named and not; malformed), and any
set of them in the queue at first; batches of two, so that queues of three and more are too long. `MCModeration` has two reviewers, one of them the author of an event, and a pupil;
accounts come to an end there, and so does the system (`CHECK_DEADLOCK FALSE`).

Symmetry is used only in runs without liveness properties.

### Fairness

* `Progress`: a handler runs to its end (goroutines are scheduled, statements time out), and a
  device with something unsent sends it when it can. There is no fairness on faults.
* `MergedProgress`: devices store what they changed and look for what others did. The second is stated as
  `[]<>(known[d] = version)`, which says the same as weak fairness on `MergeIn` and is cheaper to check.
* `EventLog`: running inserts commit, devices go on polling. No compaction is obliged to go on
  after its row was committed. `ReplayRecovers` assumes, within the property, a device that goes on replaying.
* `EventIntake`: the app goes on sending what it has, handlers run to their end, and an account that is not erased registers its device; statements that
  could succeed do so in the end. The app is outside the code; this is what `retryable` in the answer asks of it.
* `Moderation`: reviewers open their page and decide what they see there as undecided (people, outside the code; nobody is taken to decide anything twice); time passes, the ticker of
  StartMaintenance purges, and erasure is asked for until it works.
* `Gateway`: time passes and requests do not stop half way; *no* fairness on new requests. `BreakerCloses` assumes, within the property, a provider
  that stays up and clients that stay.
* `FileStore`: handlers run to their end; the app repeats a deletion again and again as long as the file
  is listed. This is strong fairness on starting it, since the handlers may be busy in between;
  it is an assumption about the user, and the property is about users who insist.
* `ContentCache`: readers run to their end, keys expire. Writers need not go on: a crash
  may take them.

## 4. Proofs

TLAPS checks, for every value of the constants that satisfies the modules' ASSUMEs:

* `ProgressProofs`: `TypeInvariance`; `Inductive`, the invariant `IInv`; from it
  `WritersHaveMerged` (`WriterHasMerged`), `OnlyTheBlindErase` (`OnlyBlindErases`) and `Refinement`
  (`ImplementsDocument`), none with a hypothesis about what devices send. `WriterHasMerged` is not inductive: a request that carries a
  version still to come would break it when it comes. `IInv` adds that a version known or carried is at most the
  row's, that an absent row holds nothing, and that only edits of devices travel. Only the
  UPSERT can disturb it, and there the new version is one nobody knows yet. The refinement
  maps each step to `Make`, `Draft`, `Withdraw`, `Write`, `Replace`, `Read`, `Misread` or a stutter; the drafts are the blind requests on their way (`DraftGoes`).
* `ProgressProofs`, about the merge, for any finite number of devices and any items: `DocumentsMerge`, `DocumentTypes` (`DocumentsOK`), `NotesForward` (`NotesGoForward`),
  `ItemsAreKept` (`ItemsKept`), `IncrementsAreKept` (`IncrementsKept`). First come the operators: what a merge makes of two numbers (`ValuesMerge`), of two
  items (`ItemsMerge`), of the items so far and the next local one (`IntoStep`); by induction over the local items, of two arrays (`ArraysMerge`), and of
  two documents (`DocumentsMerge`): whenever the local document `Extends` the common one (no earlier note, no smaller counter, no item or
  tombstone missing) then the merged one extends the remote one, and has what was added locally.
  The invariant that goes with it, `MergedInv`, says that each device's document extends its base, that a device that knows the version of the row has the row
  for its base, and that no note is of the future. With it a store is an extension of the row, which gives `NotesGoForward`; `ItemsKept` and `IncrementsKept` are then
  inductive: what was new on a device is new after a merge too, or in the row, and a sum of increments (`CountSum`, `ScoreSum`) is moved by a change as much as its history is,
  by a merge or a store not at all, and by a store whose answer is lost only up.
* `ChatBillingProofs`: `TypeInvariance`, `Overdraft`, `Overshoot`, `Quota`. `OverdraftBounded` says
  nothing about requests that passed the check and are not charged; `OverdraftInv` counts them:
  the balance is at least -`MaxCost` for each slot *not* among them and each bypass. A check turns the
  slack of one slot into one exposed request, a charge turns it back. `CostInv` does so for
  each month; `QuotaInv` carries the quota that a request read.
  `Books` (`BooksAgree`) follows each amount through the five settlement statements: in `Balanced` two books
  differ by exactly what the requests between their statements still owe. What a month's row misses is bounded by `LostBounded`, in which a
  request that is still to settle a month without a row counts as lost already: one call for each slot and month end.
* Also in `ChatBillingProofs`, about `Gateway`: `GatewayTypes`, `RateLimit` (`RateBounded`), `CounterIsLetExpire`
  (`CounterExpires`), for any limit, window and finite number of requests. `RateInv` cuts the window at the birth of the
  running key: earlier keys left fewer than `Limit` requests in it, the running one admitted what it counts (`Spent`), and only
  while it lives. `ExpiryDue`: the one request that is to set the expiry is the one whose INCR made the key.
* `FoldTheorems` proves what those and the counters of `MergedProgress` need of `SumFunctionOnSet`, which the community modules define by recursion over
  the set and prove nothing about here. The library's induction rule takes an operator, so induction is on *sets* instead: a set of
  naturals that lacks a number has a least one it lacks (`NaturalsByInduction`), and a set of subsets of `S` that contains {} and is closed
  under adding an element contains `S` (`SetByInduction`). From it the fold exists, is unique, and obeys its equation.

* `AccountsProofs`: `TypeInvariance`, `Erasure` (`ErasedStaysErased`), `SessionsEnded`
  (`DeletionEndsSessions`), `LoginMethod` (`LoginMethodKept`), `Guesses` (`GuessesBounded`), for any
  finite number of requests. Each has its own strengthening in `Accounts`. `ErasedInv` counts requests and tokens that
  can still bring a password among what must have been there at the deletion. `SessionsInv` has the request that is still to run
  the second UPDATE in place of its absence. `LoginMethodInv` adds what Unlink relies on after its check:
  a password, once there, stays until the row is erased, and is only ever set beside an
  email address. `GuessesInv` says where the guesses went while the row can be found: into the counter,
  into a request that is about to count, or into a missed UPDATE; where it cannot be found no
  guess is added, and where the counter reaches the threshold it can no longer be found.

* `StorageProofs`, about `FileStore`: `KeysUsedOnce`, `TypeInvariance`, `ListedFilesExist` (`RowsHaveBlobs`),
  `NothingLeftBehind` (`NoOrphans`). That a key is made up once (`KeysInv`) holds whatever fails, and makes what
  an upload has in hand nobody else's (`UploadsInv`): no deletion has selected it and no HardDelete listed
  it. So the only steps that take contents away are those of a request that goes on to
  the row. For `NoOrphans`, `ContentsInv` follows a HardDelete: what is neither listed nor late has no contents left.
* `StorageProofs`, about `ContentCache`: `CacheTypeInvariance` and `OnlyRacesAreStale` (`StaleOnlyByRace`). `CacheInv` says it
  with writers on their way: each key that is out of date has raced, or some writer is still to
  scan, or has the key on its list; and what a reader holds is up to date unless a write
  overtook it.

* `EventLogProofs`: `Inductive`, `TypeInvariance`, `NothingCompactedAway` (`CompactionKeepsEvents`), `PagingGaps`
  (`GapsAreLateOrTied`), for any number of events, compactions and devices, any limits and any times asked for. `Gathered` is what
  `CompactionKeepsEvents` lacks: what a compaction has gathered whose row was archived before its UPDATE ran is in a live row out of its own reach, noted as
  archived unread, or in another compaction's row where one of the two is premature (`Kept`). Another compaction that archives its
  row takes its events over or notes the loss (`HeldByAnother`). This holds through any number of compactions of compactions.
* `EventIntakeProofs`: `Inductive`, `TypeInvariance`, `NothingAcceptedIsLost` (`AcceptedIsStored`), `RetriesAreSafe`
  (`RetriesInsertOnce`), `ErasureIsFinal` (`ErasedLeaveNothing`). `Progressing` follows a batch: each of its events is still to
  insert, failed, or settled for the account that sent it. `InsertedOnce` says of a nameless event not in doubt that no late request can
  insert it, and that it is unstored for as long as a try is still to come.
* `AdministrationProofs`: `Inductive`, `TypeInvariance`, `AuthorityLapses` (`TokensLapse`), `PowerComesFromOthers` (`NoSelfPromotion`), for any lifetime and any finite number of requests. `HeldUpToNow` is the strengthening: of what is held, or about to be
  signed for by a request in progress, no time without it has passed. `NoSelfPromotion` goes through the stages of a request.

Where a module of proofs is about two components it EXTENDS both; they have no name in common (hence `GateSpec`, `CacheSpec`, `MergedSpec`), but for what `ProgressRow` gives to two of them.

Only model-checked: the breaker and `Moderation`, whose properties are liveness (`BreakerCloses`, `OpenGetDecided`, `ErasureCompletes`), and the other
liveness properties: `DevicesAgree`, `EditsGetStored`, `Delivered`, `ReplayRecovers`, `EventsGetStored`, `DeletionCompletes`, `CacheCatchesUp`. They are
out of TLAPS's reach with the backends used.

## 5. Not modelled

* Merges of documents whose fields devices remove, or that are nested deeper than fields, items and their fields, and timestamps for fields other than scalars.
* The matching of words and the redaction of personal data; the minors' list of words, for which a failing read of `minor_mode` counts as no (`ai/handler.go` 118);
  that a second review overwrites the first, whoever made it, is in `Moderation` and no property is about it.
* The review of files: `safety_status` is a column that only Download asks for.
* The audit log, which nothing but a report reads; the cursor that Acknowledge stores, which nothing reads.
* Reports and lists, including Export, whose SELECTs are not of one moment; verification of email addresses, the expiry of sessions.
* Signatures, hashes, Apple's keys: the models take the outcome of a check as given.
* Routing other than the permission groups, metrics, configuration, mail, the admin page, scripts, migrations.

## 6. Known divergences

One run demonstrates where code and documents disagree: `MCProgressBlind`, base version 0 overwrites (`sync/handlers.go` 255, against "版本保护" in
README.md). The others met while modelling:

* A compaction archives what it does not hold (`sync/handlers.go` 185, against openapi.yaml 44): `unkept` in `CompactionKeepsEvents`.
* Refresh scans `users.email` into a Go string and so turns down accounts without an email address, which AppleLogin creates
  (`auth/service.go` 366 and 124-128, against README.md's refresh and Apple login): no property is about it, as it would restate the SELECT.
* An accepted appeal of an old decision is purged undecided (`db/maintenance.go` 22, against openapi.yaml 55 and 57): `Purgeable` does not look at appeals.
* Equal increments count once (`sync/merge.go` 41): `alike` in `IncrementsKept`.
* The breaker counts the calls that clients cancel (`ai/handler.go` 254 and 271-284): the assumption in `BreakerCloses`.

## 7. Plan

Done: every component with state of its own that anything reads, with runs, and proofs of every safety property that a run checks (the properties of `Moderation` are liveness). What would come next:
the composition of `EventIntake` and `EventLog` (they share only the row's insertion), expiry of sessions and VerifyEmail in `Accounts`,
and the review of files beside `FileStore`.
