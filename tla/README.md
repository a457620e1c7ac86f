# CUpedia in TLA+

CUpedia is a Next.js application over PostgreSQL: server actions and API routes
that any number of visitors, cron calls and scripts run at the same time, each
in short transactions with explicit row and advisory locks, and browser editors
that save and publish in the background. This directory models the parts of it in
which the order of such steps decides what is right, checks them with TLC on
small instances, and proves the most important properties with TLAPS for every
value of the constants.

Paths in this file are relative to the repository (`src/lib/...`); `docs/adr`
holds the decisions the code cites.

## 1. The system

CUpedia has ten bounded contexts (`CONTEXT-MAP.md`) and the wiki. What matters for a
model is the state each part keeps, who writes it, and what happens when two writers
meet.

| Part | State | Operations | Interacts with | Hard behaviour | Correct means |
|---|---|---|---|---|---|
| **Menu synchronisation** (`canteen-menu-source-sync.ts`, `-scheduler.ts`, `-window.ts`, `-mutation-lock.ts`, `-empty-confirmation.ts`) | a source's claim token and expiry, sync runs, the published projection | cron poll, manual sync, fetch, publish, record failure, configure, prune | the database clock, the provider, menu mutation by administrators | invocations die, outlive their claim, overlap; COMMIT's answer is lost; two tables of locks | one claim per source, bounded and spaced retries, nothing stale published, no emptied menu on one observation, every invocation ends |
| **Menu projection** (`canteen-menu-sync-store.ts`, `canteen-admin-actions.ts`) | items, offerings, prices, identity transitions | apply, merge, reviewed transition, administrator edits | synchronisation, votes, comments | merges move votes while people vote | votes survive merges, one per person and dish |
| **Wiki page tree** (`wiki-actions.ts`, `wiki-draft-actions.ts`) | pages (parent, version, generation, deleted), private drafts | create, move, delete, restore, roll back, save draft, publish draft | the editor, the tree in the browser | independent checks on a shared tree, optimistic versions, publication outside the lock | the live pages are a forest, moves respect what their author saw |
| **Wiki editor** (`wiki-editor.tsx`, `use-autosave.ts`, `merge-content.ts`, `updateWikiPage`) | a document, a baseline, a timer, a request in flight | type, save, merge, adopt the server's document | the page row, other tabs | text drifts during a save, answers are lost, requests land late, pages are rolled back under an editor | nothing unseen is overwritten, nothing typed is lost, everything is saved in the end |
| **Wiki history, links, search** (`revision-coalescing.ts`, `wiki-links.ts`, `search.ts`) | revisions with a sliding time | publish, coalesce, merge, roll back, list | page writes | overlapping saves and rollbacks, two clocks, publishing tried again | every sitting stays in the history, its newest revision is the page, a page is created once |
| **Local drafts and tree projection** (`use-wiki-draft.ts`, `wiki-tree-state.ts`) | recovery copies in IndexedDB, pending tree changes | project, confirm, roll back, hydrate | editor, server components | answers out of order | what is shown is what the server has once nothing is pending |
| **Course reviews** (`course-review-actions.ts`) | one rating per person and course, reviews, likes, replies | submit, delete, reply, like | achievements | a read before the transaction, two lock keys | a submission nobody overtook leaves its text, a deletion costs what its author confirmed |
| **Achievements** (`achievement-*.ts`) | titles by tier, evidence, fusions, a primary title | redeem, fuse, dismantle, revoke, recompute on deletion, rebind | ratings | long legal sequences, a matching algorithm, unique tiers | evidence exists, counts once and suffices; a rating can be deleted; a title goes only when it must |
| **Campus map facts** (`campus-map/publish.ts`, `fact-store*.ts`) | places, immutable revisions, changesets, publish requests | publish, revert, retire | photos, rate limits, bans | idempotent requests, base revisions, many locks | one request publishes once, on the base it named; a repeated one is replayed |
| **Edit session** (`campus-map/edit-session.ts`, `publish-receipt-consumer.ts`) | the contributor's draft and pending request | edit, publish, resume, discard | publish, session storage | reloads, copied tabs, lost and late answers | a draft is neither lost nor published twice, its place is announced once |
| **Place photos** (`campus-map/place-photo-assets.ts`) | asset rows, objects in storage, upload leases | upload, bind, discard, clean up | publish, object storage | two stores without a common transaction | a photo that is served has its objects, a bound one stays, leftovers are reconciled |
| **Notes and outbox** (`campus-map/map-notes.ts`, `moderation-governance.ts`) | notes, events, subscriptions, outbox leases | comment, resolve, deliver, moderate | notifications | a lease outlived by its holder | a notification arrives once |
| **Campus transport** (`campus-transport/*`) | observations, model revisions, one champion | observe, train, promote, roll back | map places | promotion of stale experiments | one champion at a time |
| **Votes, shame votes, danmaku, takeouts** | one row per act, limits per window | vote, post | menu items, sessions | limits under concurrency | limits hold |
| **Course tree, college picker** | fixed data, saved builds | compute, evaluate | – | – | pure functions |
| **Professors, scrapers** | imported directories | import, read | – | – | – |
| **Accounts, roles, bans** | users, sessions | sign in, ban, promote | everything | – | library code and single locked rows |
| **Notifications, announcements, product updates** | messages | send once, read | everything | broadcasting twice | the claim is the statement that marks it sent |

The parts not modelled and the reason for each are in `PROJECT.json`
("components", "hazards" with a note).

## 2. Modules

| Module | Models |
|---|---|
| `MenuSchedule` | windows, refresh evidence, due times, retry delays and ranks: the pure functions of `canteen-menu-sync-window.ts` and `-scheduler.ts` |
| `MenuSync` | both entry points of the synchroniser, with crashes, expiry, row locks and lost commits |
| `MenuPublisher` | what the synchroniser promises: claims in order, each publishing at most once while it is the source's claim |
| `WikiTree` | every operation on a page's parent, state, version and generation |
| `WikiEditing` | editors, autosave, the optimistic lock and the merge |
| `WikiHistory` | one page's draft, publication, writes and revisions |
| `SubjectMatching` | the algorithm that puts ratings into the slots of a rule, next to the reference it is compared with |
| `Achievements` | one student's course submissions and titles; extends `SubjectMatching` |
| `PlacePhotos` | the photos of map places: rows, objects, uploads, discards, cleanups and the publications that bind them |
| `MapPublish` | the publication of one map draft: browser tabs, the receipt consumer and the publisher, composed |
| `MCMenuSync`, `MCWikiTree`, `MCWikiEditing`, `MCWikiHistory`, `MCAchievements`, `MCPlacePhotos`, `MCMapPublish` | constants and symmetry for TLC |
| `MenuSyncProofs`, `MenuPublisherProofs`, `WikiTreeProofs`, `WikiEditingProofs`, `WikiHistoryProofs`, `AchievementsProofs`, `PlacePhotosProofs`, `MapPublishProofs` | theorems |

`map` in `PROJECT.json` gives the lines every definition stands for.

### 2.1 Menu synchronisation

*State.* `enabled`, `token`, `expires` are columns of `canteen_menu_sources`;
`run` is the table `canteen_menu_sync_runs`; `published` is the menu projection reduced
to the run it came from; `sourceLock`, `canteenLock` are row locks; `worker` is
the memory of each invocation. `now` is the database clock: a transaction sees the
time at which it began, as PostgreSQL's `now()` does.

*Actions.* `BeginAcquire`/`Acquire` is a manual sync, `BeginPoll`/`PollWaits`/
`PollNext`/`PollEnds` a cron poll that lists candidates and then locks and
re-checks one after the other, keeping the locks of those it rejects. `Fetch`
chooses what the provider answers, `ConfirmEmpty` is the read that decides on an
empty menu, `BeginCommit`..`Publish` the publishing transaction (canteen, then
source, then checks, then everything it writes), `BeginFail`/`Fail` the recording
of a failure, also after a COMMIT whose answer was lost. `Stop` ends an invocation
anywhere and releases its locks. `ConfigureSource`, `DisableSource` are the operator.

*Abstractions.* All windows have one length and the meal period is the window's index
modulo 3; the observation scope is a constant of a source; error codes are grouped by
what the scheduler does with them; run ids are drawn in order and break ties of
`startedAt`; the order of equally ranked candidates is free (late rows are ordered by the id that was drawn when the
row was locked, which is the order the scheduler's own decisions were taken in); closed weekdays and the
meal periods of a source, constant filters of the poll, are left out, as are the health
columns. An empty menu's evidence is its key and period. The code's numbers (a claim of
2 minutes, retries after 2 and 5 minutes, an empty menu confirmed within 10 to 45
minutes, 3 failures per window, retention of 30 days) become small constants in
the same order. A cron call polls for at most `PollDuration`, as the platform stops it (the route's
`maxDuration`); `LifetimeAssumption` says that neither it nor a claimed run outlasts the retention of
the history it reads.

### 2.2 Wiki page tree

*State.* `page` (state, parent, version, generation), `draft`, `treeLock` (the advisory lock),
`worker` (a call in progress). PostgreSQL runs at READ COMMITTED: each
statement that others can change the meaning of is a step, an update with its COMMIT
is one step.

*Actions.* One per stage of a server action, named for it: `ReadPage` before the
transaction, `LockWikiTree`, `CheckParent`, `WriteParent`, `Reread` and a second
attempt after a version conflict, `CollectPages`/`MarkDeleted`/`MarkRestored`,
`ReadDraft`/`InsertPage` for a publication, which does not take the lock, and
`Rollback`. `Stop` is a lost process or connection.

*Abstractions.* Whether text, title or icon conflict is a free choice in `Reread`; the
`updatedAt` guard says the same as the version; sibling order, revisions, links and
caches do not touch the tree. Drafts belong to one owner. Callers pick a parent among
pages they can have seen (`KnownParent`). Foreign keys do not block a soft deletion.
`Reach` is defined by closed sets, which equals the breadth-first
collection in the code and is what the proofs can use.

### 2.3 Wiki editing

*State.* `page` is the row; `editor[c]` a tab: its document, the baseline of the next
save, the snapshot the autosave compares with, its timer, whether it drains or halted,
the conflict offered to the user; `call` one request per tab and a `Stray`
one the browser has given up while the server still carries it out; `past` records
which documents each generation held and is read by the properties and by the choice of
a revision to roll back to.

*Actions.* `Type` arms the timer, `Flush`/`SaveNow`/`Drain` start a run, `Send`
leaves with the current baseline, `UpdateDraft`, `UpdatePage`, `Reread`, `StoreMerged`
are the server (compare-and-swap; on failure merge with the newer row and swap again),
`Acknowledge`, `Settle`, `Rejected` the browser's continuation, `Adopt` the user
taking the server's document, `Lose` a lost request or answer, `Rollback`,
`DeletePage`, `RestorePage`, `RemoveDraft` other people.

*Abstractions.* A document is one text per field; fields are either scalars (title, icon,
parent) or blocks of the content, identified by position and merged one by one as the
block-level diff3 does (ADR 0008). A rollback resets every field. A refused
permission has the effect of a missing page. The recovery copy in IndexedDB, the edit
summary, tree projection and reload of the tab are left out. An open conflict dialog may stay
open after a save succeeded.

### 2.4 Course submissions and titles

*State.* `rated` and `reviews` are one student's rows of `course_ratings` and `course_reviews`;
`title`, `evidence`, `sources` the rows of `user_achievements`, `achievement_evidence` and
the fusion's sources; `primary` the title of the profile; `enabled` the rules of
the catalog in force; `call` what a call in progress has read. `stranded` is a history variable
that no action reads: the sources of person titles that were revoked.

*Actions.* Redeeming, revoking, fusing, dismantling and a submission's transaction run under the
advisory lock of the student, so each is one step that does all its writes. What reads
before the lock is a step before it: `BeginSubmit` (the earlier review), `PreviewDeletion`
(the impact shown to the author), `CheckPrimary`. A deletion takes another lock
(`BeginDelete`, one per student and course) and, only where it finds a rating, the student's:
`DeleteRated` is one step, `ClearReviews`/`ClearRating` are two, which a submission may run
between. `Stop` loses a call anywhere.

*The matching.* `Assignment` is the code's: candidates in the order of `Before`, one augmenting path
each (`Augment`, with its shared `visited` set), written as recursive functions. The properties
compare with `CanFill`, which only says that a choice of distinct ratings exists.

*Abstractions.* A course is a number in the order of its code, and a rating is its course (one row for each
course); a group that asks for n courses is n slots. The unique indexes are `UniqueRows`: a
transaction that would break one does not happen, and `DeletionNeverBlocked` says of which
ones that must never be the case. Bounds (`Bound`) tie courses, texts and overlapping calls to
the catalog in force, so that one run explores three situations side by side.

### 2.5 Place photos

*State.* `row` (campus_map_place_photo_assets: status, owner, token, lease, expiry), `stored` (the
objects of each photo), `bound`/`shown` (revision photos of all and of current revisions),
`job` (what each request or cleanup does next, what it saw and claimed), a clock.

*Actions.* `BeginUpload` reads the clock before the picture is processed, `Reserve` is the
transaction that takes the row, `PutFull`/`PutThumbnail` and `MarkReady` follow, `Compensate` is
the `catch`. `Look` begins the statement of a discard or cleanup, `Claim` ends it:
a statement that waits for a row looks at the row again and at the bindings no more, as READ
COMMITTED does. `DeleteObjects`/`DeleteRows` come after it. `Publish` is the binding.
Every put, statement and deletion may fail with its effect or without it, or its process may die.

`overlapped` is history: the photos whose id was reserved again, after one deleter removed the row, while another
that had claimed the same row had yet to delete its objects.

*Abstractions.* The objects of an id are the same whoever puts them, as their keys are made of the id; a repeated
upload has the same content. A consequence outside the model: a put that lands
after the cleanup deleted its expired row leaves objects nobody finds again.

### 2.6 Publishing to the map

*State.* Per tab, `session` (the edit session's status and draft), `saved` (its snapshot in
sessionStorage), `scene` (the form, elsewhere, or a published place), `job` (the run of the receipt
consumer); `actors`, `receipts` in localStorage; `committed`, `late`, `others` on the server.
`forked`, `notices`, `used` are history.

*Actions.* The contributor changes the draft, publishes, acknowledges duplicates, rebases on a
conflict, closes, goes back, keeps editing, discards, reloads or duplicates the tab. While its draft is published
a session rejects all of these but the scene's change (`Closable`), which the run finds out when it ends. The consumer identifies the
account, sends or looks the request up, waits, looks it up again, sends it again,
consumes the receipt under the attempt's Web Lock, reads the map again and opens the place.
The publisher answers (`Answers`): replay, refused key, stale, committed, unavailable
with or without effect. A request that timed out stays in `late` and may be carried out whenever the
server gets to it.

*Abstractions.* A draft is a key, a payload and what its author has seen: the revision an edit is based on,
or the duplicates an addition acknowledged; conflict and duplicate
warning are then one comparison (`Current`). Keys are drawn fresh where the sheet draws them
(`NeedsFreshKey`). One account, one draft.

### 2.7 The history of a wiki page

*State.* `page` is the row of `wiki_pages`, `revisions` its rows of `wiki_revisions` (text, author,
date, and whether it is a creation, an edit or a rollback), `draft` the row of
`wiki_drafts`, `worker` the server actions in progress, `clock` the time. `kept` (the texts
whose sitting is over) and `overtaken` (a rollback began before a write it undid) are history.

*Actions.* `BeginSave`, `BeginTransaction`, `WritePage`, `Merge` are a save with its compare-and-swap and
its one retry; `Revise` folds it into the latest revision or inserts one. `BeginPublish`, `ReadDraft`,
`InsertPage` are a publication, `BeginRollback`, `Rollback` a rollback. From its UPDATE to its commit a call
holds the row, so that these are one step. `CreateDraft`, `SaveDraft`, `DeleteDraft`, `DeletePage`,
`RestorePage` are the other operations, `Stop` a lost process or connection, `Pause` a time longer than
the five minutes of a sitting.

*Dates.* A new revision is dated by the database when its transaction begins, a folded one by the
server when it writes; that the two may differ in order is what this module is about.
It assumes one clock whose readings differ: clocks that disagree, and two writes within a millisecond, are not
modelled.

*Abstractions.* A text is the number of its writing. Who may see or merge what is `WikiEditing`'s subject,
the tree `WikiTree`'s: parents, titles that are missing, permissions end a call as `Stop` does.
Links are derived from the content on every save and publication; a rollback does not recompute them. `createWikiPage`,
which nothing in the user interface calls, makes a page and its first revision without a draft; it is in `WikiTree`.

## 3. Runs

| Run | Instance | Asks | Result |
|---|---|---|---|
| `menu_claims` | 1 source, 2 invocations, 3 runs, a quota of 3, time to 4 | `ClaimIsTheRunningRun`, `RetrySpacing`, refinement `PublishesAsSpecified` | holds |
| `menu_windows` | 1 scoped source, 2 invocations, 3 runs, 2 publication keys, a quota of 2, pruning, a window boundary | `EmptyMenuConfirmed`, `RetryBudget` | holds |
| `menu_ends` | 2 switchable sources and canteens, 2 invocations, 2 runs, time to 1 | `ChecksAgree`, `InvocationsEnd` | holds |
| `tree_moves` | 3 pages, or one beside a draft, 2 calls, every forest as a start, 2 pages edited once each and restored at will | `OrphansArePublished`, `CyclesPassThroughPublished`, `MovesRespectHistory` | holds |
| `tree_publish` | pages and drafts | `Forest` | **violated** (finding 1) |
| `edit_saves` | 2 tabs, 2 blocks, 3 texts, 3 edits, 1 loss | `NoSilentLoss`, `AnswersKeepTyping`, `PageSaveNeverConflictsWithItself` | holds |
| `edit_faults` | 1 tab, a title and a block, 3 edits, 1 loss, 1 reset | `AtRestMeansPersisted`, `NoSaveAcrossGenerations`, `Settles` | holds |
| `edit_draft` | 1 tab, 2 edits | `SaveNeverConflictsWithItself` | **violated** (finding 2) |
| `history_sittings` | 2 authors, 2 calls, 2 texts, a sitting of 3, nothing begun from time 6 | `HistoryKeepsEverySitting`, `NewestRevisionIsThePage`, `OneCreation` | holds |
| `titles` | 4 courses in 3 subjects, 5 titles, 2 person titles, 4 catalogs, 2 calls | `TitlesAreEarned`, `NothingOrphaned`, `DeletionNeverBlocked`, `ConfirmedDeletion`, `TitlesLostOnlyWhenNecessary`, `PrimaryFollowsTitles`, `LoneSubmissionKeepsItsText`, `RegularRatingsFirst`, `TypeOK` | holds |
| `storage` | 2 photos, 3 uploads (2 of one id), a discard, a cleanup, 1 place, 1 fault, time to 3 | `ReadyPhotosStored`, `BoundPhotosKept`, `UploadsKeepTheirRow`, `LeftoversReconciled`, `TypeOK` | holds |
| `map_publish` | 2 tabs, 3 keys, 2 payloads, 1 foreign publication, 1 edit, 2 moves, 1 fault | `OnePlacePerDraft`, `OneNotice`, `PublishingIsUnderWay`, `HandOffIsOfThisDraft`, `DraftsKept`, `TypeOK` | holds |

*Why the bounds suffice.* Two invocations and three runs let a claim be granted, expire, be
superseded and its successor finish while the first is still at work. In `menu_claims` time 4
lies past the initial delay, a claim's life and both retry delays, all within one window, so that
retries are counted together; the quota of 3 is the code's, and the third run is the first that the later
delay can hold back. In `menu_windows` the three runs are an empty observation, a run between, and an
observation that might be confirmed, with the same key or another; its windows are three long, so that
all three start in one meal period or a boundary parts them, time 4 prunes a run of time 0, and a quota of
2 is exceeded by the third failure. In `menu_ends` one tick lets a claim expire; the waits are for row
locks, which time does not release. Three pages are the smallest cycle through a third page and the smallest subtree with a
deleted ancestor; two calls and two
edited pages are the two movers of the lock's comment (`MaxEdited` bounds the pages that are edited, so a third
is created, restored or a bystander; `MaxBeside` keeps a draft to a company of one page, whose deletion is what makes an orphan of it). Three texts are a base, mine
and theirs; two blocks distinguish edits of different blocks from a conflict in one; three edits
are one before, one during and one after a save. In `history_sittings` there is time for a publication, two overlapping
saves or a save and a rollback, a long pause at any point, and a continuation or not of what came before. In `titles` the courses are one of the fallback subject,
two of one regular subject and one of another: enough to displace a rating along an augmenting path, to
replace fallback evidence, and to choose between two titles that want one rating; chains are
two tiers long, and a tier is contested by another programme. In `storage` two requests of one id contend
for a lease of one tick within a life of two, and the cleanup takes one of two photos at a time; one
fault at a time is what each recovery is written for (the theorems cover any number). In `map_publish`
three keys are the first attempt, an acknowledged or edited one and one more; two tabs are a tab and its copy; one
timeout makes a late request, and two moves close a form and open it again or copy and reload. The theorems of section 5 do not depend on any of
these bounds.

*Type invariants.* `TypeOK` of `MenuSync`, `WikiTree`, `WikiEditing` and `WikiHistory` says nothing but types; it is proved
(section 5) and no run repeats it.

*Deadlock checking* is off in every run because each instance has an end that is none of the
code's: run ids and the clock, page versions, and edits are bounded, and a user may stop
typing, rating or publishing. What could hang is asked by liveness properties instead
(`InvocationsEnd`, `Settles`, `LeftoversReconciled`).

*Symmetry* is used for invocations, calls, tabs, texts and blocks where the specification and the
properties treat them alike, never in a run with a liveness property.

## 4. Fairness

`InvocationsEnd` assumes strong fairness of each invocation's steps: a function that is not
stopped goes on, and PostgreSQL queues the waiters of a row lock, so that a lock which
becomes free again and again reaches each of them. Nothing makes an invocation start or
stop, and nothing makes a provider answer well. `Settles` assumes weak fairness of the
timer, of the steps of a run, of the server for a request the tab awaits, and of the
continuation with its answer. There is none for typing, explicit saves, the user's choice in a
dialog, a stray request, or other people. `LeftoversReconciled` assumes weak fairness of the steps of
a request that is not killed, of the clock, and of the cleanup, which the cron job calls again every
day; nothing makes anybody upload, discard or publish, and faults are bounded. The other
properties hold without fairness.

## 5. Proofs

Everything below is proved for all values of the constants that satisfy the modules' named
assumptions: any number of sources, invocations, pages, tabs, fields, texts, authors, calls, photos, jobs and keys, any bounds
(run ids are assumed a finite set of positive numbers).

* **Menu synchronisation** (`MenuSyncProofs`). The first inductive invariant, `IInv`, joins `TypeOK`,
  what an invocation between claim and finalisation knows of its run, "the token of a
  source names its only running run", and "run ids are drawn in order".
  The second part is needed because `ClaimIsTheRunningRun` alone does not survive
  `Fail`: the step writes to a run it remembers from an earlier transaction.
  From it follow `ClaimIsTheRunningRun` and `ChecksAgree` (the two internal errors of the code
  cannot be thrown).
* **The history of runs** (`MenuSyncProofs`, theorem `History`). `EmptyMenuConfirmed`, `RetrySpacing` and
  `RetryBudget` speak of runs that ended long ago, of which some rows are pruned. `HInv` therefore
  keeps, for every run, what its claim relied on (`ScheduleOK`: a scheduled run was due, had failures left and had
  waited), restated in terms of ids and start times that never change, so that later rows do not
  disturb it; that a running run is the newest of its source (`ClaimsOK`); what an invocation remembers of
  times (`MemoryOK`); and, for an invocation on its way to publish an empty menu, that the run which
  confirms it exists and that only rows old enough to be pruned are missing between the two (`EmptyOK`). The
  lifetimes in `LifetimeAssumption` are what makes a pruned row one that nobody still needs.
* **Refinement** (`MenuSyncProofs`, `MenuPublisherProofs`). Each step of `MenuSync` is a
  `Grant`, a `Publish`, a `Release` or a stutter of `MenuPublisher`; in
  `MenuPublisher` a menu is never replaced by what an earlier claim observed.
* **Wiki tree** (`WikiTreeProofs`). Every page that never was a draft has a live parent while it is
  live, and every cycle passes through a published page. The invariants carry what a call
  holding the lock has checked, so that they survive until it writes. Where no page can be
  published from a draft, the pages are a forest in every reachable state (`LockedForest`). `History`: a
  parent is replaced only by an edit whose base had that parent, in one generation.
* **Wiki editing** (`WikiEditingProofs`). The invariant `Sight` relates what each tab and each
  request believes of a generation (`held`, with the version it was held at) to the row, for the
  row, tabs, requests and awaited answers in turn; from it `NoSilentLoss`,
  `NoSaveAcrossGenerations` and `AnswersKeepTyping`. A second invariant on
  snapshots, timers and errors gives `AtRestMeansPersisted`. A third, `Alone`, says of a tab whose page nobody else
  changed and whose answers all arrived that its baseline is the document the page has, or becomes it with the
  answer on its way, whatever its version says: the merge then takes the tab's own text in every field
  (`PageSaveNeverConflictsWithItself`).
* **Wiki history** (`WikiHistoryProofs`). The invariant `IInv` adds to the types that the newest revision is of the
  page's sitting and no newer than the page (`Told`), that dates are distinct (`Dates`; the clock of the model gives
  each reading once, so two writes in one millisecond are not covered), and what a call between its
  beginning and its write may count on (`CallOK`): nothing has its date, and as long as the page has
  the version it read, nothing has a later one. Therefore a new revision is the newest one, and a fold
  never crosses another's write. The exception `overtaken` is exactly where `CallOK` has nothing to say: a rollback
  does not compare versions.
* **Matching** (`AchievementsProofs`). `MatchingSound` and `MatchingComplete` are about the code's recursion for every
  sequence of slots and every set of ratings: what is seated is seated properly, and a rule is met exactly if its
  slots can be filled. The hard half is that the shared `visited` set, which never lets a slot be looked at
  twice, loses no way. The proof keeps, for every attempt that failed, the set of slots it looked at: their
  ratings accept slots of the set only (`DeadEnds`), later attempts never touch it, and so the rating it failed for
  has no place (`Tried`). Recursive calls are followed from the least counterexample of a weight
  that decreases (slots not yet visited, then slots not yet tried). From the same facts, no way to fill the
  slots uses fewer fallback ratings than the code's (`FewestFallbacks`).
* **Titles** (`AchievementsProofs`). The inductive invariant `IInv` adds three parts to `TypeOK`. `TitlesOK` gives the titles
  their shape: a prerequisite is of a lower tier, each title is required by one other at most, a
  superseded title is required by one that is held, is a source of one active person title or was left
  behind by one (`LeftBehind`: such a title stays superseded for good), and
  an active person title has the sources of a recipe. `EarnedOK` is `TitlesAreEarned` with the two
  unique indexes and "person titles have no evidence". `CallsOK` ties what a call has read to its
  stage. Without the shape nothing holds: a deletion acts on the one chain it finds, and only because
  two chains never meet (`ChainsMeet`) is that the only one the rating belongs to. From `IInv` follow the
  four invariants and, with it, the five properties of steps. `TitlesLostOnlyWhenNecessary` rests on
  `MatchingComplete`; `RegularRatingsFirst` on `FewestFallbacks` and on the fact that each chain is
  rebound once, so that what other titles use at its turn they use before or afterwards.
* **Place photos** (`PlacePhotosProofs`). The invariant adds to `TypeOK` that a token belongs to an upload of its
  photo, that a job which still owns its row has the objects it put, that a photo whose objects a job is about to
  delete stays on its way out, and that a binding has cleared the date of expiry. The second and third except
  the photos in `overlapped`. The third is what makes a late deleter harmless otherwise, the fourth what makes the stale reading of the bindings
  harmless. `Served`, `Bound` and `Leases` follow.
* **Publishing** (`MapPublishProofs`). `TabOK` relates session, snapshot, scene and run of one tab: a
  run belongs to the draft the session or the hidden snapshot holds. With `ReceiptsAreEarned`
  (a run looks for a place only once the server holds its command) and `ConsumedOnce` (a completed
  receipt has no run refreshing it, and one run per attempt refreshes) it gives `OneNotice`,
  `PublishingIsUnderWay`, `HandOffIsOfThisDraft` and `DraftsKept`.
* **One place per draft** (`MapPublishProofs`). `OnePlacePerDraft` compares two publications, but what
  the second one's author saw was fixed long before. The invariant `OneDraft` is therefore about
  every command there is, in a form, a snapshot, a run, on its way or published: as long as the
  draft has not been changed behind a request, all say the same, so that the duplicate check finds the
  earlier publication among what the later one has to have seen; and where the check does not
  apply (no precise point) they all have one key. The latter needs `Fits`: nobody is warned
  of duplicates, and so given a new key, where the check does not apply.

*What is assumed of the constants* is what the code validates: `CatalogAssumption`, `TierAssumption` and
`PersonRuleAssumption` are the checks of `validateAchievementCatalog` and `createPersonTitleRecipe` and the rule row that
is inserted for each person title, without a prerequisite; `CourseAssumption` says that courses are finitely many and have a
subject. No assumption is made about what the matching computes.

*Only model-checked:* the liveness properties `InvocationsEnd`, `Settles` and `LeftoversReconciled`
(liveness and ENABLED are out of the prover's reach). Every invariant and every property of steps
that a run checks and that holds is also proved. The library's induction
theorems, which take an operator, cannot be instantiated; recursion is followed by least counterexamples instead.

## 6. Findings

1. **A published draft may hang below a deleted page, and pages may form a cycle.**
   `publishWikiDraft` checks its parent and inserts the page without the tree
   lock (`src/lib/wiki-draft-actions.ts:250`). `tree_publish` shows a deletion in
   between. The cycle check of a later move follows live pages only, so the deleted
   ancestor hides part of the tree from it. `Orphans` and `Cycles` prove that publication is the
   only cause, `LockedForest` that without it nothing goes wrong.
2. **The only editor of a draft can be stopped by a conflict with their own text.** The
   editor keeps a stale version when text drifted during a save and relies on the
   server's merge; `updateWikiDraft` does not merge. `edit_draft` shows it in one edit during
   a save; `PageSaveNeverConflictsWithItself` shows that pages are free of it.

Behaviour the models show, which no text of the repository contradicts sharply enough to
be a violation run, or which a property records as an exception:

* **An edited draft may make a second place.** After a lost answer or a temporarily unavailable one the
  sheet draws a fresh key (`edit-sheet.tsx:523`), although the first request may have been carried out
  or still be. `OnePlacePerDraft` excepts a draft changed in that state (`forked`).
* **Going back while publishing drops an uncommitted draft**: the session itself rejects the request to close
  (`edit-session.ts:883`), but the run that returns to another scene releases it (`use-campus-map-edit-session-owner.ts:139`);
  **a first failed account lookup** leaves the attempt unbound, so that checking the result never
  gets past identity-unavailable (line 311); **a reused key** is reported to the same account as belonging to
  another one (`publish.ts:300`).
* **A late deletion may take the objects of a repeated upload.** A failed upload and the cleanup may both claim one
  row; when the first has deleted objects and row, the same id may be reserved again
  (`place-photo-assets.ts:100` asks only for a row), and the second then deletes the objects of the new
  photo, which stays ready without them. `ReadyPhotosStored` excepts exactly this (`overlapped`), and TLC
  finds it within 15 steps without the exception. The client draws a fresh id for
  every picture, so that it takes one request to be sent twice.
* **A rollback may be dated before the save it undoes.** The revision of a rollback gets the time its
  transaction began (`src/lib/wiki-actions.ts:816`), and its UPDATE takes the row whatever was saved since.
  When a save begins and commits between the two, its revision stays the newest although it was undone; its
  author's next edit within five minutes is folded into it and erases the text that was rolled back. With a
  sitting of 4 and time to 7, TLC finds this against `OnlyConsecutiveWritesCoalesce` in a few seconds. `docs/development/wiki.md:40`
  says that a "rollback creates a new revision instead of rewriting history". `HistoryKeepsEverySitting` and
  `NewestRevisionIsThePage` except exactly this (`overtaken`), and `Kept` and `Newest` prove that nothing else does it.
* **A draft saved while it is published** may lose the acknowledged save: the publication copies what it read
  and deletes the row by its id (`wiki-draft-actions.ts:275`).
* **Revoking a person title strands what it was fused from.** `revokeProfessionalAchievement` takes any
  title of the student by its id (`achievement-actions.ts:562`); only the dialog, which offers it for professional
  titles alone, keeps it from person titles. Unlike dismantling, it leaves the sources superseded, with the rows that name them.
  They can never be redeemed (they are held), fused (they are not active) or dismantled again, and
  their ratings can no longer be deleted: the recomputation finds no active title to lower, and
  `achievement_evidence` refuses the deletion. `NothingOrphaned` and `DeletionNeverBlocked` except
  exactly this (`stranded`), `NoOrphans` and `DeletionsGoThrough` prove that nothing else does it, and TLC
  finds it without the exception.
* **A submission overtaken by a deletion or another submission** may lose its text or leave two
  reviews (`course-review-actions.ts:1592`): `LoneSubmissionKeepsItsText` is about the ones nobody
  overtook. The primary title may be one lost between its check and its write.
* **The order of chains decides who pays with fallback ratings.** A submission rebinds one chain after the other in
  the order the database returns them (`achievement-recompute-db.ts`). A chain whose turn comes early does not see the
  regular rating that a later one gives up, and keeps a fallback rating it could have done without.
  `RegularRatingsFirst` therefore counts the regular ratings that no other title uses before or afterwards.

## 7. Not modelled

Rendering, formatting, translation, parsing of provider menus, authentication (a library's),
scrapers, imports and read models. Pure computations over fixed data (course tree, college
picker) are covered by unit tests. Of the modelled parts: achievement notices, hidden titles,
likes, replies and the administrator's deletion; the hourly upload limit, the deletion of an account that owns
photos, the order and number of a place's photos; `USE_CURRENT_FACT`, a second account in one
browser, failures of localStorage, local validation, the contributor's setup and the rate
limit's timer in the edit session. The remaining hazards are listed with their lines in
`PROJECT.json`.

## 8. Plan

In order of importance; each is a module, its MC module, a run and proofs.

1. An abstract specification of `PlacePhotos` (a photo is absent, uploading, served or leaving) and the
   proof that it is implemented; the same for the page of `WikiEditing` as a register with merges.
2. The composition of `PlacePhotos` with `MapPublish`: a replayed publication binds its photos once.
3. `NoteOutbox` (a delivery lease outlived by its holder), `TreeProjection` (pending
   changes over newer pages) and `MenuMutation` (merges against voters).
4. The lifecycle of achievement notices and of the edit session's second account.
