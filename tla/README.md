# Verification of wt-cockpit

wt-cockpit watches the git worktrees in which agents work. The daemon `wtd`
diffs every worktree against its base branch, keeps the picture in memory,
remembers which files a user has reviewed, and merges a worktree once all of its
files are reviewed. A terminal cockpit, a command line and web pages show the
picture and send the toggles.

This directory holds TLA+ modules translated from the Go source, TLC
configurations that check them on small instances, and theorems proved with
TLAPS. `PROJECT.json` maps every definition to the lines it models; line
references below are to `src/`.

Run a check with `tlc -workers 2 -config <X>.cfg <Module>.tla` and a proof with
`tlapm <Module>.tla`.

## 1. The system

### Components

| Component | State | Operations | Modelled in |
|---|---|---|---|
| **engine** (`internal/engine/engine.go`) | `cache` (last diff and branch per worktree, under `mu`), `firstScanDone`, `refreshMu` | `Refresh`, `RefreshOne`, `Approve`, `SetReviewed`, `ReviewedMap`, `Diff` | `Engine` |
| **comments** (`engine/comments.go`, `store`) | comment rows, capped at 500 a worktree | `AddComment`, `Comments`, `ResolveComment`, `DeleteComment` | `Comments` |
| **gitbackend** (`gitbackend.go`) | none; git's own | list worktrees, diff, dirty, branch, merge with abort, remove | its effects, in `Engine` |
| **registry** (`registry.go`) | rows, subscribers with bounded channels | `Upsert`, `Remove`, `List`, `Subscribe`, `publish` | `Bus`; the rows also in `Engine` |
| **store** (`sqlite.go`, `store.go`) | marks and comments | `SetReviewed`, `Unreview`, `ReviewedFiles`, `ClearWorktree` | marks in `Engine` |
| **store opening** (`open.go`, `sqlite.go`) | the database file, `state.json`, the sentinel row | open, migrate, import once, move aside, unwind | `StoreOpen` |
| **HTTP API** (`cmd/wtd/main.go`) | none | review, approve, refresh, list, diff, event stream | calls in `Engine`; the stream in `Bus` |
| **event stream client** (`client/sse.go`, `tui/conn.go`) | the connection, frames not yet handled | connect, relay, reconnect | `Bus` |
| **cockpit rows** (`tui/app.go`, `sidebar.go`) | the rows shown | apply delta, snapshot, list | `Bus`; selection and filter in `Cockpit` |
| **cockpit diff pane, toggles, approve dialog** (`radar.go`, `review.go`, `approve.go`) | diff cache (LRU), current worktree, dialog | fetch, toggle optimistically, submit, cancel | `Cockpit` |
| **web room** (`internal/web`, `static/app.js`) | a page: containers, strips, orphans, banner | load, subscribe, fetch a fragment, resolve, delete | `Room`: the comments of the reading room |
| **notifier** (`internal/notify`) | pending groups, cooldowns, window timer, the batch being fired | ingest, flush, fire | `Notifier`, `Alerts` |
| **watcher** (`internal/watcher`) | watched directories, counts, debounce timers | handle event, debounce, reconcile, hint | `Watcher`; its calls are arbitrary calls in `Engine` |
| **guardrails** (`internal/guardrail`) | per-repository cache of packs | compile, merge packs, evaluate, match globs, resolve | `Guardrail`, `Resolver`; a hit is a property of a hash in `Engine` |
| **diff parser** (`diffparse`) | none | parse | `DiffParse` |
| **discovery** (`discovery`) | none | walk, filter | its outcome, in `Engine` |
| **HTTP client** (`client/client.go`) | none | one request per call | what a request comes to, in `Cockpit` and `Bus` |
| command line, index page, configuration, rendering | none another part depends on | format | not modelled |

### How they interact

- The **watcher** and the HTTP handlers call the engine from their own
  goroutines. `Refresh`, `RefreshOne` and `Approve` hold `refreshMu` from
  beginning to end, git commands included; `SetReviewed` and the comment
  operations hold nothing across their steps.
- The **engine** reads git, which agents and users change at any time, writes
  its cache, then the store, then the registry: three writes, three locks, no
  transaction over them.
- The **registry** publishes one event per change after it has released its
  lock, and drops the event for a subscriber whose channel is full.
- A **client** connects, gets a `snapshot` marker, fetches the list, and edits
  its rows by each delta that follows. List answers come back through another
  goroutine than the deltas.
- The **comment operations** look at the cache, write to the store and publish,
  each under its own lock; a page of the **web room** is told by the event stream
  to fetch again what it shows, and puts it together from three separate reads.
- The **guardrail resolver** is asked by refreshes, approves and `GET /api/rules`
  at the same time, while somebody edits the pack in the main worktree.
- The **cockpit** handles keys, events and answers one at a time; each of its
  requests runs in a goroutine of its own and is answered in any order.
- The **store** outlives the daemon; cache and registry do not. A second daemon
  on the same paths replaces the socket of the first and opens the same
  database.

### What is hard, and the properties it calls for

- *Gates that check one thing and act on another later.* Approve must merge what
  was reviewed: `MergesOnlyVetted`, `ApproveMergesOnlyVetted`,
  `RemovalLosesNothing`.
- *Marks stored after the diff they were checked against has been replaced*:
  `MarksAreVetted`; *marks that go away for another reason than a change*:
  `MarksSurvive`.
- *Rows written back by an unlocked toggle, worktrees forgotten by one call and
  brought back by another*: `CachedIsVisible`, `GoneStaysGone`, `Converges`.
- *"New" computed against memory that a restart or a failed scan lost*:
  `NoReplay`.
- *One mutex over git commands and many early returns*: `CallsReturn`.
- *Two writers' events in the other order than their writes, dropped events,
  list answers that overtake deltas, reconnects*: `InSync`, `CatchesUp`.
- *A window opened by one side and judged by another, cooldowns that start before
  the notification, a storm in place of groups*: `WindowArmed`, `Implements`,
  `EveryHitTold`.
- *A one-time import between two files, with crashes and a second daemon*:
  `ImportsOnce`, `ServesImported`, `RenamedAfterImport`, `StartsEnd`.
- *Comments added while their worktree is approved, a cap over concurrent adds,
  writes that fail after memory has changed*: `CapHolds`, `Durable`, `Outlived`.
- *A page made of three reads and told of changes by a channel that drops*:
  `RoomInSync`.
- *A tree walked while it changes, counts of what is watched, timers reset by
  every event*: `Complete`, `Counted`, `HintsFire`, `ChangesNoticed`.
- *Toggles shown before they are confirmed, answers out of order, a dialog
  cancelled while its request runs*: `NeverStuck`, `PaneFresh`, `MarkAgrees`,
  `ApprovingIsTrue`.
- *A cache of rules keyed by time and size, packs that must not switch the global
  rules off by being wrong*: `RulesInForce`, `StampTells`, `FailsClosed`,
  `EditTaken`.
- *Text that looks like syntax*: `ParseExact`, `GlobsExact`.

`PROJECT.json` lists these and the other hazards at the line where each bites.

## 2. Modules

### Engine

Worktrees, files, hashes and branches are small sets. A worktree's content *is*
its diff against base: each file maps to the hash of its change, or to `Same`.
This is what the code compares (`fileHash`, engine.go:719-746), and it makes
staged, unstaged and untracked changes alike, as `DiffAgainstBase` does.

| Model | Code |
|---|---|
| `live`, `branch`, `work`, `tip` | what git lists, has checked out, has in the working tree, has committed |
| `cache`, `reg`, `firstScanDone` | `Engine.cache`, `Registry.wts`, `Engine.firstScanDone` |
| `owner`, `req`, `scan` | the holder of `refreshMu`, the calls running or waiting, the holder's locals |
| `rev` | one user's open diff, then the locals of `SetReviewed` |
| `marks` | the table `reviewed_files` |
| `Acquire` | taking `refreshMu`, and the looks at the cache right after it |
| `Discover` ... `Sweep`, `Abandon` | `Refresh`, one step per access to shared state |
| `ReadBranch` | `refreshOneLocked` (RefreshOne and Approve) |
| `ReadDiff` ... `Upsert` | `refreshWorktree` with `pruneReviews`, `publishNewGuardrailHits`, `buildWorktree` |
| `GateReviewed` ... `Forget`, `Refuse` | the gates, the merge and the cleanup of `Approve` |
| `View`, `Post`, `StoreMark`, `GetRow`, `PutRow` | GET diff, POST review, `SetReviewed` |
| `Restart` | the process ends anywhere and starts again |

Errors are alternatives of the step that meets them, switched on by the constant
`Faults`: `discover`, `list`, `branch`, `diff`, `dirty`, `merge`, `remove`,
`store`, `cancel`, `crash`. Agents edit, commit, check out, add and drop
worktrees; `switch` is a checkout in a main worktree.

History variables record what no program variable does: `vetted` (every mark a
user asked for), `torn` (git moved since a running approve began to look),
`landed` (the last merge), `standing` and `alerted` (hits).

### Bus

The path from a row of the registry to a row on the screen. `reg` is written by
writers that work off short programs: write the row, then publish (registry.go:
65-95 publishes after the unlock). The subscriber's channel, the frames under
way and the answers of list fetches are separate queues, as the goroutines are.
The client's `snapshot`, deltas and notices are handled as `appModel.Update`
does. `blame` is history: what has befallen the view since the client last
subscribed - an event dropped, a delta overtaken by a newer write, a list shown
late, a fetch failed. Rows are a diff token and a count of reviewed files.

### StoreOpen

Files are inodes, so that a daemon keeps using a file whose name was moved or
removed. `Start` to `Unwind` are `openSQLiteWithImport`, `OpenSQLite`, `migrate`
and `runImport`, step by step; `lock` is SQLite's write lock, which immediate
transactions take first. One mark and one comment stand for the rows: users of
a running daemon mark anew and delete the comment (`Use`), which tells a second
import from the first. SQLite itself is external: an uncommitted transaction
leaves nothing behind, and a crash releases its lock.

### Notifier and Alerts

`Notifier` is `Run` over the coalescer: `Publish` is the registry's send to the
notifier's channel, `Skip` and `Ingest` are `ingest` with `accept`, `Flush` is
the end of the window with `flush`, and `Fire` is one call of `fire` out of
`flushAndFire`, during which the loop reads nothing. `told` names the worktrees
of the notification being executed: an exec that fails is logged and not
repeated, so that "told" means attempted. An event that `Skip` drops stands for
all events the notifier does not care about. Time is counted in ticks; a
cooldown that has passed and one that was pruned are the same 0.

`Alerts` is what that amounts to, without channel, window, groups and storms: a
hit is taken on only after its cooldown, its worktree is owed a notification
from then on, and a notification settles all that is owed for the worktrees it
names. `Notifier` implements it with `owed <- pending + batch`, `quiet <- cool`.

### Comments and Room

`Comments` has the three operations of `comments.go`, each with the look at the
cache, the write and the publication as separate steps, over the SQLite store
(one transaction) and over the JSON store (memory first, file afterwards, the two
told apart by `rows` and `disk`). Refreshes, approves and restarts are there as
far as they touch cache and comments. An id is never given twice (crypto/rand).

`Room` extends it by one page of one worktree. The page and every fragment are
put together from the cached diff, the cache as `Engine.Comments` sees it and the
store, one read after another. `base` are the containers the page was made with:
a strip of a file that has none is put nowhere, and the banner then asks for a
reload. `ReadRowsFails` is the read of the store that fails, whose error both
handlers drop. `torn` is history: the page, or the fragment last due, is known to
be incomplete, because it was lost, overtaken by an older one, or made without
the comments. Events come over the channel of
`Comments`, whose drops the page is not told of. `untold` is history as well: the
comments that a write of the JSON store has changed although it failed; no event
follows such a write, so that a page knows of it only if it fetches later.

### Watcher

One goroutine (`loop`), the kernel's queue, the timers and the goroutines blocked
on `fired` (`timer`, `fired`). `Handle` is `handleEvent` for every kind of
place, `Walk...` is `addTree`, one directory at a time, and the listing of git and
the kernel's answers of `reconcile` are steps of their own, each of which may
fail. Agents make and remove directories, write files, and add and remove
worktrees at any moment. `dirty`, `owed` and `excused` are history: what changed
since the last hint, where the watcher listened at that time, and the worktrees
of which the code cannot know everything: at the cap, after a failed call,
removed and put back at the same path before the watcher forgot the old one, or
with a watched directory that went away while its parent, put back, was not
watched yet. Directories form a tree: every set of them has one whose parent is
outside the set.

### Cockpit

`Cockpit` is `appModel.Update` with the part of the daemon it can see: a diff and
a mark per worktree, with `review`, `approve`, `diff` and `list` served in any
order (`Serve`), heard in any order (`Hear...`), and events that may be lost with
the connection. A diff is served as `handleDiff` does it, in three reads with
nothing held between them: the diff (`ServeDiff`), the cache again for the hash a
mark is compared with (`FindFiles`; the worktree may be gone by then), and the
store (`ReadMark`, or `UnreadMark` when it fails). `EnsureDiff`, `OnDiffReady`, `OnReviewOK`, `OnReviewRefused`,
`Toggle`, `Ask`, `Submit` and the others are the functions of `radar.go` and
`approve.go` under those names. `blame` records what befell the client's copy of
a worktree's diff since it last heard a fresh one, under the names of the
behaviours in section 5; `PaneFresh` and `MarkAgrees` say that without any of
them the screen is right.

### Guardrail, DiffParse and Resolver

`Guardrail` holds the rules as operators: `Compiles`, `Merge`, `Eval` and the
matcher of token rows, which `GlobMeans` states anew from its comment. `DiffParse`
is `Parse`, one line after another (`Scan`, `Take`); the lines git prints of a change
are `Printed`, and `Meant` is the reference: the file a change was printed for.
Both modules use recursive functions and folds, not RECURSIVE operators.
`Resolver` uses them: `Stat`, the lock, the comparison of stamps, the read and the
merge are steps of each caller, and one caller evaluates a diff with what it
resolved. A stamp is a counter of changes of time and size; an edit that leaves
both as they were sets `blurred`.

## 3. What the runs check

`pass` means TLC explores every reachable state and finds no error.

| Run | Instance | Checks |
|---|---|---|
| `engine_gate` | a repository with its main worktree and one agent's worktree, one file, two hashes, one caller, one reviewer | `MergesOnlyVetted`, `MarksAreVetted`, `MarksSurvive`, `RemovalLosesNothing` |
| `engine_faults` | the same with one hash, worktrees dropped and added, every error but `branch`, crashes | `TypeOK`, `CachedIsVisible`, `MergesOnlyVetted` |
| `engine_scan` | two repositories, two callers, all three calls, commits and checkouts of other branches, failing and cancelled scans, restarts, a hit | `NoReplay`, `GoneStaysGone` |
| `engine_live` | fairness; edits, commits, drops; a reviewer; failing merges and removals | `Converges`, `CallsReturn` |
| `bus_live` | fairness; one row, a channel of one, two list fetches, two writes, two troubles | `InSync`, `CatchesUp` |
| `store_open` | fairness; two daemons, three starts, two faults out of all, six inodes, every initial pair of files | `TypeOK`, `ServesImported`, `RenamedAfterImport`, `ImportsOnce`, `StartsEnd` |
| `notifier` | fairness; three worktrees, a rule above and one below the floor, a channel of two, storms from three worktrees on, window and cooldown of two ticks | `WindowArmed`, `Implements`, `EveryHitTold` |
| `comments` | one worktree with its page, one file, two ids, two requests at once, both stores, a cap of one, a channel of one, two fragments, one edit, one failing read or write, crash or lost connection | `CapHolds`, `Durable`, `Outlived`, `RoomInSync` |
| `watcher` | fairness; one worktree with a directory in a directory, a cap of three, four changes or failures, at most one of them a failure | `Complete`, `Counted`, `HintsFire`, `ChangesNoticed` |
| `cockpit` | two worktrees, two hashes, a cache of one, two requests and three events under way, five units of work (a key costs one, the esc of a dialog nothing, a change by others or a failure two) | `NeverStuck`, `PaneFresh`, `MarkAgrees`, `ApprovingIsTrue` |
| `guardrails` | fairness; two callers, one of which evaluates, four global rules, seven packs, two edits, one failing read, a scan of two added lines; all patterns of up to four characters of `a / * ?`, all paths of up to four, and files of every status with up to two hunks | `RulesInForce`, `StampTells`, `FailsClosed`, `GlobsExact`, `ParseExact`, `EditTaken` |
| `engine_race` | the smallest instance that shows it | see Findings |

The type invariants of `Bus`, `Room`, `Watcher`, `Cockpit` and `Resolver` are
conjuncts of `InSync`, `RoomInSync`, `Counted`, `NeverStuck` and of the proved
`TypeCorrect`.

**Why the bounds are enough.** The engine keeps its state per worktree and per
file, and only `Sweep` and `FindBase` look across worktrees: one worktree under
review, the one that holds base and, for the scans, a second repository give
every combination. Two hashes tell "changed" from "as it was"; a third could
only repeat "changed". Nothing in `Engine` is counted, so no bound cuts off a
behaviour: the runs of `Engine` cover unbounded sequences of calls. In `Bus` a
channel of one fills with the first undelivered event, two fetches are the least
that can be answered out of order, and two writes the least that can be
published out of order; a reconnect and one more accident fit in two troubles.
In `StoreOpen` three starts let two daemons race and a third come after them, two
faults let a crash in one meet a failure in the other, and six inodes are as
many as three starts can create or move aside. In `Notifier` three worktrees give
groups and a storm, a hit can come again while its group still waits, and a
channel of two fills while a notification runs.
In `Comments` and `Room` two ids against a cap of one are the fewest that two
requests can get past it, a channel of one drops the second event, and two
fragments can be answered with an edit between them. In `Watcher` a
directory in a directory lets the walk and an event find the same one, a cap of
three is reached only by counting one of them twice, and four changes let a
worktree go and come back with a directory. In `Cockpit` a cache of one evicts at
every second worktree, two requests are the least that can cross, and five units
of work make up a toggle with a change between it and its answer, or a dialog
that is submitted, cancelled and opened and submitted elsewhere. In `Resolver` two edits let a
resolution read what is later than its `Stat`.

`engine_scan` leaves out the failing `git worktree list`, because with it
`NoReplay` does not hold: the sweep forgets the worktrees of a repository that
could not be listed (engine.go:480-500), and the scan after it publishes their
standing hits as new.

`Bus` and `StoreOpen` configurations switch deadlock checking off: with the
bounded writes and starts used up, a system at rest has nothing left to do. So
do those of `Notifier`, whose loop returns at shutdown, and of `Room` and
`Cockpit`, which end when work is used up and the page or the client waits.
`Engine`, `Watcher` and `Resolver` never stop, and their runs check deadlock.
`Room` and `Cockpit` are checked with symmetry, over safety properties only.

**Fairness.** *Engine*: a goroutine that runs keeps running and git commands
return (weak fairness of the steps of a refresh, an approve and a toggle);
`sync.Mutex` is starvation free, so whoever waits gets it (strong fairness of
`Acquire`); the watcher's ticker keeps asking for full refreshes
(watcher.go:20-43, fswatcher.go ticker; strong fairness of some `CallRefresh`).
Agents and users owe nothing. *Bus*: the writers, the stream with the client's
endless reconnecting (conn.go:64-94), Update and each fetch keep running; nobody
has to write and nothing has to fail. *StoreOpen*: a process that opens the
store runs on, and SQLite serves the waiters of a lock. *Notifier*: time passes,
a window that has ended is served before the next tick (a tick is long against a
turn of the loop, and `select` chooses at random among what is ready), and an
exec ends, since its context kills it after `execTimeout`. Nobody has to trip a
guardrail. *Watcher*: the goroutine keeps running and git returns (weak fairness
of `Step`); `select` chooses at random among what is ready, so an event, a tick
or a blocked hint that is ready again and again is served (strong fairness of
`Handle`, `Tick` and `TakeFired`); timers run out. *Resolver*: each caller
keeps asking, as the refreshes of the tick do, and its calls go on. `Comments`,
`Room` and `Cockpit` assume none: their properties speak of states at rest.

### Findings

Runs with `expect: violation`; each checks one statement of the repository's
own comments or README.

- `engine_race`: a commit made after Approve's re-diff and before its merge is
  merged unreviewed (engine.go:356); the comment at engine.go:288-290 says that
  it must not slip past the gate. `MergesOnlyVetted` shows that such a commit is
  the only way.

## 4. What is proved

For every value of the constants allowed by their assumptions. TLC agrees with
each formula on the instances above.

**EngineProofs.** Assumptions: `File` finite, the types of the constants, and
that the markers `Same` and `None` are not among the values.

- `TypeCorrect`: `Spec => []TypeOK`. By itself `TypeOK` is not inductive: a step
  uses locals and cache entries its predecessors left behind. `TInv` adds
  `ScanShape` (what each phase of the lock holder has set, its cache entry
  included), `ReqShape` and `RevShape`.
- `MarksSound`: `Spec => []MarksAreVetted`. The strengthening `RevVetted` says
  that a posted toggle carries a hash in `vetted`: it was taken from the one
  read of the cache that validated the toggle.
- `GateSound`: `Spec => []MergesOnlyVetted`. `GateInv` follows an approve from
  its own re-diff to the merge: while git has not moved, what the cache says of
  the target is what git says (`SeenRight`, which allows for the empty diff of
  an error and for the fallback to uncommitted changes); after the clean gate
  the two coincide with the branch tip.
- `RemovalSound`: `Spec => RemovalLosesNothing`, from the same invariant.
- `VisibleSound`: `Spec => []CachedIsVisible`. With `TInv` it is inductive: a row
  that a toggle writes back is a row (`RevShape`), and sweep, approve and restart
  take cache entry and row away together.
- `GoneSound`: `Spec => GoneStaysGone`, unless agents remove worktrees themselves
  (`"drop" \notin AgentOps`). `GoneInv` says that what a scan still has to refresh
  is live and that no approve runs meanwhile. An agent that removes a worktree
  while the scan that listed it runs does see it come back, with an empty diff.
- `NoReplaySound`: `Spec => []NoReplay`, when repositories can be listed, diffs
  read and merged worktrees removed (no `list`, `diff`, `remove` in `Faults`) and
  main worktrees stay on base. `HitInv` says that every diff read of a worktree
  shows its standing hits, that a full scan has each such worktree in a
  repository still to list, in its list, at hand or in the cache, and so that the
  gate opens on a complete cache; `HomeInv`, that an approve never removes a main
  worktree. TLC finds `NoReplay` violated with any one of the three faults; the
  fourth assumption is used by the proof.
- `MarksSurviveSound`: `Spec /\ [][Undisturbed]_vars => MarksSurvive`, when diffs
  can be read (no `diff` in `Faults`). `PruneInv` says that a file which the diff
  just read leaves out does not differ from base. `Undisturbed` excludes what git
  can do about that: an agent that changes a file, or puts a removed worktree back,
  after the diff was read without it and before the marks are pruned. Then the mark
  of an earlier change goes, though the file differs again. `engine_gate` does not
  reach this, since no edit of that run takes a file back to base.

**BusProofs.** Assumptions: `BusAssumption`: the engine is not one of the toggles,
and channel and inbox hold at least one event.

- `AllAccountedSound`: `Spec => []AllAccounted`. Whatever is under way, a row of
  the screen that differs from the registry's is owed to a subscribed client: to
  a writer that has written and not published yet, to the newest event of that
  row in the channel or among the frames, to a `snapshot` marker that will fetch
  the list, or to a list on its way. Only the accidents in `blame` break that.
- `InSyncSound`: `Spec => []InSync`, which is what the account says when nothing
  is under way.

**StoreOpenProofs.** Assumptions: `None` is neither a daemon nor an inode, and
the types of the constants.

- `TypeCorrect`, `ServesSound`, `RenameSound`, `ImportsOnceSound`: the type
  invariant and the three safety properties. `OpenInv` says that a daemon past
  the open knows its file, `LockInv` that a running import holds the file's
  lock and that the sentinel is still clear, `DoneInv` that the sentinel is set
  past the import. `LockInv` is what the sentinel-under-the-lock of runImport is
  for: without it a second import could commit over the first.
  `DaemonStep` states what no step of a daemon changes for another one.

**NotifierProofs.** Assumptions: the types of the constants, a positive cooldown
(newCoalescer's default sees to it), and that `None` is not a number.

- `TypeCorrect`, `WindowSound`: the type invariant, and that no hit waits without
  a running window.
- `ImplementsAlerts`: `Spec => Implements`, the refinement of `Alerts`. `NInv`
  relates the places a hit can be in: `order` lists exactly the worktrees with
  pending hits and each once (`Grouped`), `firing` names exactly those of the
  batch and each once (`Batched`), and nothing is pending while something fires
  (`OneAtATime`). Without the last, a notification could settle hits that its
  batch does not hold; without "each once", a worktree would be told twice.
  `NotificationsSplit` says that groups and storm alike cover what waits.

**CommentsProofs.** Assumptions: `Id` finite, a positive cap and buffer, the known
stores, and that the markers are not among the values.

- `TypeCorrect`: the type invariant, with `UsedIds`: whatever is stored has an id
  that was given out. Without it an add could overwrite a comment.
- `CapSound`: `Spec => []CapHolds`. `OneInserting` says that the insertion is
  reserved for one request at a time (the mutex, or SQLite's write lock),
  `SpaceLeft` that the count this request made is still below the cap.
- `DurableSound`: `Spec => []Durable`. `AddsFresh` keeps the ids of adds under way
  apart, `Kept` says that the stores agree on what was answered, and `Answered`
  that an operation about to answer has written.
- `OutlivedSound`: `Spec => []Outlived`. `late` holds the comments an approve came
  across: their add had found the worktree before the approve forgot it, and they
  were not in the store when it was cleared; and what a clear left that failed.
  `Placed` says the same of the file as of memory, because a restart makes one the
  other; `Foreseen`, that every add still under way in a cleared worktree is in
  `late` already; `Forgotten`, that a cleared worktree is in the cache only until
  the approve that cleared it takes its next step, so that no add that starts
  afterwards finds it.
- `RoomInSyncSound`: `RoomSpec => []RoomInSync`, with `RoomAssumption` (a page may
  fetch at least once). `Synced` says how a page catches up: as long as it does
  not show everything, something is due to it (an event in the channel, an
  operation that has written and not published, a fragment to be applied), or the
  banner asks for a reload, or its newest fetch has read what the daemon still
  says or is torn, as `torn` then is until the next one. The steps of the daemon keep that because each
  leaves an event behind it, which `Announced` states; those that do not are the
  failed writes in `untold`.

**WatcherProofs.** Assumptions: `WatcherAssumption` of `Watcher`.

- `CountedSound`: `Spec => []Counted`. `Bounded` counts, for each worktree, what is
  watched of it: a directory is counted when it enters `watched`, perhaps twice,
  and taken off when it leaves.
- `CompleteSound`: `Spec => []Complete`, for every tree of directories. `Ordered`
  says that the queue tells of one directory in the order in which it came and
  went. `Covering` says that each directory of a worktree that is known and not
  excused is watched, or that it, or one above it, is in the queue, in the listing
  at hand or still to be walked; nothing is missed between the watch of a
  directory and the reading of it.

**CockpitProofs.** Assumptions: `CockpitAssumption` of `Cockpit`.

- `Invariant`: `Spec => []IInv`. Every copy of a diff - in the cache, on the pane,
  in an answer on its way - is the daemon's, or an event not yet handled or a
  request served after it will correct it, or one of the accidents in `blame`
  befell it (`Copied`); requests of one kind are served in the order in which they
  are kept, `Shares` says what two requests for one worktree may disagree on, and
  `Open1` that the pane belongs to the open worktree while it loads. `CopyCarried`
  and `CallsCarried` are the lemmas all actions use: what a step that leaves a copy
  and the requests about it alone keeps true.
- `NeverStuckSound`, `PaneFreshSound`, `MarkAgreesSound`: the invariant read at
  rest.
- `ApprovingIsTrueSound`: from a smaller invariant of its own, over the requests
  of the dialog.

**ResolverProofs.** Assumptions: `ResolverAssumption` of `Resolver`: among others
that the global rules compile and have their names (NewResolver sees to it), that
lists of rules, patterns and paths are sequences, and that diffs are made of
changes as git prints them (`GitChange`): only a rename has two paths, a binary
file has no hunks, numbers are natural.

- `GlobsSound`: `GlobMatch(p, path) <=> GlobMeans(p, path)` for every pattern and
  path; `GlobsExactSound`: `Spec => []GlobsExact`, from it. Both sides are
  recursive functions, and neither is defined along the other: the code fills a
  table over tokens and prefixes of the path, the comment speaks of what a place
  of the pattern leaves to the rest. `Recursion` and `RecursionDown` say that such
  functions exist and obey their equations. `TokensMatch` shows the table right for
  `Cut`: the path falls into pieces, one for each token, each a piece its token
  stands for (`Spans`). `Tokens`, `Meaning` and `CutCons` show the comment right for
  it, from the end of the pattern backwards. Induction goes over sets in place of
  properties: `Induct` and `InductDown` follow from `WFMin`, which takes a set.
- `ParseSound`: what `Parse` gives back of a text that git printed are its changes,
  as many and in their order, each with its paths, status, blobs, hunks, the
  numbers of each line and the counts of lines added and deleted; `ParseExactSound`:
  `Spec => []ParseExact`, from it. The loop is a recursive function over the lines:
  `ScanLoops` gives its states, `ScanConcat` says that a text is read after the text
  before it, and `FlattenJoins` that a list of texts is put together one by one.
  `HeadRead` reads what stands before the first hunk of a change (`CutAtMark`: a
  path without a space is what the naive split finds), `BodyRead` one line of a
  hunk, whatever its text begins with, `HunkRead` and `HunksRead` the hunks by
  induction over lines and hunks: after j lines of the i-th the file is `FileTo`,
  with the lines, numbers and counts of just those. `ChangeRead` and `TextRead` go
  on from change to change.
- `FailsClosedSound`: `Spec => []FailsClosed`. `Readable` says that the diff evaluated
  is given back, `MergeKeeps` that Merge leaves in place a global rule that the
  pack neither disables nor names, `RenamedKeeps` that naming the merged list does
  not touch it, `RulesKept` that so no resolution loses it, whichever content it
  was made from, and `EvalGrows` that the rules beside it take none of its hits.
  Nothing is said of a diff with a path that only the naive split tells, as in
  `FailsClosed` itself.
- `RulesInForceSound`: `Spec => []RulesInForce`. `MergeSet` gives the elements of
  a merged list, whatever the lists repeat: the global rules the pack spares and
  all of the pack's, which come in the place of a global rule or at the end.
  `RenamedDistinct` says that a list that compiles has no rule twice, and
  `NamelessBack` that the name a rule of the pack got from its place can be taken
  off again: a list that compiles has no other rule of that name, so it is not
  one the pack spells out. `CacheHash` is the invariant about the entries.
- `TypeCorrect`, `StampSound`: the types, and that the cache never passes an older
  content off as the file's. `StampTells` is not inductive, because a resolution
  enters the cache with the stamp of a `Stat` made before the lock was taken.
  `Stamped` and `CacheStamp` say that no stamp held anywhere is later than the
  latest, `FileStamp` that the file has the latest: what is read after an edit
  therefore never enters under an earlier stamp unnoticed.

**Only model-checked.** All liveness (`Converges`, `CallsReturn`, `CatchesUp`,
`StartsEnd`, `EveryHitTold`, `HintsFire`, `ChangesNoticed`, `EditTaken`), which
needs ENABLED and fairness. Every invariant and every other action property of the
runs is stated by a theorem, `MarksSurvive` under the assumption on git above.

## 5. What the code does that the properties excuse

Met while modelling, and excused by name, so that the properties say that nothing
else goes wrong.

*Engine.*
- A failed `git diff` reads as an empty one and prunes every mark of the worktree
  until the next scan (engine.go:525-527, 568; README.md:333 says marks survive).
- A repository that could not be listed is forgotten by the sweep (engine.go:
  480-503), and the scan after it publishes its standing hits as new.
- A merged worktree whose removal failed is forgotten all the same; the next scan
  finds it again and publishes hits that an agent left standing in it as new.
- An approve whose `CurrentBranch` failed merges the cached branch (engine.go:424).

*Bus.* A list read before a change and delivered after the delta of that change
puts the old row back (app.go:201-203). `InSync` excuses it as "late".

*StoreOpen.* When the transaction of the import cannot begin, or the sentinel
cannot be read, the database that the path names is deleted, one in use for long
included (open.go:71-77). A database that stays locked for twenty attempts, or one
of a newer build, is moved aside for an empty one (open.go:51-69).

*Comments.* An add that looked its worktree up before an approve forgets it may be
stored after the clear and outlive the worktree (comments.go:75-127): the add may
have begun before the clear, or between it and the end of the cached diff
(engine.go:365-367). `ClearWorktree` may fail, and its error is ignored
(engine.go:365): the comments stay, in SQLite, or come back with the next start,
with the JSON file. `Outlived` excuses these comments only. A write of the JSON
store that fails has changed the map already (store.go:132), and the next write
that succeeds, for whichever worktree, puts that change into the file.

*Room.* A fragment that failed, or whose event the full channel dropped, leaves
the page as it is until the next event; `RoomInSync` speaks of a page that has
caught up. An event between the reads of the page and the `EventSource` of its
script reaches nobody, and the page does not fetch when its stream opens: it is
missed like a dropped one. When the store cannot be read, both handlers drop the
error (`views, _ :=`, fragments.go:63, pages.go:236) and serve empty strips as a
success, so that the comments vanish from the page until a later fragment
(`torn`). No event follows a failed write of the JSON store, and none follows
either when a write for another worktree makes that change durable: a page may
miss a comment that is in the file (`untold`). An earlier form of `RoomInSync`
excused only comments whose memory and file differ; its proof failed on two
worktrees, and TLC then found the behaviour.

*Watcher.* A directory that the walk and an event both find is counted twice, so
that a worktree can reach its cap early and is then polled only. A worktree
removed and added again before the next reconciliation is taken for one already
watched (fswatcher.go:205, 224-239); a `.git/worktrees` that is made anew is not
watched again. A watched directory that goes away while the one it is in has been
put back and is not watched yet stays in the watcher's table, and is taken for
watched when it comes back. That takes three nested directories and eleven
changes; it was found when the proof of `Complete` failed, and is excused since.

*Cockpit*, under the names `blame` uses.
- misapplied: `applyReviewOK` and `applyReviewErr` compare the answer's id with the
  open worktree, which may show the diff of another one by then.
- misaimed: a toggle takes the id from the sidebar, the file and hash from the pane.
- ignored: a `diff.ready` of a worktree that is not open does not make its cached
  diff older; missed: neither does a reconnect or a new list.
- overtaken: an older answer, of a fetch or a toggle, replaces a newer one.
- unheard: the answer of a toggle is dropped when another worktree is open.
- elsewhere: another client's toggle refetches the list, not the diff.
- unread: `ReviewedMap` ignores an error of the store, and `handleDiff` its `ok`
  (engine.go:226, main.go:705): the diff is answered with every mark off. With
  `unread` struck from what `MarkAgrees` excuses it does not hold.
- reborn: the cache of diffs outlives the removal of a worktree.
- The dialog: `applyApproveErr` drops an error only when no dialog is open
  (approve.go:91-94; its message carries no id), although its comment says the
  same of a dialog of another worktree (approve.go:88-90). The late error is shown
  there and clears its `submitting`; a late success closes whatever dialog is
  open (app.go:231-234). `ApprovingIsTrue` holds all the same.
- The wait before a reconnect is computed before the attempt counter is reset
  (conn.go:64-94); waits are not modelled.

*Guardrails and diff parser.*
- `a/**/b` also matches `a/xb`, as the comment on `**` allows (guardrail.go:565-640).
- A nameless rule of a pack takes a name from its place, which may clash with a
  global rule; the pack is then rejected as a whole and the global rules stay.
- An edit that leaves time and size as they were is not seen (`blurred`).
- Added lines beyond the first 5000 are not scanned.
- A file without `---`, `+++` or `rename` lines (binary, empty, mode change) takes
  its path from the first space of `diff --git`, which is wrong for a path with
  a space (diffparse.go:150-157); `ParseExact` leaves those paths out
  (`Provisional`), and `FailsClosed` a diff with one, which a rule may go by.

## 6. What is left out

- Detached worktrees, abbreviated blob ids, and `ActivityWindow`, which only
  picks the word shown for a row's state.
- One read of a diff is one step, although git runs several commands for it: an
  edit between them tears the diff in ways that one more edit afterwards would
  also produce.
- The marks in the JSON store, an escape hatch with one daemon (its comments are
  in `Comments`).
- Client connections: a subscriber whose client is gone without the server
  knowing only wastes a channel, and is not modelled.
- The probing for a notifier binary and a notifier that is disabled or has none:
  it never reads its channel.
- In `Comments` the checks of body, author, line and side, which come before any
  state is read; in `Room` the rows of the diff, highlighting, the index page and
  the review boxes.
- In `Watcher` main worktrees, worktrees inside each other, renamed directories,
  events the kernel drops, and a kernel that refuses the watch of a worktree's
  git directory (fswatcher.go:245-252; its commits are then noticed by the tick
  only); refusals for the directories of the tree are there. The `Poller` only
  ticks.
- In `Cockpit` scrolling, folding, highlighting, toasts, tmux and the version
  handshake; a worktree has one file, and a list is read when its answer is
  handled (`Bus` has the list that is late). A diff answered without marks because
  its worktree went between the two reads is given a map by the pane that the
  cache does not share; the model shares it.
- In `Guardrail` the TOML decoder, regular expressions and the entropy of a token,
  which are inputs; in `DiffParse` quoting, control bytes, and the counts and the
  text of a hunk header: the parser numbers lines from the two starts and reads no
  count.
- Discovery: a walk over the file system without state, whose answer the engine's
  scans take as a given set of repositories.
- Configuration, command line, index page, rendering, packaging:
  parsing and formatting around single calls, with no state another part reads.
- Argument vectors, SQL text, HTTP routing, start-up and shutdown.

## 7. Plan

The order was: the engine with its proofs, what distributes its state (`Bus`),
what keeps it (`StoreOpen`), what tells of it (`Notifier`), what hangs on its
cache (`Comments`, `Room`), what calls it (`Watcher`), what shows it (`Cockpit`),
and the algorithms it judges diffs with (`DiffParse`, `Guardrail`, `Resolver`).
All of this is done. What would come next:

1. `Watcher` with a main worktree and a second linked one inside it, and with
   renames.
2. `Cockpit` composed with `Bus` in place of its list, with two files a worktree.
3. Discovery over small trees, against the set of directories its comment names.
