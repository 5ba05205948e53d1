------------------------------ MODULE Comments ------------------------------
(***************************************************************************)
(* Comments on the files of a worktree's diff: the operations of           *)
(* internal/engine/comments.go over either store (sqlite.go, store.go),    *)
(* beside the refreshes that move the diff, an approve that removes the    *)
(* worktree, and restarts.                                                 *)
(*                                                                         *)
(* An operation looks at the engine's cache, writes to the store and then  *)
(* publishes comment.changed, and holds no lock from one to the next.  The *)
(* text of a comment, its line, side and author are left out: they are     *)
(* checked before the store is reached and never read again.               *)
(*                                                                         *)
(* Engine.tla has the refreshes and the approve step by step; here each is *)
(* as many steps as its accesses to cache and store need.                  *)
(***************************************************************************)
EXTENDS Naturals, FiniteSets, Sequences

CONSTANTS
    Worktree, File, Hash,
    Id,             \* comment ids; crypto/rand never repeats one
    Caller,         \* goroutines that serve comment requests
    Backend,        \* the stores a daemon may use: subset of {"sqlite", "json"}
    MaxComments,    \* maxCommentsPerWorktree
    Buffer,         \* capacity of a subscriber's channel
    MaxEdits,       \* bound: changes of worktrees, and of comments after their add
    MaxTroubles,    \* bound: failing writes, crashes and lost connections
    Room,           \* the worktree whose page is open
    Same, None

ASSUME CommentsAssumption ==
    /\ IsFiniteSet(Id)
    /\ Backend \subseteq {"sqlite", "json"}
    /\ MaxComments \in Nat \ {0} /\ Buffer \in Nat \ {0}
    /\ MaxEdits \in Nat /\ MaxTroubles \in Nat
    /\ Room \in Worktree
    /\ Same \notin Hash

Content == [File -> Hash \cup {Same}]
Empty == [f \in File |-> Same]
State == {"open", "resolved"}
Comment == [wt : Worktree, file : File, state : State]

Event == [type : {"diff.ready", "comment.changed", "worktree.removed"}, diff : Content]
Changed == [type |-> "comment.changed", diff |-> Empty]
Removed == [type |-> "worktree.removed", diff |-> Empty]
Ready(c) == [type |-> "diff.ready", diff |-> c]

\* The locals of AddComment, ResolveComment or DeleteComment.
Call == [at : {"idle", "write", "insert", "publish"}, do : {"add", "resolve", "delete"},
         wt : Worktree, id : Id \cup {None}, file : File \cup {None}]
NoCall == [at |-> "idle", do |-> "add", wt |-> Room, id |-> None, file |-> None]

ASSUME NoneAssumption == None \notin Id \cup File \cup Content \cup Comment \cup Worktree

VARIABLES
    live, work,     \* the worktrees git lists, and their diffs against base
    cache,          \* Engine.cache: the diff last read
    approve,        \* the worktree being approved, and how far the cleanup is
    backend,        \* the store in use
    rows,           \* the comments the store answers with
    disk,           \* the comments a restart finds
    call,           \* what each caller is doing
    feed,           \* the channel of the page's event stream
    subscribed,
    missed,         \* history: events published and not queued since a fetch began
    untold,         \* history: comments that failed writes changed since then
    used,           \* history: ids given out
    cleared,        \* history: worktrees approved, and not listed again since
    late,           \* history: comments whose request an approve came across: it had
                    \* found the worktree, and was not in the store when it was
                    \* cleared; and those a failed clear left
    added,          \* history: comments whose add was answered with success
    resolved,       \* history: the same of resolve
    undone,         \* history: comments deleted or cleared, answered or not
    edits, troubles

engine == <<live, work, cache, approve>>
store == <<backend, rows, disk>>
stream == <<feed, subscribed, missed, untold>>
answers == <<added, resolved>>
history == <<used, cleared, late, answers, undone>>
vars == <<engine, store, call, stream, history, edits, troubles>>

Init ==
    /\ live = Worktree
    /\ work \in [Worktree -> Content]
    /\ cache = work
    /\ approve = [at |-> "idle", wt |-> None]
    /\ backend \in Backend
    /\ rows = [i \in Id |-> None]
    /\ disk = rows
    /\ call = [c \in Caller |-> NoCall]
    /\ feed = <<>> /\ subscribed = FALSE /\ missed = FALSE /\ untold = {}
    /\ used = {} /\ cleared = {} /\ late = {} /\ added = {} /\ resolved = {} /\ undone = {}
    /\ edits = 0 /\ troubles = 0

In(r, w) == {i \in Id : r[i] # None /\ r[i].wt = w}
Of(w) == In(rows, w)
OnDisk(w) == In(disk, w)

Trouble == troubles < MaxTroubles /\ troubles' = troubles + 1

\* The registry's publish, as the page's channel sees it: a full one drops.
Publish(w, e) ==
    LET queued == subscribed /\ Len(feed) < Buffer IN
    /\ feed' = IF w = Room /\ queued THEN Append(feed, e) ELSE feed
    /\ missed' = (missed \/ (w = Room /\ ~ queued))
    /\ UNCHANGED <<subscribed, untold>>

-----------------------------------------------------------------------------
(* The worktrees and the engine's picture of them.                         *)

Edit(w, f, h) ==
    /\ w \in live /\ work[w][f] # h
    /\ edits < MaxEdits /\ edits' = edits + 1
    /\ work' = [work EXCEPT ![w] = [work[w] EXCEPT ![f] = h]]
    /\ UNCHANGED <<live, cache, approve, store, call, stream, history, troubles>>

\* git worktree remove and git worktree add by hand.
Drop(w) ==
    /\ w \in live
    /\ edits < MaxEdits /\ edits' = edits + 1
    /\ live' = live \ {w}
    /\ work' = [work EXCEPT ![w] = Empty]
    /\ UNCHANGED <<cache, approve, store, call, stream, history, troubles>>

Add(w) ==
    /\ w \notin live
    /\ edits < MaxEdits /\ edits' = edits + 1
    /\ live' = live \cup {w}
    /\ UNCHANGED <<work, cache, approve, store, call, stream, history, troubles>>

\* refreshMu: a scan and an approve exclude each other.
Unlocked == approve.at = "idle"

\* refreshWorktree: diff.ready follows when the diff is another one.
Refresh(w) ==
    /\ Unlocked
    /\ w \in live /\ cache[w] # work[w]
    /\ cache' = [cache EXCEPT ![w] = work[w]]
    /\ Publish(w, Ready(work[w]))
    /\ cleared' = cleared \ {w}
    /\ UNCHANGED <<live, work, approve, store, call, used, late, answers, undone, edits, troubles>>

\* The sweep at the end of a scan forgets a worktree, and leaves its comments.
Sweep(w) ==
    /\ Unlocked
    /\ w \notin live /\ cache[w] # None
    /\ cache' = [cache EXCEPT ![w] = None]
    /\ Publish(w, Removed)
    /\ UNCHANGED <<live, work, approve, store, call, history, edits, troubles>>

\* Approve has passed its gates and merged, and removes the worktree.
ApproveRemoves(w) ==
    /\ Unlocked
    /\ w \in live /\ cache[w] # None
    /\ approve' = [at |-> "clear", wt |-> w]
    /\ live' = live \ {w}
    /\ work' = [work EXCEPT ![w] = Empty]
    /\ UNCHANGED <<cache, store, call, stream, history, edits, troubles>>

\* RemoveWorktree has failed, and its error is ignored.
ApproveKeeps(w) ==
    /\ Unlocked /\ Trouble
    /\ w \in live /\ cache[w] # None
    /\ approve' = [at |-> "clear", wt |-> w]
    /\ UNCHANGED <<live, work, cache, store, call, stream, history, edits>>

\* Broken on purpose: the count is not in the transaction of the insert.
StoreShared == TRUE

\* sqlite's transaction, or the mutex of jsonStore.
StoreFree == \A c \in Caller : call[c].at # "insert"

Without(r, ids) == [i \in Id |-> IF i \in ids THEN None ELSE r[i]]

\* The comments whose add has found the worktree in the cache and is not yet in
\* the store.
BeingAdded(w) == {call[c].id : c \in {d \in Caller : /\ call[d].at = "write" /\ call[d].do = "add"
                                                /\ call[d].wt = w}}

\* ClearWorktree.
ApproveClears ==
    /\ approve.at = "clear" /\ StoreFree
    /\ rows' = Without(rows, Of(approve.wt))
    /\ disk' = rows'
    /\ undone' = undone \cup Of(approve.wt)
    /\ cleared' = cleared \cup {approve.wt}
    /\ late' = (late \ Of(approve.wt)) \cup BeingAdded(approve.wt)
    /\ approve' = [approve EXCEPT !.at = "forget"]
    /\ UNCHANGED <<live, work, cache, backend, call, stream, used, answers, edits, troubles>>

\* ClearWorktree has failed, and its error is ignored: sqlite has rolled back,
\* jsonStore has cleared its map and not its file.
ApproveClearFails ==
    /\ approve.at = "clear" /\ StoreFree /\ Trouble
    /\ rows' = IF backend = "sqlite" THEN rows ELSE Without(rows, Of(approve.wt))
    /\ undone' = undone \cup Of(approve.wt)
    /\ cleared' = cleared \cup {approve.wt}
    /\ late' = late \cup Of(approve.wt) \cup OnDisk(approve.wt) \cup BeingAdded(approve.wt)
    /\ approve' = [approve EXCEPT !.at = "forget"]
    /\ UNCHANGED <<live, work, cache, backend, disk, call, stream, used, answers, edits>>

\* Broken on purpose: the row goes and the cached diff stays.
ApproveForgetsRow ==
    /\ approve.at = "forget"
    /\ Publish(approve.wt, Removed)
    /\ approve' = [at |-> "idle", wt |-> None]
    /\ UNCHANGED <<live, work, cache, store, call, history, edits, troubles>>

\* Between the clear and this an add still finds the worktree.
ApproveForgets ==
    /\ approve.at = "forget"
    /\ cache' = [cache EXCEPT ![approve.wt] = None]
    /\ Publish(approve.wt, Removed)
    /\ approve' = [at |-> "idle", wt |-> None]
    /\ UNCHANGED <<live, work, store, call, history, edits, troubles>>

-----------------------------------------------------------------------------
(* The operations on comments.                                             *)

Fresh(i) == i \notin used

\* AddComment up to the store: the worktree is known, the file in its diff.
CallAdd(c, w, f) ==
    /\ call[c].at = "idle"
    /\ cache[w] # None /\ cache[w][f] # Same
    /\ \E i \in Id :
        /\ Fresh(i)
        /\ used' = used \cup {i}
        /\ late' = IF approve.at = "forget" /\ approve.wt = w THEN late \cup {i} ELSE late
        /\ call' = [call EXCEPT ![c] =
                [at |-> "write", do |-> "add", wt |-> w, id |-> i, file |-> f]]
    /\ UNCHANGED <<engine, store, stream, cleared, answers, undone, edits, troubles>>

\* ResolveComment and DeleteComment; an id no comment has is refused.
CallChange(c, do, w, i) ==
    /\ call[c].at = "idle"
    /\ cache[w] # None /\ i \in Of(w)
    /\ edits < MaxEdits /\ edits' = edits + 1
    /\ call' = [call EXCEPT ![c] =
            [at |-> "write", do |-> do, wt |-> w, id |-> i, file |-> None]]
    /\ UNCHANGED <<engine, store, stream, history, troubles>>

Return(c) == call' = [call EXCEPT ![c] = NoCall]

\* ErrTooManyComments.
Full(w) == Cardinality(Of(w)) >= MaxComments

Count(c) ==
    /\ call[c].at = "write" /\ call[c].do = "add" /\ StoreFree
    /\ IF Full(call[c].wt) THEN Return(c)
                           ELSE call' = [call EXCEPT ![c] = [@ EXCEPT !.at = "insert"]]
    /\ UNCHANGED <<engine, store, stream, history, edits, troubles>>

Inserted(k) == [rows EXCEPT ![k.id] = [wt |-> k.wt, file |-> k.file, state |-> "open"]]

Insert(c) ==
    LET k == call[c] IN
    /\ k.at = "insert"
    /\ rows' = Inserted(k)
    /\ disk' = rows'
    /\ call' = [call EXCEPT ![c] = [@ EXCEPT !.at = "publish"]]
    /\ UNCHANGED <<engine, backend, stream, history, edits, troubles>>

\* Broken on purpose: the error of the write is ignored.
InsertFailsQuietly(c) ==
    LET k == call[c] IN
    /\ k.at = "insert" /\ Trouble
    /\ rows' = IF backend = "sqlite" THEN rows ELSE Inserted(k)
    /\ call' = [call EXCEPT ![c] = [@ EXCEPT !.at = "publish"]]
    /\ UNCHANGED <<engine, backend, disk, stream, history, edits>>

\* The error is answered; jsonStore keeps the comment in its map.
InsertFails(c) ==
    LET k == call[c] IN
    /\ k.at = "insert" /\ Trouble
    /\ rows' = IF backend = "sqlite" THEN rows ELSE Inserted(k)
    /\ untold' = IF backend = "sqlite" THEN untold ELSE untold \cup {k.id}
    /\ Return(c)
    /\ UNCHANGED <<engine, backend, disk, feed, subscribed, missed, history, edits>>

Found(k) == k.id \in Of(k.wt)

Changed1(k) == [rows EXCEPT ![k.id] =
    IF k.do = "delete" THEN None ELSE [@ EXCEPT !.state = "resolved"]]

Undo(k) == undone' = IF k.do = "delete" /\ Found(k) THEN undone \cup {k.id} ELSE undone

\* One statement, or ErrCommentNotFound.
Change(c) ==
    LET k == call[c] IN
    /\ k.at = "write" /\ k.do # "add" /\ StoreFree
    /\ rows' = IF Found(k) THEN Changed1(k) ELSE rows
    /\ disk' = IF Found(k) THEN rows' ELSE disk
    /\ IF Found(k) THEN call' = [call EXCEPT ![c] = [@ EXCEPT !.at = "publish"]] ELSE Return(c)
    /\ Undo(k)
    /\ UNCHANGED <<engine, backend, stream, used, cleared, late, answers, edits, troubles>>

ChangeFails(c) ==
    LET k == call[c] IN
    /\ k.at = "write" /\ k.do # "add" /\ StoreFree /\ Found(k) /\ Trouble
    /\ rows' = IF backend = "sqlite" THEN rows ELSE Changed1(k)
    /\ untold' = IF backend = "sqlite" THEN untold ELSE untold \cup {k.id}
    /\ Return(c)
    /\ Undo(k)
    /\ UNCHANGED <<engine, backend, disk, feed, subscribed, missed, used, cleared, late,
                   answers, edits>>

\* comment.changed, and the answer.
PublishChange(c) ==
    LET k == call[c] IN
    /\ k.at = "publish"
    /\ Publish(k.wt, Changed)
    /\ added' = IF k.do = "add" THEN added \cup {k.id} ELSE added
    /\ resolved' = IF k.do = "resolve" THEN resolved \cup {k.id} ELSE resolved
    /\ Return(c)
    /\ UNCHANGED <<engine, store, used, cleared, late, undone, edits, troubles>>

\* wtd dies and starts again.
Restart ==
    /\ Trouble
    /\ cache' = [w \in Worktree |-> None]
    /\ approve' = [at |-> "idle", wt |-> None]
    /\ call' = [c \in Caller |-> NoCall]
    /\ rows' = disk
    /\ feed' = <<>> /\ subscribed' = FALSE /\ missed' = TRUE /\ untold' = {}
    /\ UNCHANGED <<live, work, backend, disk, history, edits>>

WorktreeNext == \E w \in Worktree :
    \/ \E f \in File, h \in Hash \cup {Same} : Edit(w, f, h)
    \/ Drop(w) \/ Add(w) \/ Refresh(w) \/ Sweep(w)
    \/ ApproveRemoves(w) \/ ApproveKeeps(w)

CallNext == \E c \in Caller :
    \/ \E w \in Worktree, f \in File : CallAdd(c, w, f)
    \/ \E do \in {"resolve", "delete"}, w \in Worktree, i \in Id : CallChange(c, do, w, i)
    \/ Count(c) \/ Insert(c) \/ InsertFails(c) \/ Change(c) \/ ChangeFails(c) \/ PublishChange(c)

Next == WorktreeNext \/ ApproveClears \/ ApproveClearFails \/ ApproveForgets \/ CallNext \/ Restart

Spec == Init /\ [][Next]_vars

-----------------------------------------------------------------------------

TypeOK ==
    /\ live \subseteq Worktree
    /\ work \in [Worktree -> Content]
    /\ cache \in [Worktree -> Content \cup {None}]
    /\ approve \in [at : {"idle", "clear", "forget"}, wt : Worktree \cup {None}]
    /\ backend \in Backend
    /\ rows \in [Id -> Comment \cup {None}]
    /\ disk \in [Id -> Comment \cup {None}]
    /\ call \in [Caller -> Call]
    /\ \A c \in Caller : /\ call[c].at # "idle" => call[c].id \in used
                         /\ call[c].do = "add" /\ call[c].at # "idle" => call[c].file \in File
                         /\ call[c].at = "insert" => call[c].do = "add"
    /\ feed \in Seq(Event) /\ Len(feed) <= Buffer
    /\ subscribed \in BOOLEAN /\ missed \in BOOLEAN /\ untold \subseteq Id
    /\ used \subseteq Id /\ cleared \subseteq Worktree /\ late \subseteq used /\ undone \subseteq used
    /\ added \subseteq used /\ resolved \subseteq used
    /\ edits \in 0 .. MaxEdits /\ troubles \in 0 .. MaxTroubles

(* However many requests add comments at once, a worktree has at most        *)
(* maxCommentsPerWorktree of them in the store, and the file has no more     *)
(* (sqlite.go:350-352, store.go:23-30).                                      *)
CapHolds == \A w \in Worktree :
    Cardinality(Of(w)) <= MaxComments /\ Cardinality(OnDisk(w)) <= MaxComments

(* A comment whose add was answered with success is in the file from then    *)
(* on, through failing writes and restarts, until a delete or a clear, and   *)
(* so is the state an answered resolve gave it.                              *)
Durable == \A i \in added \ undone :
    /\ disk[i] # None
    /\ i \in resolved => disk[i].state = "resolved"

(* A worktree that an approve has cleared keeps no comments, also after a    *)
(* restart, other than those whose AddComment had found the worktree before  *)
(* the approve forgot it, and was not in the store yet when it was cleared   *)
(* (comments.go:75-84 against engine.go:365-367), or that a failed clear     *)
(* left: "a worktree's comments must not outlive the worktree itself"        *)
(* (store.go:151-152).  No add that comes later gets through.                *)
Outlived == \A w \in cleared : Of(w) \subseteq late
=============================================================================
