------------------------------ MODULE Watcher -------------------------------
(***************************************************************************)
(* The file system watcher (internal/watcher/fswatcher.go): one goroutine  *)
(* that watches the directories of the worktrees of a repository, debounces *)
(* what it hears into hints, and reconciles on a tick.                     *)
(*                                                                         *)
(* The file system, git and the kernel's watches run beside it.  All       *)
(* worktrees are linked ones, none lies inside another, and directories    *)
(* are made and removed but not renamed; a worktree's gitdir stands for    *)
(* its logs as well.  Directories that discovery.SkipDirs names are left   *)
(* out.                                                                    *)
(***************************************************************************)
EXTENDS Naturals, FiniteSets, Sequences

CONSTANTS
    Worktree,
    Sub,            \* the directories below the roots of the worktrees
    Parent, Owner,  \* the directory each of them is in, and the worktree of every one
    Cap,            \* maxWatchedDirsPerWorktree
    Global, None,
    MaxChanges,     \* bound: what agents do to files, directories and worktrees,
                    \* and calls that fail
    MaxTroubles     \* bound: calls of git or the kernel that fail among them

Dir == Worktree \cup Sub

ASSUME WatcherAssumption ==
    /\ IsFiniteSet(Worktree) /\ IsFiniteSet(Sub) /\ Worktree \cap Sub = {}
    /\ Parent \in [Sub -> Dir]
    /\ Owner \in [Dir -> Worktree]
    /\ \A w \in Worktree : Owner[w] = w
    /\ \A d \in Sub : Owner[d] = Owner[Parent[d]]
    /\ \A S \in SUBSET Sub : S # {} => \E d \in S : Parent[d] \notin S
    /\ None \notin Dir \cup Nat /\ Global \notin Worktree \cup {None}
    /\ Cap \in Nat /\ MaxChanges \in Nat /\ MaxTroubles \in Nat

Key == Worktree \cup {Global}

\* What can be watched: working directories, gitdirs, and .git/worktrees.
Work(d) == <<"work", d>>
Git(w) == <<"git", w>>
Admin == <<"admin", None>>
Places(w) == {Git(w)} \cup {Work(d) : d \in {e \in Dir : Owner[e] = w}}
OwnerOf(p) == IF p = Admin THEN None ELSE Owner[p[2]]
Place == {Admin} \cup UNION {Places(w) : w \in Worktree}

Event == [op : {"create", "remove", "write"}, in : Place, name : Sub \cup {None}]

VARIABLES
    live,           \* worktrees that git lists
    dirs,           \* directories below their roots
    admin,          \* .git/worktrees exists
    kernel,         \* places the kernel watches
    queue,          \* fsnotify's Events
    watched,        \* fsSession.watched
    dirCount,       \* fsSession.dirCount; None is a missing entry
    timer,          \* keys whose debounce timer runs
    fired,          \* goroutines blocked on the channel fired, per key
    loop,           \* where Run's goroutine is, with its locals
    dirty,          \* history: worktrees changed since they were last refreshed
    owed,           \* history: worktrees that changed where the watcher listens
    excused,        \* history: worktrees known not to be watched completely
    changes, troubles

disk == <<live, dirs, admin>>
session == <<watched, dirCount>>
debounce == <<timer, fired>>
history == <<dirty, owed, excused>>
vars == <<disk, kernel, queue, session, debounce, loop, history, changes, troubles>>

\* at: what Run does; key: what it then tells; known, new: reconcile's listing;
\* walk, seen, reading: addTree's worktree, the directories found and not
\* visited, the one visited and not read.
Loop == [at : {"select", "list", "walk", "drop", "call"}, key : Key \cup {None},
         known : SUBSET Worktree, new : SUBSET Worktree,
         walk : Worktree \cup {None}, seen : SUBSET Dir,
         reading : Dir \cup {None}]

Idle == [at |-> "select", key |-> None, known |-> {}, new |-> {},
         walk |-> None, seen |-> {}, reading |-> None]

Exists(p) ==
    CASE p[1] = "admin" -> admin
      [] p[1] = "git" -> p[2] \in live
      [] OTHER -> p[2] \in live \cup dirs

Reconcile == [Idle EXCEPT !.at = "list", !.key = Global]

Init ==
    /\ live \in SUBSET Worktree
    /\ dirs = {}
    /\ admin = (live # {})
    /\ kernel = {} /\ queue = <<>>
    /\ watched = {} /\ dirCount = [w \in Worktree |-> None]
    /\ timer = {} /\ fired = [k \in Key |-> 0]
    /\ loop = Reconcile
    /\ dirty = live /\ owed = {} /\ excused = {}
    /\ changes = 0 /\ troubles = 0

\* Changes and failures share the bound MaxChanges.
Within == changes + troubles < MaxChanges

Trouble == Within /\ troubles < MaxTroubles /\ troubles' = troubles + 1

-----------------------------------------------------------------------------
(* Agents, git and the kernel.                                             *)

Changing == Within /\ changes' = changes + 1

Hear(op, p, n) == IF p \in kernel THEN Append(queue, [op |-> op, in |-> p, name |-> n]) ELSE queue

\* The watcher listens at p and has not been told otherwise.
Listening(p, w) == IF p \in kernel \cap watched /\ w \notin excused THEN {w} ELSE {}

Mkdir(d) ==
    /\ Changing
    /\ d \in Sub \ dirs /\ Parent[d] \in live \cup dirs
    /\ dirs' = dirs \cup {d}
    /\ queue' = Hear("create", Work(Parent[d]), d)
    /\ UNCHANGED <<live, admin, kernel, session, debounce, loop, history, troubles>>

\* The kernel drops the watch of what is deleted.  What is reported of a directory
\* that is watched below one that is not, because that one was put back, is left
\* open.
Rmdir(d) ==
    /\ Changing
    /\ d \in dirs /\ \A e \in dirs : Parent[e] # d
    /\ dirs' = dirs \ {d}
    /\ queue' = Hear("remove", Work(Parent[d]), d)
    /\ kernel' = kernel \ {Work(d)}
    /\ excused' = IF Work(d) \in kernel /\ Work(Parent[d]) \notin kernel
                  THEN excused \cup {Owner[d]} ELSE excused
    /\ UNCHANGED <<live, admin, session, debounce, loop, dirty, owed, troubles>>

\* A file of a directory, or HEAD or the index.
Change(p, w) ==
    /\ Changing
    /\ p \in Places(w) /\ Exists(p)
    /\ dirty' = dirty \cup {w}
    /\ owed' = owed \cup Listening(p, w)
    /\ queue' = Hear("write", p, None)
    /\ UNCHANGED <<disk, kernel, session, debounce, loop, excused, troubles>>

Stale(w) == \E n \in DOMAIN queue : queue[n].in \in Places(w)

\* git worktree add.  A worktree that was here before and is not forgotten, or
\* of which events are still to be handled, is not watched anew.
AddWorktree(w) ==
    /\ Changing
    /\ w \notin live
    /\ live' = live \cup {w} /\ admin' = TRUE
    /\ queue' = Hear("create", Admin, None)
    /\ dirty' = dirty \cup {w}
    /\ excused' = IF dirCount[w] # None \/ Stale(w) \/ loop.walk = w THEN excused \cup {w}
                                                                   ELSE excused
    /\ UNCHANGED <<dirs, kernel, session, debounce, loop, owed, troubles>>

\* git worktree remove, at last; .git/worktrees goes with its last entry.
RemoveWorktree(w) ==
    /\ Changing
    /\ w \in live /\ \A d \in dirs : Owner[d] # w
    /\ live' = live \ {w}
    /\ admin' = (live' # {})
    /\ queue' = Hear("remove", Admin, None)
    /\ kernel' = kernel \ ({Git(w), Work(w)} \cup (IF admin' THEN {} ELSE {Admin}))
    /\ dirty' = dirty \ {w} /\ owed' = owed \ {w}
    /\ UNCHANGED <<dirs, session, debounce, loop, excused, troubles>>

-----------------------------------------------------------------------------
(* Watching a directory and what is below it.                              *)

\* addWorktree's gitdir.
WatchGit(w) ==
    /\ kernel' = IF w \in live THEN kernel \cup {Git(w)} ELSE kernel
    /\ watched' = IF w \in live THEN watched \cup {Git(w)} ELSE watched

Visiting(d) == loop.at = "walk" /\ loop.reading = None /\ d \in loop.seen

Visited(d, next) == loop' = [loop EXCEPT !.seen = @ \ {d}, !.reading = next]

\* Broken on purpose: a new directory is watched without what is below it.
VisitFlat(d) ==
    /\ Visiting(d)
    /\ dirCount[loop.walk] < Cap
    /\ IF Exists(Work(d))
       THEN /\ kernel' = kernel \cup {Work(d)}
            /\ watched' = watched \cup {Work(d)}
            /\ dirCount' = [dirCount EXCEPT ![loop.walk] = @ + 1]
       ELSE UNCHANGED <<kernel, session>>
    /\ Visited(d, IF loop.key = None THEN None ELSE d)
    /\ UNCHANGED <<disk, queue, debounce, history, changes, troubles>>

\* WalkDir's function: the directory is watched before it is read.
Visit(d) ==
    /\ Visiting(d)
    /\ dirCount[loop.walk] < Cap
    /\ IF Exists(Work(d))
       THEN /\ kernel' = kernel \cup {Work(d)}
            /\ watched' = watched \cup {Work(d)}
            /\ dirCount' = [dirCount EXCEPT ![loop.walk] = @ + 1]
       ELSE UNCHANGED <<kernel, session>>
    /\ Visited(d, d)
    /\ UNCHANGED <<disk, queue, debounce, history, changes, troubles>>

\* At the cap the directory is skipped, with what is below it.
VisitSkips(d) ==
    /\ Visiting(d)
    /\ dirCount[loop.walk] >= Cap
    /\ excused' = excused \cup {loop.walk}
    /\ Visited(d, None)
    /\ UNCHANGED <<disk, kernel, queue, session, debounce, dirty, owed, changes, troubles>>

VisitFails(d) ==
    /\ Visiting(d) /\ Trouble
    /\ dirCount[loop.walk] < Cap
    /\ excused' = excused \cup {loop.walk}
    /\ Visited(d, d)
    /\ UNCHANGED <<disk, kernel, queue, session, debounce, dirty, owed, changes>>

\* WalkDir reads the directory only now.
ReadDir ==
    /\ loop.at = "walk" /\ loop.reading # None
    /\ loop' = [loop EXCEPT !.reading = None,
                            !.seen = @ \cup {e \in dirs : Parent[e] = loop.reading}]
    /\ UNCHANGED <<disk, kernel, queue, session, debounce, history, changes, troubles>>

Trigger(k) == timer' = timer \cup {k}

\* addTree returns: to reconcile, or to handle, which triggers the owner.
WalkEnds ==
    /\ loop.at = "walk" /\ loop.reading = None /\ loop.seen = {}
    /\ IF loop.key = None
       THEN Trigger(loop.walk) /\ loop' = Idle /\ UNCHANGED <<kernel, session>>
       ELSE IF loop.new = {}
       THEN loop' = [loop EXCEPT !.at = "drop", !.walk = None] /\ UNCHANGED <<kernel, session, timer>>
       ELSE \E w \in loop.new :
            /\ WatchGit(w)
            /\ dirCount' = [dirCount EXCEPT ![w] = 0]
            /\ loop' = [loop EXCEPT !.new = @ \ {w}, !.walk = w, !.seen = {w}]
            /\ UNCHANGED timer
    /\ UNCHANGED <<disk, queue, fired, history, changes, troubles>>

-----------------------------------------------------------------------------
(* Reconciling.                                                            *)

WatchAdmin == admin /\ Admin \notin watched

\* DiscoverRepos and ListWorktrees, for the one repository there is.
List ==
    /\ loop.at = "list"
    /\ kernel' = IF WatchAdmin THEN kernel \cup {Admin} ELSE kernel
    /\ watched' = IF WatchAdmin THEN watched \cup {Admin} ELSE watched
    /\ loop' = [loop EXCEPT !.at = "walk", !.known = live,
                            !.new = {w \in live : dirCount[w] = None}]
    /\ UNCHANGED <<disk, queue, dirCount, debounce, history, changes, troubles>>

\* A repository whose worktrees cannot be listed is passed over.
ListFails ==
    /\ loop.at = "list" /\ Trouble
    /\ kernel' = IF WatchAdmin THEN kernel \cup {Admin} ELSE kernel
    /\ watched' = IF WatchAdmin THEN watched \cup {Admin} ELSE watched
    /\ loop' = [loop EXCEPT !.at = "drop", !.known = {}]
    /\ UNCHANGED <<disk, queue, dirCount, debounce, history, changes>>

\* Without a listing of the roots reconcile returns, and all the same everything
\* is to be scanned.
DiscoverFails ==
    /\ loop.at = "list" /\ Trouble
    /\ loop' = [Idle EXCEPT !.at = "call", !.key = Global]
    /\ UNCHANGED <<disk, kernel, queue, session, debounce, history, changes>>

\* Broken on purpose: the tick reconciles and tells nobody.
DropQuietly ==
    /\ loop.at = "drop"
    /\ LET gone == Worktree \ loop.known IN
        /\ watched' = watched \ UNION {Places(w) : w \in gone}
        /\ dirCount' = [w \in Worktree |-> IF w \in gone THEN None ELSE dirCount[w]]
        /\ excused' = excused \ {w \in gone : ~ Stale(w)}
        /\ owed' = owed \ gone
    /\ loop' = Idle
    /\ UNCHANGED <<disk, kernel, queue, debounce, dirty, changes, troubles>>

\* The bookkeeping of worktrees that are gone; the kernel has dropped its own.
Drop ==
    /\ loop.at = "drop"
    /\ LET gone == Worktree \ loop.known IN
        /\ watched' = watched \ UNION {Places(w) : w \in gone}
        /\ dirCount' = [w \in Worktree |-> IF w \in gone THEN None ELSE dirCount[w]]
        /\ excused' = excused \ {w \in gone : ~ Stale(w)}
        /\ owed' = owed \ gone
    /\ loop' = [Idle EXCEPT !.at = "call", !.key = Global]
    /\ UNCHANGED <<disk, kernel, queue, debounce, dirty, changes, troubles>>

-----------------------------------------------------------------------------
(* Run's select.                                                           *)

Selecting == loop.at = "select"

\* Broken on purpose: the count goes down for every directory that goes away.
TrackedAlways(e) == e.op = "remove" /\ e.in # Admin /\ e.name # None

\* The bookkeeping of a directory that has gone.
Tracked(e) == e.op = "remove" /\ Work(e.name) \in watched

\* handle.
Handle ==
    /\ Selecting /\ queue # <<>>
    /\ queue' = Tail(queue)
    /\ LET e == Head(queue)
           w == OwnerOf(e.in) IN
        \/ /\ e.in \notin watched
           /\ UNCHANGED <<session, timer, loop>>
        \/ /\ e.in \in watched /\ e.in = Admin
           /\ Trigger(Global)
           /\ UNCHANGED <<session, loop>>
        \/ /\ e.in \in watched /\ e.op = "create" /\ e.name \in dirs
           /\ loop' = [Idle EXCEPT !.at = "walk", !.walk = w, !.seen = {e.name}]
           /\ UNCHANGED <<session, timer>>
        \/ /\ e.in \in watched /\ e.in # Admin
           /\ e.op = "create" => e.name \notin dirs
           /\ watched' = IF Tracked(e) THEN watched \ {Work(e.name)} ELSE watched
           /\ dirCount' = IF Tracked(e) THEN [dirCount EXCEPT ![w] = @ - 1] ELSE dirCount
           /\ Trigger(w)
           /\ UNCHANGED loop
    /\ UNCHANGED <<disk, kernel, fired, history, changes, troubles>>

\* Broken on purpose: a key that the loop does not wait for is lost.
TimerFiresOnce(k) ==
    /\ k \in timer
    /\ timer' = timer \ {k}
    /\ fired' = IF Selecting THEN [fired EXCEPT ![k] = @ + 1] ELSE fired
    /\ UNCHANGED <<disk, kernel, queue, session, loop, history, changes, troubles>>

\* A timer's goroutine blocks on the channel fired until the loop takes its key.
TimerFires(k) ==
    /\ k \in timer
    /\ timer' = timer \ {k}
    /\ fired' = [fired EXCEPT ![k] = @ + 1]
    /\ UNCHANGED <<disk, kernel, queue, session, loop, history, changes, troubles>>

TakeFired(k) ==
    /\ Selecting /\ fired[k] > 0
    /\ fired' = [fired EXCEPT ![k] = @ - 1]
    /\ loop' = IF k = Global THEN Reconcile ELSE [Idle EXCEPT !.at = "call", !.key = k]
    /\ UNCHANGED <<disk, kernel, queue, session, timer, history, changes, troubles>>

Tick ==
    /\ Selecting
    /\ loop' = Reconcile
    /\ UNCHANGED <<disk, kernel, queue, session, debounce, history, changes, troubles>>

\* onChange: the engine refreshes everything, or one worktree.
Call ==
    /\ loop.at = "call"
    /\ dirty' = IF loop.key = Global THEN {} ELSE dirty \ {loop.key}
    /\ owed' = owed \ {loop.key}
    /\ loop' = Idle
    /\ UNCHANGED <<disk, kernel, queue, session, debounce, excused, changes, troubles>>

Agents == \E w \in Worktree :
    \/ AddWorktree(w) \/ RemoveWorktree(w)
    \/ \E p \in Places(w) : Change(p, w)
    \/ \E d \in Sub : Owner[d] = w /\ (Mkdir(d) \/ Rmdir(d))

Walk == ReadDir \/ WalkEnds \/ \E d \in Dir : Visit(d) \/ VisitSkips(d) \/ VisitFails(d)

Step == Walk \/ List \/ ListFails \/ DiscoverFails \/ Drop \/ Call

Next ==
    \/ Agents \/ Step \/ Handle \/ Tick
    \/ \E k \in Key : TimerFires(k) \/ TakeFired(k)

\* The goroutine runs; select picks among what is ready at random, so that
\* neither a key nor an event nor the tick waits for ever.
Fairness ==
    /\ WF_vars(Step)
    /\ SF_vars(Handle) /\ SF_vars(Tick)
    /\ \A k \in Key : WF_vars(TimerFires(k)) /\ SF_vars(TakeFired(k))

Spec == Init /\ [][Next]_vars /\ Fairness

-----------------------------------------------------------------------------

TypeOK ==
    /\ live \subseteq Worktree /\ dirs \subseteq Sub /\ admin \in BOOLEAN
    /\ kernel \subseteq Place /\ watched \subseteq Place
    /\ \A p \in kernel : Exists(p)
    /\ \A n \in DOMAIN queue : queue[n] \in Event
    /\ dirCount \in [Worktree -> Nat \cup {None}]
    /\ timer \subseteq Key /\ fired \in [Key -> Nat]
    /\ loop \in Loop
    /\ loop.at = "call" => loop.key # None
    /\ loop.at = "walk" /\ loop.walk # None => dirCount[loop.walk] # None
    /\ dirty \subseteq Worktree /\ owed \subseteq Worktree /\ excused \subseteq Worktree
    /\ changes \in 0 .. MaxChanges /\ troubles \in 0 .. MaxTroubles

(* When the watcher has nothing left to handle, it watches the gitdir and    *)
(* every directory of each worktree it knows, whatever was made and removed  *)
(* while it walked the tree: the events and the walk overlap, and together   *)
(* they leave no gap (fswatcher.go:264-289, 315-319).  Excused are worktrees *)
(* at the cap, those of a call that failed, those put back at a path before  *)
(* the watcher had forgotten the old one, and those of which a watched       *)
(* directory went while the one it was in, put back, was not watched yet.    *)
Complete ==
    Selecting /\ queue = <<>> =>
        \A w \in live \ excused : dirCount[w] # None =>
            \A p \in Places(w) : Exists(p) => p \in watched \cap kernel

(* The count of a worktree is never below the number of directories watched  *)
(* for it, nor above the cap, so that no worktree has more watches than the  *)
(* cap allows, although directories are counted twice when the walk and an   *)
(* event both find them (fswatcher.go:322-332).  (And every variable has its *)
(* type.)                                                                    *)
Counted ==
    /\ TypeOK
    /\ \A w \in Worktree : dirCount[w] # None =>
          /\ Cardinality({p \in watched \cap Places(w) : p # Git(w)}) <= dirCount[w]
          /\ dirCount[w] <= Cap

(* A change where the watcher listens brings a hint for its worktree, and    *)
(* does not have to wait for the tick: the event, the timer that later       *)
(* events reset, the channel and the loop hand it on (fswatcher.go:116-165). *)
HintsFire == \A w \in Worktree : w \in owed ~> w \notin owed

(* Any change is found by the tick at the latest, watched or not, also after *)
(* a reconcile that failed.                                                  *)
ChangesNoticed == \A w \in Worktree : w \in dirty ~> w \notin dirty
=============================================================================
