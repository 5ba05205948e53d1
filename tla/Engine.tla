------------------------------- MODULE Engine -------------------------------
(***************************************************************************)
(* The engine of the wtd daemon (internal/engine/engine.go): full and      *)
(* targeted refreshes, the approve-and-merge path and the review toggle,   *)
(* run by the goroutines of the watcher and of the HTTP handlers over one  *)
(* cache, one registry and one persistent store, while agents and users    *)
(* change the git worktrees underneath.                                    *)
(*                                                                         *)
(* A worktree's CONTENT is its diff against the base branch: a file maps   *)
(* to the hash of its change (engine.go:fileHash), or to Same when it does *)
(* not differ from base.                                                   *)
(*                                                                         *)
(* Every step of the code that reads or writes shared state is a step      *)
(* here.  refreshMu has one holder at a time, so the local variables of    *)
(* the call that holds it are one record, "scan".                          *)
(***************************************************************************)
EXTENDS Naturals, FiniteSets

CONSTANTS
  Worktree,   \* worktree paths; an id is a digest of the path, so also the ids
  Repo,       \* repositories discovered under the roots
  RepoOf,     \* the repository of each worktree
  Editable,   \* worktrees in which agents work
  File,       \* paths inside a worktree
  Hash,       \* per-file diff hashes
  Risky,      \* hashes of changes a guardrail rule matches
  Branch,     \* branch names
  Base,       \* the base branch every worktree is compared with
  Caller,     \* goroutines that call Refresh, RefreshOne or Approve
  Reviewer,   \* goroutines that serve one user's diff view and review toggle
  AgentOps,   \* what agents and users do: subset of AllAgentOps
  EditTo,     \* what an edit may turn a file's change into
  OldMarks,   \* hashes the store may hold marks of from an earlier run
  Requests,   \* the calls that are made: subset of AllRequests
  Faults,     \* the errors that occur: subset of AllFaults
  Same,       \* "this file does not differ from base"
  None        \* an absent cache entry, row, mark, worktree or caller

AllAgentOps == {"edit", "commit", "checkout", "switch", "add", "drop"}
AllRequests == {"full", "one", "approve", "review"}
AllFaults == {"discover", "list", "cancel", "branch", "diff", "dirty",
              "merge", "remove", "store", "crash"}

ASSUME EngineAssumption ==
  /\ IsFiniteSet(File)
  /\ RepoOf \in [Worktree -> Repo]
  /\ Editable \subseteq Worktree
  /\ Risky \subseteq Hash
  /\ EditTo \subseteq Hash \cup {Same}
  /\ OldMarks \subseteq Hash
  /\ Base \in Branch
  /\ Same \notin Hash
  /\ None \notin Hash \cup Worktree \cup File \cup Branch \cup Caller
  /\ AgentOps \subseteq AllAgentOps
  /\ Requests \subseteq AllRequests
  /\ Faults \subseteq AllFaults

Content == [File -> Hash \cup {Same}]
Empty == [f \in File |-> Same]

(* The files a diff lists, and those of them a guardrail rule hits.  One   *)
(* rule stands for the pack: a hit's key (rule, file) is then the file.    *)
Files(c) == {f \in File : c[f] # Same}
Hits(c) == {f \in File : c[f] \in Risky}

Meta == [diff : Content, branch : Branch]
Row == [diff : Content, branch : Branch, reviewed : Nat,
        state : {"idle", "dirty"}]
Marks == [File -> Hash \cup {None}]

(* engine.go:reviewedCount - a mark counts while its hash is the file's.   *)
ReviewedCount(c, mk) == Cardinality({f \in Files(c) : mk[f] = c[f]})

(* engine.go:state, without the activity window: an empty diff is idle.    *)
StateOf(c, dirty) == IF dirty /\ c # Empty THEN "dirty" ELSE "idle"

Phases == {"free", "discover", "list", "branch", "diff", "cache", "prune",
           "build", "upsert", "reviewed", "clean", "base", "merge",
           "remove", "clear", "forget"}

(* The locals of the call that holds refreshMu.                            *)
Frame == [phase  : Phases,
          target : Worktree \cup {None},   \* the worktree being refreshed
          repos  : SUBSET Repo,            \* repositories still to list
          todo   : SUBSET (Worktree \X Branch),  \* refs listed, not refreshed
          seen   : SUBSET Worktree,
          branch : Branch \cup {None},     \* ref.Branch
          diff   : Content,                \* the diff just read from git
          fresh  : SUBSET File,            \* hits absent from the previous set
          row    : Row \cup {None},        \* what buildWorktree returned
          into   : Worktree \cup {None}]   \* basePath, where base is checked out

NoFrame == [phase |-> "free", target |-> None, repos |-> {}, todo |-> {},
            seen |-> {}, branch |-> None, diff |-> Empty, fresh |-> {},
            row |-> None, into |-> None]

Ops == {"full", "one", "approve"}
Request == [op : Ops, wt : Worktree \cup {None}]

(* None is no record.                                                      *)
ASSUME NoneAssumption ==
  /\ None \notin Meta
  /\ None \notin Row
  /\ None \notin Request

(* The locals of a reviewer: what the user looks at and, once the toggle   *)
(* is posted, SetReviewed's own.                                           *)
Review == [pc : {"idle", "view", "store", "get", "put"},
           wt : Worktree \cup {None}, file : File \cup {None},
           on : BOOLEAN, seen : Hash \cup {None}, m : Content,
           row : Row \cup {None}]

NoReview == [pc |-> "idle", wt |-> None, file |-> None, on |-> FALSE,
             seen |-> None, m |-> Empty, row |-> None]

VARIABLES
  \* git, which agents and users change at any time
  live,      \* the worktrees git lists
  branch,    \* the branch each worktree has checked out
  work,      \* each worktree's content, uncommitted changes included
  tip,       \* the content of each repository's branches
  \* the daemon's memory, lost by a restart
  cache,     \* Engine.cache
  reg,       \* Registry.wts
  firstScanDone,
  owner,     \* the caller that holds refreshMu
  req,       \* what each caller is executing or waits to execute
  scan,      \* the locals of the holder of refreshMu
  rev,       \* the locals of each reviewer
  \* the store
  marks,     \* review marks: the hash each file had when it was marked
  \* history variables
  vetted,    \* the <<worktree, file, hash>> some user asked to mark
  torn,      \* the running approve did not see git at one instant
  landed,    \* the last merge into base
  standing,  \* hits present without interruption since the daemon started
  alerted    \* hits published as guardrail.tripped since the daemon started

git == <<live, branch, work, tip>>
memory == <<cache, reg, firstScanDone, owner, req, scan, rev>>
history == <<vetted, torn, landed, standing, alerted>>
vars == <<git, memory, marks, history>>

Tip(w) == tip[RepoOf[w]][branch[w]]
IsDirty(w) == work[w] # Tip(w)
CheckedOut(r, b) == \E w \in live : RepoOf[w] = r /\ branch[w] = b

(* What `git diff HEAD` shows: the fallback when the diff against base     *)
(* fails (gitbackend.go:DiffAgainstBase).                                  *)
Uncommitted(w) == [f \in File |-> IF work[w][f] # Tip(w)[f]
                                  THEN work[w][f] ELSE Same]

HitsNow(lv, wk) == {x \in Worktree \X File :
                      x[1] \in lv /\ x[2] \in Hits(wk[x[1]])}

Approving == /\ owner # None
             /\ req[owner].op = "approve"

TypeOK ==
  /\ live \in SUBSET Worktree
  /\ branch \in [Worktree -> Branch]
  /\ work \in [Worktree -> Content]
  /\ tip \in [Repo -> [Branch -> Content]]
  /\ cache \in [Worktree -> Meta \cup {None}]
  /\ reg \in [Worktree -> Row \cup {None}]
  /\ firstScanDone \in BOOLEAN
  /\ owner \in Caller \cup {None}
  /\ req \in [Caller -> Request \cup {None}]
  /\ scan \in Frame
  /\ rev \in [Reviewer -> Review]
  /\ marks \in [Worktree -> Marks]
  /\ vetted \in SUBSET (Worktree \X File \X Hash)
  /\ torn \in BOOLEAN
  /\ landed \in [wt : Worktree, content : Content, into : Branch,
                torn : BOOLEAN] \cup {None}
  /\ standing \in SUBSET (Worktree \X File)
  /\ alerted \in SUBSET (Worktree \X File)

(***************************************************************************)
(* Initially git holds worktrees that agents may already have worked in,   *)
(* and each repository's main worktree, which is not Editable, has base    *)
(* checked out and no changes.  The store may hold marks users asked for   *)
(* in an earlier run; the daemon has scanned nothing.                      *)
(***************************************************************************)
GitInit ==
  /\ live = Worktree
  /\ branch \in [Worktree -> Branch]
  /\ \A r \in Repo : CheckedOut(r, Base)
  /\ \A v, w \in Worktree :
       v # w /\ RepoOf[v] = RepoOf[w] => branch[v] # branch[w]
  /\ work \in [Worktree -> [File -> EditTo \cup {Same}]]
  /\ tip = [r \in Repo |-> [b \in Branch |-> Empty]]
  /\ \A w \in Worktree : w \notin Editable <=> branch[w] = Base
  /\ \A w \in Worktree \ Editable : work[w] = Empty

Init ==
  /\ GitInit
  /\ cache = [w \in Worktree |-> None]
  /\ reg = [w \in Worktree |-> None]
  /\ firstScanDone = FALSE
  /\ owner = None
  /\ req = [p \in Caller |-> None]
  /\ scan = NoFrame
  /\ rev = [r \in Reviewer |-> NoReview]
  /\ marks \in [Worktree -> [File -> OldMarks \cup {None}]]
  /\ vetted = {x \in Worktree \X File \X Hash : marks[x[1]][x[2]] = x[3]}
  /\ torn = FALSE
  /\ landed = None
  /\ standing = HitsNow(live, work)
  /\ alerted = {}

-----------------------------------------------------------------------------
(***************************************************************************)
(* Git, as agents and users change it.  Any change after a running approve *)
(* has begun to look tears what that approve sees; a hit that goes away is *)
(* no longer standing.                                                     *)
(***************************************************************************)
GitMoves ==
  /\ torn' = (torn \/ (Approving /\ scan.phase # "branch"))
  /\ standing' = standing \cap HitsNow(live', work')
  /\ UNCHANGED <<memory, marks, vetted, landed, alerted>>

AgentEdit(w, f, h) ==
  /\ "edit" \in AgentOps
  /\ w \in live
  /\ work[w][f] # h
  /\ work' = [work EXCEPT ![w][f] = h]
  /\ UNCHANGED <<live, branch, tip>>
  /\ GitMoves

(* A commit on the base branch itself moves base: nothing differs from it  *)
(* any more.                                                               *)
AgentCommit(w) ==
  /\ "commit" \in AgentOps
  /\ w \in live
  /\ IsDirty(w)
  /\ IF branch[w] = Base
       THEN /\ work' = [work EXCEPT ![w] = Empty]
            /\ UNCHANGED tip
       ELSE /\ tip' = [tip EXCEPT ![RepoOf[w]][branch[w]] = work[w]]
            /\ UNCHANGED work
  /\ UNCHANGED <<live, branch>>
  /\ GitMoves

(* git refuses a branch that another worktree has checked out.  "switch"   *)
(* is the checkout of another branch in a main worktree.                   *)
Checkout(w, b) ==
  /\ IF w \in Editable THEN "checkout" \in AgentOps
                        ELSE "switch" \in AgentOps
  /\ w \in live
  /\ ~ IsDirty(w)
  /\ ~ CheckedOut(RepoOf[w], b)
  /\ branch' = [branch EXCEPT ![w] = b]
  /\ work' = [work EXCEPT ![w] = tip[RepoOf[w]][b]]
  /\ UNCHANGED <<live, tip>>
  /\ GitMoves

AddWorktree(w, b) ==
  /\ "add" \in AgentOps
  /\ w \notin live
  /\ ~ CheckedOut(RepoOf[w], b)
  /\ live' = live \cup {w}
  /\ branch' = [branch EXCEPT ![w] = b]
  /\ work' = [work EXCEPT ![w] = tip[RepoOf[w]][b]]
  /\ UNCHANGED tip
  /\ GitMoves

DropWorktree(w) ==
  /\ "drop" \in AgentOps
  /\ w \in live \cap Editable
  /\ live' = live \ {w}
  /\ work' = [work EXCEPT ![w] = Empty]
  /\ UNCHANGED <<branch, tip>>
  /\ GitMoves

Agent ==
  \/ \E w \in Editable, f \in File, h \in EditTo : AgentEdit(w, f, h)
  \/ \E w \in Editable : AgentCommit(w) \/ DropWorktree(w)
  \/ \E w \in Worktree, b \in Branch : Checkout(w, b) \/ AddWorktree(w, b)

-----------------------------------------------------------------------------
(***************************************************************************)
(* Refresh, RefreshOne and Approve.  All three hold refreshMu throughout.  *)
(***************************************************************************)
Call(p, op, w) ==
  /\ req[p] = None
  /\ req' = [req EXCEPT ![p] = [op |-> op, wt |-> w]]
  /\ UNCHANGED <<git, cache, reg, firstScanDone, owner, scan, rev, marks,
                 history>>

CallRefresh(p) == "full" \in Requests /\ Call(p, "full", None)

(* RefreshOne looks at the cache before it takes the lock: a worktree it   *)
(* does not know falls back to a full Refresh.                             *)
CallRefreshOne(p, w) ==
  /\ "one" \in Requests
  /\ IF cache[w] = None THEN Call(p, "full", None) ELSE Call(p, "one", w)

CallApprove(p, w) == "approve" \in Requests /\ Call(p, "approve", w)

Return(p) == req' = [req EXCEPT ![p] = None]

(* The deferred Unlock.                                                    *)
Release ==
  /\ Return(owner)
  /\ owner' = None
  /\ scan' = NoFrame
  /\ torn' = FALSE

At(ph) == owner # None /\ scan.phase = ph
Goto(ph) == scan' = [scan EXCEPT !.phase = ph]

(* Broken on purpose: the cache is not looked at again under the lock.     *)
AcquireTrusting(p) ==
  /\ owner = None
  /\ req[p] # None
  /\ owner' = p
  /\ IF req[p].op = "full"
       THEN Goto("discover")
       ELSE scan' = [scan EXCEPT !.phase = "diff", !.target = req[p].wt,
                                 !.branch = branch[req[p].wt]]
  /\ UNCHANGED <<git, cache, reg, firstScanDone, req, rev, marks, history>>

(* Refresh goes on to discovery.  A targeted refresh or an approve of a    *)
(* worktree the cache no longer has returns at once, and so does a         *)
(* targeted refresh whose context was cancelled while it waited.           *)
Acquire(p) ==
  /\ owner = None
  /\ req[p] # None
  /\ \/ /\ req[p].op = "full"
        /\ owner' = p
        /\ Goto("discover")
        /\ UNCHANGED req
     \/ /\ req[p].op # "full"
        /\ cache[req[p].wt] # None
        /\ owner' = p
        /\ scan' = [scan EXCEPT !.phase = "branch", !.target = req[p].wt]
        /\ UNCHANGED req
     \/ /\ req[p].op # "full"
        /\ \/ cache[req[p].wt] = None
           \/ req[p].op = "one" /\ "cancel" \in Faults
        /\ Return(p)
        /\ UNCHANGED <<owner, scan>>
  /\ UNCHANGED <<git, cache, reg, firstScanDone, rev, marks, history>>

Discover ==
  /\ At("discover")
  /\ scan' = [scan EXCEPT !.phase = "list", !.repos = Repo]
  /\ UNCHANGED <<git, cache, reg, firstScanDone, owner, req, rev, marks,
                 history>>

(* DiscoverRepos fails, or the context is cancelled before a repository is *)
(* listed: Refresh returns without removing anything and leaves the gate   *)
(* of the guardrail events as it is.                                       *)
Abandon ==
  /\ \/ At("discover") /\ "discover" \in Faults
     \/ At("list") /\ scan.todo = {} /\ scan.repos # {} /\ "cancel" \in Faults
  /\ Release
  /\ UNCHANGED <<git, cache, reg, firstScanDone, rev, marks, vetted, landed,
                 standing, alerted>>

ListRepo(r) ==
  /\ At("list")
  /\ scan.todo = {}
  /\ r \in scan.repos
  /\ LET here == {w \in live : RepoOf[w] = r} IN
     scan' = [scan EXCEPT !.repos = @ \ {r},
                          !.todo  = {<<w, branch[w]>> : w \in here},
                          !.seen  = @ \cup here]
  /\ UNCHANGED <<git, cache, reg, firstScanDone, owner, req, rev, marks,
                 history>>

(* "a bad repo shouldn't sink the whole scan": continue with the next one. *)
ListFails(r) ==
  /\ "list" \in Faults
  /\ At("list")
  /\ scan.todo = {}
  /\ r \in scan.repos
  /\ scan' = [scan EXCEPT !.repos = @ \ {r}]
  /\ UNCHANGED <<git, cache, reg, firstScanDone, owner, req, rev, marks,
                 history>>

(* Broken on purpose: the worktree taken stays in the list.                *)
NextRefAgain ==
  /\ At("list")
  /\ \E ref \in scan.todo :
       scan' = [scan EXCEPT !.phase = "diff", !.target = ref[1],
                            !.branch = ref[2]]
  /\ UNCHANGED <<git, cache, reg, firstScanDone, owner, req, rev, marks,
                 history>>

NextRef ==
  /\ At("list")
  /\ \E ref \in scan.todo :
       scan' = [scan EXCEPT !.phase = "diff", !.todo = @ \ {ref},
                            !.target = ref[1], !.branch = ref[2]]
  /\ UNCHANGED <<git, cache, reg, firstScanDone, owner, req, rev, marks,
                 history>>

(* refreshOneLocked asks git for the branch and, when git fails, keeps the *)
(* one the cache has: then an approve goes on with what it did not see.    *)
ReadBranch ==
  /\ At("branch")
  /\ \/ /\ scan.target \in live
        /\ scan' = [scan EXCEPT !.phase = "diff",
                                !.branch = branch[scan.target]]
     \/ /\ scan.target \notin live \/ "branch" \in Faults
        /\ scan' = [scan EXCEPT !.phase = "diff",
                                !.branch = cache[scan.target].branch]
  /\ UNCHANGED <<git, cache, reg, firstScanDone, owner, req, rev, marks,
                 history>>

(* refreshWorktree: read the diff, ...                                     *)
ReadDiff ==
  /\ At("diff")
  /\ scan.target \in live
  /\ scan' = [scan EXCEPT !.phase = "cache", !.diff = work[scan.target]]
  /\ UNCHANGED <<git, cache, reg, firstScanDone, owner, req, rev, marks,
                 history>>

(* ... which is empty when git fails ("treat as no diff rather than        *)
(* dropping the worktree"), or lists uncommitted changes only when just    *)
(* the comparison with base fails, ...                                     *)
ReadDiffFails ==
  /\ At("diff")
  /\ \/ scan.target \notin live /\ scan' = [scan EXCEPT !.phase = "cache"]
     \/ /\ "diff" \in Faults
        /\ scan.target \in live
        /\ \E c \in {Empty, Uncommitted(scan.target)} :
             scan' = [scan EXCEPT !.phase = "cache", !.diff = c]
  /\ UNCHANGED <<git, cache, reg, firstScanDone, owner, req, rev, marks,
                 history>>

(* ... replace the cache entry, noting which hits the previous entry did   *)
(* not have, ...                                                           *)
WriteCache ==
  LET w    == scan.target
      prev == IF cache[w] = None THEN {} ELSE Hits(cache[w].diff)
  IN
  /\ At("cache")
  /\ cache' = [cache EXCEPT ![w] = [diff |-> scan.diff,
                                    branch |-> scan.branch]]
  /\ scan' = [scan EXCEPT !.phase = "prune",
                          !.fresh = Hits(scan.diff) \ prev]
  /\ UNCHANGED <<git, reg, firstScanDone, owner, req, rev, marks, history>>

(* Broken on purpose: marks whose hash is stale are dropped too (and,      *)
(* PrunePublishAlways, hits are published before a scan has completed).    *)
KeptCurrent(mk, c) == [f \in File |-> IF f \in Files(c) /\ mk[f] = c[f]
                                       THEN mk[f] ELSE None]

(* ... drop the marks of files that left the diff (a store error leaves    *)
(* them) and, once a full scan has completed, publish the new hits, ...    *)
Kept(mk, c) == [f \in File |-> IF f \in Files(c) THEN mk[f] ELSE None]

PrunePublishAlways ==
  LET w == scan.target IN
  /\ At("prune")
  /\ marks' = [marks EXCEPT ![w] = Kept(@, scan.diff)]
  /\ alerted' = alerted \cup ({w} \X scan.fresh)
  /\ Goto("build")
  /\ UNCHANGED <<git, cache, reg, firstScanDone, owner, req, rev, vetted,
                 torn, landed, standing>>

PrunePublish ==
  LET w == scan.target IN
  /\ At("prune")
  /\ \/ marks' = [marks EXCEPT ![w] = Kept(@, scan.diff)]
     \/ "store" \in Faults /\ UNCHANGED marks
  /\ alerted' = IF firstScanDone THEN alerted \cup ({w} \X scan.fresh)
                                 ELSE alerted
  /\ Goto("build")
  /\ UNCHANGED <<git, cache, reg, firstScanDone, owner, req, rev, vetted,
                 torn, landed, standing>>

(* What ReviewedFiles returns, its error ignored.                          *)
NoMarks == [f \in File |-> None]
ReadMarks(w) == {marks[w]} \cup (IF "store" \in Faults THEN {NoMarks} ELSE {})

(* ... assemble the row from the marks and the dirty flag of this moment   *)
(* (an IsDirty error reads as clean), ...                                  *)
Build ==
  LET w == scan.target IN
  /\ At("build")
  /\ \E dirty \in BOOLEAN, mk \in ReadMarks(w) :
       /\ dirty => w \in live /\ IsDirty(w)
       /\ ~ dirty /\ w \in live /\ IsDirty(w) => "dirty" \in Faults
       /\ scan' = [scan EXCEPT !.phase = "upsert",
            !.row = [diff |-> scan.diff, branch |-> scan.branch,
                     reviewed |-> ReviewedCount(scan.diff, mk),
                     state |-> StateOf(scan.diff, dirty)]]
  /\ UNCHANGED <<git, cache, reg, firstScanDone, owner, req, rev, marks,
                 history>>

(* ... and put it into the registry.  RefreshOne is then done, Refresh     *)
(* takes the next worktree and Approve comes to its gates.                 *)
Upsert ==
  /\ At("upsert")
  /\ reg' = [reg EXCEPT ![scan.target] = scan.row]
  /\ CASE req[owner].op = "one" -> Release
       [] req[owner].op = "full" ->
            /\ scan' = [NoFrame EXCEPT !.phase = "list",
                          !.repos = scan.repos, !.todo = scan.todo,
                          !.seen = scan.seen]
            /\ UNCHANGED <<owner, req, torn>>
       [] req[owner].op = "approve" ->
            /\ scan' = [NoFrame EXCEPT !.phase = "reviewed",
                          !.target = scan.target]
            /\ UNCHANGED <<owner, req, torn>>
  /\ UNCHANGED <<git, cache, firstScanDone, rev, marks, vetted, landed,
                 standing, alerted>>

(* Broken on purpose: the registry is swept and the cache is not, ...      *)
SweepRegistryOnly ==
  LET gone == {w \in Worktree : reg[w] # None /\ w \notin scan.seen} IN
  /\ At("list") /\ scan.todo = {} /\ scan.repos = {}
  /\ reg' = [w \in Worktree |-> IF w \in gone THEN None ELSE reg[w]]
  /\ firstScanDone' = TRUE
  /\ Release
  /\ UNCHANGED <<git, cache, rev, marks, vetted, landed, standing, alerted>>

(* ... or what is gone is looked up in the cache.                          *)
SweepCached ==
  LET gone == {w \in Worktree : cache[w] # None /\ w \notin scan.seen} IN
  /\ At("list") /\ scan.todo = {} /\ scan.repos = {}
  /\ cache' = [w \in Worktree |-> IF w \in gone THEN None ELSE cache[w]]
  /\ reg' = [w \in Worktree |-> IF w \in gone THEN None ELSE reg[w]]
  /\ firstScanDone' = TRUE
  /\ Release
  /\ UNCHANGED <<git, rev, marks, vetted, landed, standing, alerted>>

(* The end of a full scan: forget every worktree in the registry that no   *)
(* repository listed, and open the gate of the guardrail events.           *)
Sweep ==
  LET gone == {w \in Worktree : reg[w] # None /\ w \notin scan.seen} IN
  /\ At("list")
  /\ scan.todo = {}
  /\ scan.repos = {}
  /\ cache' = [w \in Worktree |-> IF w \in gone THEN None ELSE cache[w]]
  /\ reg' = [w \in Worktree |-> IF w \in gone THEN None ELSE reg[w]]
  /\ firstScanDone' = TRUE
  /\ Release
  /\ UNCHANGED <<git, rev, marks, vetted, landed, standing, alerted>>

RefreshStep ==
  \/ Discover
  \/ \E r \in Repo : ListRepo(r)
  \/ \E r \in Repo : ListFails(r)
  \/ NextRef
  \/ ReadBranch
  \/ ReadDiff
  \/ ReadDiffFails
  \/ WriteCache
  \/ PrunePublish
  \/ Build
  \/ Upsert
  \/ Sweep
  \/ Abandon

-----------------------------------------------------------------------------
(***************************************************************************)
(* Approve, after its own re-diff.  An error at any gate releases the lock *)
(* and changes nothing else.                                               *)
(***************************************************************************)
\* Broken on purpose: a stale mark counts; an empty diff counts as reviewed.
MarkedAtAll(w) ==
  LET d == cache[w].diff IN
  Files(d) # {} /\ \A f \in Files(d) : marks[w][f] # None

ReviewedOrEmpty(w) ==
  LET d == cache[w].diff IN \A f \in Files(d) : marks[w][f] = d[f]

FullyReviewed(w) ==
  LET d == cache[w].diff IN
  /\ Files(d) # {}
  /\ \A f \in Files(d) : marks[w][f] = d[f]

GateReviewed ==
  /\ At("reviewed")
  /\ FullyReviewed(scan.target)
  /\ Goto("clean")
  /\ UNCHANGED <<git, cache, reg, firstScanDone, owner, req, rev, marks,
                 history>>

(* Broken on purpose: uncommitted changes pass.                            *)
GateAnyway ==
  /\ At("clean")
  /\ scan.target \in live
  /\ Goto("base")
  /\ UNCHANGED <<git, cache, reg, firstScanDone, owner, req, rev, marks,
                 history>>

GateClean ==
  /\ At("clean")
  /\ scan.target \in live
  /\ ~ IsDirty(scan.target)
  /\ Goto("base")
  /\ UNCHANGED <<git, cache, reg, firstScanDone, owner, req, rev, marks,
                 history>>

(* The worktree that has base checked out; it must be another one.         *)
FindBase ==
  /\ At("base")
  /\ \E v \in live \ {scan.target} :
       /\ RepoOf[v] = RepoOf[scan.target]
       /\ branch[v] = Base
       /\ scan' = [scan EXCEPT !.phase = "merge", !.into = v]
  /\ UNCHANGED <<git, cache, reg, firstScanDone, owner, req, rev, marks,
                 history>>

(* Merge aborts when it fails, so a failure changes nothing either.        *)
Refuse ==
  LET w == scan.target IN
  /\ \/ At("reviewed") /\ (~ FullyReviewed(w) \/ "store" \in Faults)
     \/ At("clean") /\ (w \notin live \/ IsDirty(w) \/ "dirty" \in Faults)
     \/ At("base") /\ \/ "list" \in Faults
                      \/ ~ CheckedOut(RepoOf[w], Base)
                      \/ w \in live /\ branch[w] = Base
     \/ At("merge") /\ (scan.into \notin live \/ "merge" \in Faults)
  /\ Release
  /\ UNCHANGED <<git, cache, reg, firstScanDone, rev, marks, vetted, landed,
                 standing, alerted>>

(* `git merge` names the cached branch and runs in the worktree found      *)
(* before.  Once it is in base the branch no longer differs from it; into  *)
(* another branch it brings its changes along.                             *)
Over(d, c) == [f \in File |-> IF c[f] # Same THEN c[f] ELSE d[f]]
Since(d, c) == [f \in File |-> IF d[f] = c[f] THEN Same ELSE d[f]]

Merge ==
  LET w == scan.target
      r == RepoOf[w]
      b == cache[w].branch
      c == tip[r][b]
      t == branch[scan.into]
  IN
  /\ At("merge")
  /\ scan.into \in live
  /\ IF t = Base
       THEN /\ tip' = [tip EXCEPT ![r][b] = Empty]
            /\ work' = [v \in Worktree |->
                          IF v \in live /\ RepoOf[v] = r /\ branch[v] = b
                            THEN Since(work[v], c) ELSE work[v]]
       ELSE /\ tip' = [tip EXCEPT ![r][t] = Over(@, c)]
            /\ work' = [work EXCEPT ![scan.into] = Over(@, c)]
  /\ landed' = [wt |-> w, content |-> c, into |-> t, torn |-> torn]
  /\ standing' = standing \cap HitsNow(live, work')
  /\ Goto("remove")
  /\ UNCHANGED <<live, branch, cache, reg, firstScanDone, owner, req, rev,
                 marks, vetted, torn, alerted>>

(* The error of `git worktree remove` is ignored; it never removes a main  *)
(* worktree.                                                               *)
RemoveWorktree ==
  LET w == scan.target IN
  /\ At("remove")
  /\ \/ /\ w \in live \cap Editable
        /\ live' = live \ {w}
        /\ work' = [work EXCEPT ![w] = Empty]
     \/ /\ w \notin live \cap Editable \/ "remove" \in Faults
        /\ UNCHANGED <<live, work>>
  /\ standing' = standing \cap HitsNow(live', work')
  /\ Goto("clear")
  /\ UNCHANGED <<branch, tip, cache, reg, firstScanDone, owner, req, rev,
                 marks, vetted, torn, landed, alerted>>

ClearWorktree ==
  /\ At("clear")
  /\ marks' = [marks EXCEPT ![scan.target] = NoMarks]
  /\ Goto("forget")
  /\ UNCHANGED <<git, cache, reg, firstScanDone, owner, req, rev, history>>

(* The error of ClearWorktree is ignored too.                              *)
ClearFails ==
  /\ "store" \in Faults
  /\ At("clear")
  /\ Goto("forget")
  /\ UNCHANGED <<git, cache, reg, firstScanDone, owner, req, rev, marks,
                 history>>

Forget ==
  /\ At("forget")
  /\ cache' = [cache EXCEPT ![scan.target] = None]
  /\ reg' = [reg EXCEPT ![scan.target] = None]
  /\ Release
  /\ UNCHANGED <<git, firstScanDone, rev, marks, vetted, landed, standing,
                 alerted>>

ApproveStep ==
  \/ GateReviewed
  \/ GateClean
  \/ FindBase
  \/ Merge
  \/ RemoveWorktree
  \/ ClearWorktree
  \/ ClearFails
  \/ Forget
  \/ Refuse

-----------------------------------------------------------------------------
(***************************************************************************)
(* SetReviewed takes no lock across its steps.                             *)
(***************************************************************************)
\* Broken on purpose: a file that is not in the diff can be marked.
ListedAnyway(w, f) == cache[w] # None /\ f \in File

Listed(w, f) == cache[w] # None /\ f \in Files(cache[w].diff)

(* The user opens the diff of w and looks at f.                            *)
View(r, w, f) ==
  /\ "review" \in Requests
  /\ rev[r].pc = "idle"
  /\ Listed(w, f)
  /\ rev' = [rev EXCEPT ![r] =
       [NoReview EXCEPT !.pc = "view", !.wt = w, !.file = f,
                        !.seen = cache[w].diff[f]]]
  /\ UNCHANGED <<git, cache, reg, firstScanDone, owner, req, scan, marks,
                 history>>

(* Broken on purpose: the hash sent is not compared.                       *)
ValidAnyway(v, withHash) == Listed(v.wt, v.file)

(* Still valid: the file is listed and, when the caller sent the hash it   *)
(* looked at (withHash), has not changed since.                            *)
Valid(v, withHash) ==
  /\ Listed(v.wt, v.file)
  /\ withHash => v.seen = cache[v.wt].diff[v.file]

(* The toggle is posted and validated against one read of the cache.  What *)
(* the user asked to mark is the hash sent or else the current one.        *)
Post(r, on, withHash) ==
  LET v == rev[r] IN
  /\ v.pc = "view"
  /\ Valid(v, withHash)
  /\ rev' = [rev EXCEPT ![r] = [v EXCEPT !.pc = "store", !.on = on,
                                         !.m = cache[v.wt].diff]]
  /\ vetted' = IF on
       THEN vetted \cup {<<v.wt, v.file,
              IF withHash THEN v.seen ELSE cache[v.wt].diff[v.file]>>}
       ELSE vetted
  /\ UNCHANGED <<git, cache, reg, firstScanDone, owner, req, scan, marks,
                 torn, landed, standing, alerted>>

PostFails(r) ==
  /\ rev[r].pc = "view"
  /\ ~ Valid(rev[r], TRUE)
  /\ rev' = [rev EXCEPT ![r] = NoReview]
  /\ UNCHANGED <<git, cache, reg, firstScanDone, owner, req, scan, marks,
                 history>>

StoreMark(r) ==
  LET v == rev[r] IN
  /\ v.pc = "store"
  /\ \/ /\ marks' = [marks EXCEPT ![v.wt][v.file] =
                       IF v.on THEN v.m[v.file] ELSE None]
        /\ rev' = [rev EXCEPT ![r].pc = "get"]
     \/ /\ "store" \in Faults
        /\ rev' = [rev EXCEPT ![r] = NoReview]
        /\ UNCHANGED marks
  /\ UNCHANGED <<git, cache, reg, firstScanDone, owner, req, scan, history>>

(* A copy of the registry's row, recounted over the diff read at the start *)
(* ...                                                                     *)
GetRow(r) ==
  LET v == rev[r] IN
  /\ v.pc = "get"
  /\ \E mk \in ReadMarks(v.wt) :
       rev' = [rev EXCEPT ![r] =
         IF reg[v.wt] = None THEN NoReview
         ELSE [v EXCEPT !.pc = "put",
                 !.row = [reg[v.wt] EXCEPT
                            !.reviewed = ReviewedCount(v.m, mk)]]]
  /\ UNCHANGED <<git, cache, reg, firstScanDone, owner, req, scan, marks,
                 history>>

(* ... is written back whole, whatever became of the row meanwhile.        *)
PutRow(r) ==
  /\ rev[r].pc = "put"
  /\ reg' = [reg EXCEPT ![rev[r].wt] = rev[r].row]
  /\ rev' = [rev EXCEPT ![r] = NoReview]
  /\ UNCHANGED <<git, cache, firstScanDone, owner, req, scan, marks, history>>

ReviewStep(r) == StoreMark(r) \/ GetRow(r) \/ PutRow(r)

(* The daemon stops at any point and starts again: memory is lost, git and *)
(* the store are not.                                                      *)
Restart ==
  /\ "crash" \in Faults
  /\ cache' = [w \in Worktree |-> None]
  /\ reg' = [w \in Worktree |-> None]
  /\ firstScanDone' = FALSE
  /\ owner' = None
  /\ req' = [p \in Caller |-> None]
  /\ scan' = NoFrame
  /\ rev' = [r \in Reviewer |-> NoReview]
  /\ torn' = FALSE
  /\ standing' = HitsNow(live, work)
  /\ alerted' = {}
  /\ UNCHANGED <<git, marks, vetted, landed>>

User ==
  \/ \E p \in Caller : CallRefresh(p)
  \/ \E p \in Caller, w \in Worktree : CallRefreshOne(p, w)
  \/ \E p \in Caller, w \in Worktree : CallApprove(p, w)
  \/ \E r \in Reviewer, w \in Worktree, f \in File : View(r, w, f)
  \/ \E r \in Reviewer, on, withHash \in BOOLEAN : Post(r, on, withHash)
  \/ \E r \in Reviewer : PostFails(r)

Next ==
  \/ Agent
  \/ User
  \/ \E p \in Caller : Acquire(p)
  \/ RefreshStep
  \/ ApproveStep
  \/ \E r \in Reviewer : ReviewStep(r)
  \/ Restart

Spec == Init /\ [][Next]_vars

-----------------------------------------------------------------------------
(***************************************************************************)
(* Fairness.  A goroutine that runs keeps running and every git command    *)
(* returns; sync.Mutex is starvation free, so a caller that waits for      *)
(* refreshMu gets it; and the watcher's ticker refreshes for ever.  Agents *)
(* and users owe the daemon nothing.                                       *)
(***************************************************************************)
Fairness ==
  /\ WF_vars(RefreshStep)
  /\ WF_vars(ApproveStep)
  /\ \A p \in Caller : SF_vars(Acquire(p))
  /\ \A r \in Reviewer : WF_vars(ReviewStep(r))
  /\ SF_vars(\E p \in Caller : CallRefresh(p))

FairSpec == Spec /\ Fairness

-----------------------------------------------------------------------------
(* What an approve merged is what users marked: every file of the branch,  *)
(* at the hash the branch has it.                                          *)
LandedVetted ==
  \A f \in Files(landed.content) :
    <<landed.wt, f, landed.content[f]>> \in vetted

(* The review gate (engine.go:Approve).  Unless git moved under a running  *)
(* approve, what it merges was marked by a user, file by file and at the   *)
(* very hash, and it lands in the base branch - through any interleaving   *)
(* of refreshes, toggles, commits and restarts before it.  An approve that *)
(* could not ask git for the branch is left out: it merges the cached      *)
(* branch, whatever is checked out now.                                    *)
MergesOnlyVetted ==
  landed # None /\ ~ landed.torn /\ "branch" \notin Faults =>
    LandedVetted /\ landed.into = Base

(* The same, whatever the agents do meanwhile: what engine.go:285-294 says *)
(* of an approve.                                                          *)
ApproveMergesOnlyVetted == landed # None => LandedVetted

(* A stored mark stands for a user's request for that very hash: the       *)
(* expectedHash comparison of SetReviewed and the one read of the cache it *)
(* rests on hold against refreshes that change the diff in between.        *)
MarksAreVetted ==
  \A w \in Worktree, f \in File :
    marks[w][f] # None => <<w, f, marks[w][f]>> \in vetted

(* What can be approved can be seen: a cached worktree has a row in the    *)
(* registry, except while the refresh that discovers it runs.              *)
CachedIsVisible ==
  \A w \in Worktree :
    cache[w] # None =>
      \/ reg[w] # None
      \/ scan.target = w /\ scan.phase \in {"prune", "build", "upsert"}

(* Review marks survive commits (README.md:333): a mark goes away only     *)
(* when its file no longer differs from base, a user withdraws it or an    *)
(* approve has merged the worktree.                                        *)
MarksSurvive ==
  [][\A w \in live, f \in File :
       marks[w][f] # None /\ marks'[w][f] = None =>
         \/ work[w][f] = Same
         \/ scan.phase = "clear" /\ scan.target = w
         \/ \E r \in Reviewer : /\ rev[r].pc = "store" /\ ~ rev[r].on
                                /\ rev[r].wt = w /\ rev[r].file = f]_vars

(* Approve removes the worktree with --force.  Unless git moved under it,  *)
(* nothing is lost: all that the worktree had against base, commits and    *)
(* uncommitted changes, is in base by then.                                *)
RemovalLosesNothing ==
  [][RemoveWorktree /\ ~ torn /\ "branch" \notin Faults =>
       \A w \in live \ live' : work[w] = Empty]_vars

(* "a concurrent Refresh/RefreshOne can no longer race in and resurrect    *)
(* the worktree this call just merged and removed": without git bringing   *)
(* it back, a worktree that left both git and the cache stays out of the   *)
(* cache.                                                                  *)
GoneStaysGone ==
  [][\A w \in Worktree \ live :
       cache[w] = None => cache'[w] = None]_vars

(* The cold-start gate: a hit that has been there since before the daemon  *)
(* started is never published as new (engine.go:81-86).                    *)
NoReplay == alerted \cap standing = {}

(* An approve ends, whatever it meets.                                     *)
CallsReturn == \A p \in Caller : req[p] # None ~> req[p] = None

(* The daemon's picture of a worktree is the truth about it.               *)
Accurate(w) ==
  IF w \in live
    THEN /\ cache[w] = [diff |-> work[w], branch |-> branch[w]]
         /\ reg[w] = [diff |-> work[w], branch |-> branch[w],
                      reviewed |-> ReviewedCount(work[w], marks[w]),
                      state |-> StateOf(work[w], IsDirty(w))]
    ELSE cache[w] = None /\ reg[w] = None

(* What keeps that from becoming true: the world changing, users toggling  *)
(* and approving, errors.  Refreshes do not.                               *)
Disturbance ==
  \/ Agent
  \/ \E r \in Reviewer, on, withHash \in BOOLEAN : Post(r, on, withHash)
  \/ ApproveStep
  \/ Restart

(* Once the world is quiet, cache and registry become the truth and stay   *)
(* it: rows that a toggle wrote back stale, over a newer row or after the  *)
(* worktree was removed, and counts that missed a toggle, are all healed   *)
(* by the next full refreshes.                                             *)
Converges ==
  <>[][~ Disturbance]_vars => <>[](\A w \in Worktree : Accurate(w))
=============================================================================
