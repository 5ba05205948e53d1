---------------------------- MODULE EngineProofs ----------------------------
(***************************************************************************)
(* Proofs about Engine, for every set of worktrees, files, callers,        *)
(* reviewers, agent operations and faults.                                 *)
(***************************************************************************)
EXTENDS Engine, FiniteSetTheorems, TLAPS

(* The part of the inductive invariant that ties the control state to the  *)
(* locals each step relies on.                                             *)
Targeted == Phases \ {"free", "discover", "list"}
Refreshing == {"diff", "cache", "prune", "build", "upsert"}
Gates == {"reviewed", "clean", "base", "merge", "remove", "clear", "forget"}

ScanShape ==
  /\ owner = None <=> scan.phase = "free"
  /\ owner = None => scan = NoFrame
  /\ owner # None => req[owner] # None
  /\ scan.phase \in {"discover", "list"} => req[owner].op = "full"
  /\ scan.phase \in Gates => req[owner].op = "approve"
  /\ scan.phase \in Targeted => scan.target \in Worktree
  /\ scan.phase = "branch" => cache[scan.target] # None
  /\ scan.phase \in Gates => cache[scan.target] # None
  /\ scan.phase \in {"prune", "build", "upsert"} => cache[scan.target] # None
  /\ scan.phase \in Refreshing => scan.branch \in Branch
  /\ scan.phase \in {"discover", "list", "branch", "diff"} => scan.diff = Empty
  /\ scan.phase = "upsert" => scan.row \in Row
  /\ scan.phase = "merge" => scan.into \in Worktree

ReqShape ==
  \A p \in Caller : req[p] # None /\ req[p].op # "full" =>
                      req[p].wt \in Worktree

RevShape ==
  \A r \in Reviewer :
    /\ rev[r].pc # "idle" => /\ rev[r].wt \in Worktree
                             /\ rev[r].file \in File
                             /\ rev[r].seen \in Hash
    /\ rev[r].pc = "store" => rev[r].m[rev[r].file] \in Hash
    /\ rev[r].pc = "put" => rev[r].row \in Row

TInv == TypeOK /\ ScanShape /\ ReqShape /\ RevShape

(* The part that makes the review gate sound.  While git has not moved     *)
(* under an approve, what the cache says of its target is what git says.   *)
VettedContent(w, c) == \A f \in Files(c) : <<w, f, c[f]>> \in vetted

SeenRight(w, d, b) ==
  \/ d = Empty
  \/ /\ w \in live
     /\ b = branch[w]
     /\ d = work[w] \/ d = Uncommitted(w)

StillApproving == Approving /\ ~ torn /\ "branch" \notin Faults

GateInv ==
  LET w == scan.target IN
  StillApproving =>
    /\ scan.phase = "diff" => w \notin live \/ scan.branch = branch[w]
    /\ scan.phase = "cache" => SeenRight(w, scan.diff, scan.branch)
    /\ scan.phase \in {"prune", "build", "upsert", "reviewed", "clean"} =>
         SeenRight(w, cache[w].diff, cache[w].branch)
    /\ scan.phase = "clean" =>
         cache[w].diff # Empty /\ VettedContent(w, cache[w].diff)
    /\ scan.phase \in {"base", "merge"} =>
         /\ w \in live
         /\ cache[w].branch = branch[w]
         /\ ~ IsDirty(w)
         /\ VettedContent(w, work[w])
    /\ scan.phase = "merge" =>
         /\ scan.into \in live
         /\ branch[scan.into] = Base
    /\ scan.phase = "remove" => work[w] = Empty

RevVetted ==
  \A r \in Reviewer :
    rev[r].pc = "store" /\ rev[r].on =>
      <<rev[r].wt, rev[r].file, rev[r].m[rev[r].file]>> \in vetted

-----------------------------------------------------------------------------
(* Counting is well defined: a diff lists finitely many files.             *)
LEMMA CountIsNat ==
  ASSUME NEW c, NEW mk
  PROVE  ReviewedCount(c, mk) \in Nat
<1>1. IsFiniteSet({f \in Files(c) : mk[f] = c[f]})
  BY EngineAssumption, FS_Subset DEF Files
<1>2. QED  BY <1>1, FS_CardinalityType DEF ReviewedCount

LEMMA TipUpdate ==
  ASSUME NEW t \in [Repo -> [Branch -> Content]],
         NEW r \in Repo, NEW b \in Branch, NEW c \in Content
  PROVE  [t EXCEPT ![r][b] = c] \in [Repo -> [Branch -> Content]]
<1>1. [t[r] EXCEPT ![b] = c] \in [Branch -> Content]
  OBVIOUS
<1>2. QED  BY <1>1

LEMMA MarksUpdate ==
  ASSUME NEW mk \in [Worktree -> Marks],
         NEW w \in Worktree, NEW f \in File, NEW h \in Hash \cup {None}
  PROVE  [mk EXCEPT ![w][f] = h] \in [Worktree -> Marks]
<1>1. [mk[w] EXCEPT ![f] = h] \in Marks
  BY DEF Marks
<1>2. QED  BY <1>1

LEMMA InitTInv == Init => TInv
<1>1. SUFFICES ASSUME Init PROVE TInv
  OBVIOUS
<1>2. Empty \in Content /\ NoFrame \in Frame /\ NoReview \in Review
  BY DEF Empty, Content, NoFrame, Frame, Phases, NoReview, Review
<1>3. TypeOK
  <2>1. work \in [Worktree -> Content]
    BY <1>1, EngineAssumption DEF Init, GitInit, Content
  <2>2. tip \in [Repo -> [Branch -> Content]]
    BY <1>1, <1>2 DEF Init, GitInit
  <2>3. marks \in [Worktree -> Marks]
    BY <1>1, EngineAssumption DEF Init, Marks
  <2>4. /\ vetted \in SUBSET (Worktree \X File \X Hash)
        /\ standing \in SUBSET (Worktree \X File)
        /\ alerted \in SUBSET (Worktree \X File)
    BY <1>1 DEF Init, HitsNow
  <2>5. QED
    BY <1>1, <1>2, <2>1, <2>2, <2>3, <2>4 DEF Init, GitInit, TypeOK
<1>4. ScanShape /\ ReqShape /\ RevShape
  BY <1>1, EngineAssumption
     DEF Init, ScanShape, ReqShape, RevShape, NoFrame, NoReview, Targeted,
         Refreshing, Gates, Phases
<1>5. QED  BY <1>3, <1>4 DEF TInv

LEMMA AgentTInv == TInv /\ Agent => TInv'
<1> SUFFICES ASSUME TInv, Agent PROVE TInv'
  OBVIOUS
<1> USE EngineAssumption
<1>1. GitMoves /\ live' \in SUBSET Worktree /\ branch' \in [Worktree -> Branch]
      /\ work' \in [Worktree -> Content]
      /\ tip' \in [Repo -> [Branch -> Content]]
  <2>1. ASSUME NEW w \in Editable, NEW f \in File, NEW h \in EditTo,
               AgentEdit(w, f, h)
        PROVE  <1>1!:
    BY <2>1 DEF AgentEdit, TInv, TypeOK, Content
  <2>2. ASSUME NEW w \in Editable, AgentCommit(w)
        PROVE  <1>1!:
    <3>1. w \in Worktree /\ RepoOf[w] \in Repo /\ branch[w] \in Branch
          /\ work[w] \in Content /\ Empty \in Content
      BY DEF TInv, TypeOK, Content, Empty
    <3>2. tip' \in [Repo -> [Branch -> Content]]
      <4>1. CASE branch[w] = Base
        BY <2>2, <4>1 DEF AgentCommit, TInv, TypeOK
      <4>2. CASE branch[w] # Base
        <5>1. tip' = [tip EXCEPT ![RepoOf[w]][branch[w]] = work[w]]
          BY <2>2, <4>2 DEF AgentCommit
        <5>2. tip \in [Repo -> [Branch -> Content]]
          BY DEF TInv, TypeOK
        <5>3. QED  BY <3>1, <5>1, <5>2, TipUpdate
      <4>3. QED  BY <4>1, <4>2
    <3>3. work' \in [Worktree -> Content]
      BY <2>2, <3>1 DEF AgentCommit, TInv, TypeOK
    <3>4. QED  BY <2>2, <3>2, <3>3 DEF AgentCommit, TInv, TypeOK
  <2>3. ASSUME NEW w \in Editable, DropWorktree(w)
        PROVE  <1>1!:
    BY <2>3 DEF DropWorktree, TInv, TypeOK, Content, Empty
  <2>4. ASSUME NEW w \in Worktree, NEW b \in Branch, Checkout(w, b)
        PROVE  <1>1!:
    BY <2>4 DEF Checkout, TInv, TypeOK
  <2>5. ASSUME NEW w \in Worktree, NEW b \in Branch, AddWorktree(w, b)
        PROVE  <1>1!:
    BY <2>5 DEF AddWorktree, TInv, TypeOK
  <2>6. QED  BY <2>1, <2>2, <2>3, <2>4, <2>5 DEF Agent
<1>2. TypeOK'
  BY <1>1 DEF GitMoves, memory, TInv, TypeOK, Approving
<1>3. ScanShape' /\ ReqShape' /\ RevShape'
  BY <1>1 DEF GitMoves, memory, TInv, ScanShape, ReqShape, RevShape
<1>4. QED  BY <1>2, <1>3 DEF TInv

LEMMA UserTInv == TInv /\ User => TInv'
<1> SUFFICES ASSUME TInv, User PROVE TInv'
  OBVIOUS
<1> USE EngineAssumption
<1>1. ASSUME NEW p \in Caller, NEW op \in Ops, NEW w \in Worktree \cup {None},
             op # "full" => w \in Worktree, Call(p, op, w)
      PROVE  TInv'
  <2>1. [op |-> op, wt |-> w] \in Request \cup {None}
    BY <1>1 DEF Request
  <2>2. TypeOK'
    BY <1>1, <2>1 DEF Call, git, history, TInv, TypeOK
  <2>3. [op |-> op, wt |-> w] # None
    BY <1>1, NoneAssumption DEF Request
  <2>4. ScanShape'
    BY <1>1, <2>3 DEF Call, git, history, TInv, TypeOK, ScanShape
  <2>5. ReqShape' /\ RevShape'
    BY <1>1 DEF Call, TInv, TypeOK, ReqShape, RevShape
  <2>6. QED  BY <2>2, <2>4, <2>5 DEF TInv
<1>2. ASSUME NEW p \in Caller, CallRefresh(p)
      PROVE  TInv'
  BY <1>1, <1>2 DEF CallRefresh, Ops
<1>3. ASSUME NEW p \in Caller, NEW w \in Worktree, CallRefreshOne(p, w)
      PROVE  TInv'
  BY <1>1, <1>3 DEF CallRefreshOne, Ops
<1>4. ASSUME NEW p \in Caller, NEW w \in Worktree, CallApprove(p, w)
      PROVE  TInv'
  BY <1>1, <1>4 DEF CallApprove, Ops
<1>5. ASSUME NEW r \in Reviewer, NEW w \in Worktree, NEW f \in File,
             View(r, w, f)
      PROVE  TInv'
  <2> DEFINE v == [NoReview EXCEPT !.pc = "view", !.wt = w, !.file = f,
                                   !.seen = cache[w].diff[f]]
  <2>1. cache[w].diff[f] \in Hash
    BY <1>5 DEF View, Listed, Files, TInv, TypeOK, Meta, Content
  <2>2. v \in Review /\ v.pc = "view" /\ v.wt = w /\ v.file = f
        /\ v.seen \in Hash
    BY <2>1 DEF NoReview, Review, Empty, Content
  <2>3. rev' = [rev EXCEPT ![r] = v]
    BY <1>5 DEF View
  <2> HIDE DEF v
  <2>4. TypeOK'
    BY <1>5, <2>2, <2>3 DEF View, git, history, TInv, TypeOK
  <2>5. RevShape'
    BY <2>2, <2>3 DEF TInv, TypeOK, RevShape
  <2>6. ScanShape' /\ ReqShape'
    BY <1>5 DEF View, TInv, ScanShape, ReqShape
  <2>7. QED  BY <2>4, <2>5, <2>6 DEF TInv
<1>6. ASSUME NEW r \in Reviewer, NEW on \in BOOLEAN, NEW withHash \in BOOLEAN,
             Post(r, on, withHash)
      PROVE  TInv'
  <2> DEFINE v == [rev[r] EXCEPT !.pc = "store", !.on = on,
                                 !.m = cache[rev[r].wt].diff]
  <2>1. /\ rev[r] \in Review
        /\ rev[r].wt \in Worktree /\ rev[r].file \in File
        /\ rev[r].seen \in Hash
        /\ cache[rev[r].wt].diff \in Content
        /\ cache[rev[r].wt].diff[rev[r].file] \in Hash
    BY <1>6 DEF Post, Valid, Listed, Files, TInv, TypeOK, RevShape, Meta,
                Content
  <2>2. v \in Review /\ v.pc = "store" /\ v.wt = rev[r].wt
        /\ v.file = rev[r].file /\ v.seen = rev[r].seen
        /\ v.m = cache[rev[r].wt].diff
    BY <2>1 DEF Review
  <2>3. rev' = [rev EXCEPT ![r] = v]
    BY <1>6 DEF Post
  <2> HIDE DEF v
  <2>4. vetted' \in SUBSET (Worktree \X File \X Hash)
    BY <1>6, <2>1 DEF Post, TInv, TypeOK
  <2>5. TypeOK'
    BY <1>6, <2>2, <2>3, <2>4 DEF Post, git, TInv, TypeOK
  <2>6. RevShape'
    BY <2>1, <2>2, <2>3 DEF TInv, TypeOK, RevShape
  <2>7. ScanShape' /\ ReqShape'
    BY <1>6 DEF Post, TInv, ScanShape, ReqShape
  <2>8. QED  BY <2>5, <2>6, <2>7 DEF TInv
<1>7. ASSUME NEW r \in Reviewer, PostFails(r)
      PROVE  TInv'
  <2>1. NoReview \in Review /\ NoReview.pc = "idle"
    BY DEF NoReview, Review, Empty, Content
  <2>2. TypeOK'
    BY <1>7, <2>1 DEF PostFails, git, history, TInv, TypeOK
  <2>3. RevShape'
    BY <1>7, <2>1 DEF PostFails, TInv, TypeOK, RevShape
  <2>4. ScanShape' /\ ReqShape'
    BY <1>7 DEF PostFails, TInv, ScanShape, ReqShape
  <2>5. QED  BY <2>2, <2>3, <2>4 DEF TInv
<1>8. QED
  BY <1>2, <1>3, <1>4, <1>5, <1>6, <1>7 DEF User

LEMMA ReleaseTInv ==
  ASSUME TInv, owner # None, Release, live' \in SUBSET Worktree,
         UNCHANGED <<git, rev, vetted, landed, standing, alerted>>,
         cache' \in [Worktree -> Meta \cup {None}],
         reg' \in [Worktree -> Row \cup {None}],
         firstScanDone' \in BOOLEAN, UNCHANGED marks
  PROVE  TInv'
<1>1. NoFrame \in Frame /\ NoFrame.phase = "free"
  BY EngineAssumption DEF NoFrame, Frame, Phases, Empty, Content
<1>2. TypeOK'
  BY <1>1 DEF Release, Return, git, TInv, TypeOK
<1>3. ScanShape'
  BY <1>1 DEF Release, Return, TInv, TypeOK, ScanShape, Targeted, Refreshing,
              Gates, NoFrame
<1>4. ReqShape' /\ RevShape'
  BY DEF Release, Return, TInv, TypeOK, ReqShape, RevShape
<1>5. QED  BY <1>2, <1>3, <1>4 DEF TInv

LEMMA AcquireTInv ==
  ASSUME TInv, NEW p \in Caller, Acquire(p)
  PROVE  TInv'
<1> USE EngineAssumption
<1>1. scan = NoFrame /\ req[p] \in Request /\ p # None
  BY DEF Acquire, TInv, TypeOK, ScanShape
<1>2. CASE req[p].op = "full"
  <2>1. scan' = [NoFrame EXCEPT !.phase = "discover"] /\ owner' = p
        /\ UNCHANGED req
    BY <1>1, <1>2 DEF Acquire, Goto
  <2>2. scan' \in Frame
    BY <2>1 DEF NoFrame, Frame, Phases, Empty, Content
  <2>3. TypeOK'
    BY <2>1, <2>2 DEF Acquire, git, history, TInv, TypeOK
  <2>4. ScanShape'
    BY <1>1, <1>2, <2>1 DEF Acquire, NoFrame, ScanShape, Targeted, Refreshing,
                            Gates
  <2>5. ReqShape' /\ RevShape'
    BY <2>1 DEF Acquire, TInv, ReqShape, RevShape
  <2>6. QED  BY <2>3, <2>4, <2>5 DEF TInv
<1>3. CASE /\ req[p].op # "full" /\ cache[req[p].wt] # None
           /\ scan' = [NoFrame EXCEPT !.phase = "branch", !.target = req[p].wt]
           /\ owner' = p /\ UNCHANGED req
  <2>1. scan' = [NoFrame EXCEPT !.phase = "branch", !.target = req[p].wt]
        /\ owner' = p /\ UNCHANGED req
    BY <1>3
  <2>2. req[p].wt \in Worktree
    BY <1>1, <1>3 DEF Acquire, TInv, ReqShape
  <2>3. scan' \in Frame
    BY <2>1, <2>2 DEF NoFrame, Frame, Phases, Empty, Content
  <2>4. TypeOK'
    BY <2>1, <2>3 DEF Acquire, git, history, TInv, TypeOK
  <2>5. ScanShape'
    BY <1>1, <1>3, <2>1, <2>2 DEF Acquire, NoFrame, ScanShape, Targeted,
                                  Refreshing, Gates
  <2>6. ReqShape' /\ RevShape'
    BY <2>1 DEF Acquire, TInv, ReqShape, RevShape
  <2>7. QED  BY <2>4, <2>5, <2>6 DEF TInv
<1>4. CASE req' = [req EXCEPT ![p] = None] /\ UNCHANGED <<owner, scan>>
  <2>1. req' = [req EXCEPT ![p] = None] /\ UNCHANGED <<owner, scan>>
    BY <1>4
  <2>2. TypeOK'
    BY <2>1 DEF Acquire, git, history, TInv, TypeOK
  <2>3. ScanShape'
    BY <1>1, <2>1 DEF Acquire, TInv, ScanShape, NoFrame, Targeted, Refreshing,
                      Gates
  <2>4. ReqShape' /\ RevShape'
    BY <2>1 DEF Acquire, TInv, TypeOK, ReqShape, RevShape
  <2>5. QED  BY <2>2, <2>3, <2>4 DEF TInv
<1>5. QED  BY <1>1, <1>2, <1>3, <1>4 DEF Acquire, Return

LEMMA ReviewTInv ==
  ASSUME TInv, NEW r \in Reviewer, ReviewStep(r)
  PROVE  TInv'
<1> USE EngineAssumption
<1>1. NoReview \in Review /\ NoReview.pc = "idle"
  BY DEF NoReview, Review, Empty, Content
<1>2. rev[r] \in Review
  BY DEF TInv, TypeOK
<1>3. CASE StoreMark(r)
  <2>1. /\ rev[r].pc = "store"
        /\ rev[r].wt \in Worktree /\ rev[r].file \in File
        /\ rev[r].seen \in Hash /\ rev[r].m[rev[r].file] \in Hash
    BY <1>3 DEF StoreMark, TInv, RevShape
  <2> DEFINE h == IF rev[r].on THEN rev[r].m[rev[r].file] ELSE None
             v == [rev[r] EXCEPT !.pc = "get"]
  <2>2. marks' \in [Worktree -> Marks]
    <3>1. h \in Hash \cup {None} /\ marks \in [Worktree -> Marks]
      BY <2>1 DEF TInv, TypeOK
    <3>2. marks' = [marks EXCEPT ![rev[r].wt][rev[r].file] = h] \/ marks' = marks
      BY <1>3 DEF StoreMark
    <3> HIDE DEF h
    <3>3. QED  BY <2>1, <3>1, <3>2, MarksUpdate
  <2>3. v \in Review /\ v.pc = "get" /\ v.wt = rev[r].wt
        /\ v.file = rev[r].file /\ v.seen = rev[r].seen
    BY <1>2 DEF Review
  <2>4. PICK n \in {NoReview, v} : rev' = [rev EXCEPT ![r] = n]
    BY <1>3 DEF StoreMark
  <2> HIDE DEF v
  <2>5. n \in Review
    BY <1>1, <2>3, <2>4
  <2>6. TypeOK'
    BY <1>3, <2>2, <2>4, <2>5 DEF StoreMark, git, history, TInv, TypeOK
  <2>7. RevShape'
    BY <1>1, <2>1, <2>3, <2>4 DEF TInv, TypeOK, RevShape
  <2>8. ScanShape' /\ ReqShape'
    BY <1>3 DEF StoreMark, TInv, ScanShape, ReqShape
  <2>9. QED  BY <2>6, <2>7, <2>8 DEF TInv
<1>4. CASE GetRow(r)
  <2>0. PICK mk \in ReadMarks(rev[r].wt) :
          rev' = [rev EXCEPT ![r] =
            IF reg[rev[r].wt] = None THEN NoReview
            ELSE [rev[r] EXCEPT !.pc = "put",
                    !.row = [reg[rev[r].wt] EXCEPT
                               !.reviewed = ReviewedCount(rev[r].m, mk)]]]
    BY <1>4 DEF GetRow
  <2> DEFINE row == [reg[rev[r].wt] EXCEPT
                       !.reviewed = ReviewedCount(rev[r].m, mk)]
             v == [rev[r] EXCEPT !.pc = "put", !.row = row]
  <2>1. CASE reg[rev[r].wt] = None
    <3>1. rev' = [rev EXCEPT ![r] = NoReview]
      BY <2>0, <2>1
    <3>2. TypeOK'
      BY <1>1, <1>4, <3>1 DEF GetRow, git, history, TInv, TypeOK
    <3>3. RevShape'
      BY <1>1, <3>1 DEF TInv, TypeOK, RevShape
    <3>4. ScanShape' /\ ReqShape'
      BY <1>4 DEF GetRow, TInv, ScanShape, ReqShape
    <3>5. QED  BY <3>2, <3>3, <3>4 DEF TInv
  <2>2. CASE reg[rev[r].wt] # None
    <3>1. rev[r].pc = "get" /\ rev[r].wt \in Worktree /\ rev[r].file \in File
          /\ rev[r].seen \in Hash
      BY <1>4 DEF GetRow, TInv, RevShape
    <3>2. reg[rev[r].wt] \in Row
      BY <2>2, <3>1 DEF TInv, TypeOK
    <3>3. row \in Row
      BY <3>2, CountIsNat DEF Row
    <3>4. rev' = [rev EXCEPT ![r] = v]
      BY <2>0, <2>2
    <3> HIDE DEF row
    <3>5. v \in Review /\ v.pc = "put" /\ v.wt = rev[r].wt
          /\ v.file = rev[r].file /\ v.seen = rev[r].seen /\ v.row = row
      BY <1>2, <3>3 DEF Review
    <3> HIDE DEF v
    <3>6. TypeOK'
      BY <1>4, <3>4, <3>5 DEF GetRow, git, history, TInv, TypeOK
    <3>7. RevShape'
      BY <3>1, <3>3, <3>4, <3>5 DEF TInv, TypeOK, RevShape
    <3>8. ScanShape' /\ ReqShape'
      BY <1>4 DEF GetRow, TInv, ScanShape, ReqShape
    <3>9. QED  BY <3>6, <3>7, <3>8 DEF TInv
  <2>3. QED  BY <2>1, <2>2
<1>5. CASE PutRow(r)
  <2>1. rev[r].wt \in Worktree /\ rev[r].row \in Row
    BY <1>5 DEF PutRow, TInv, RevShape
  <2>2. rev' = [rev EXCEPT ![r] = NoReview]
    BY <1>5 DEF PutRow
  <2>3. TypeOK'
    BY <1>1, <1>5, <2>1, <2>2 DEF PutRow, git, history, TInv, TypeOK
  <2>4. RevShape'
    BY <1>1, <2>2 DEF TInv, TypeOK, RevShape
  <2>5. ScanShape' /\ ReqShape'
    BY <1>5 DEF PutRow, TInv, ScanShape, ReqShape
  <2>6. QED  BY <2>3, <2>4, <2>5 DEF TInv
<1>6. QED  BY <1>3, <1>4, <1>5 DEF ReviewStep

LEMMA RestartTInv == TInv /\ Restart => TInv'
<1>1. SUFFICES ASSUME TInv, Restart PROVE TInv'
  OBVIOUS
<1>2. NoFrame \in Frame /\ NoFrame.phase = "free"
      /\ NoReview \in Review /\ NoReview.pc = "idle"
  BY DEF NoFrame, Frame, Phases, NoReview, Review, Empty, Content
<1>3. standing' \in SUBSET (Worktree \X File)
  BY <1>1 DEF Restart, HitsNow
<1>4. TypeOK'
  BY <1>1, <1>2, <1>3 DEF Restart, git, TInv, TypeOK
<1>5. ScanShape' /\ ReqShape' /\ RevShape'
  BY <1>1, <1>2 DEF Restart, ScanShape, ReqShape, RevShape, NoFrame, Targeted,
                    Refreshing, Gates
<1>6. QED  BY <1>4, <1>5 DEF TInv

(* A step of the holder that changes only its own locals, to a frame that  *)
(* fits the control state.                                                 *)
LEMMA ScanStepTInv ==
  ASSUME TInv, ScanShape', scan' \in Frame,
         UNCHANGED <<git, cache, reg, firstScanDone, owner, req, rev, marks,
                     history>>
  PROVE  TInv'
BY DEF TInv, TypeOK, git, history, ReqShape, RevShape

LEMMA ListingTInv ==
  ASSUME TInv,
         Discover \/ (\E r \in Repo : ListRepo(r) \/ ListFails(r)) \/ NextRef
  PROVE  TInv'
<1> USE EngineAssumption
<1>1. owner # None /\ req[owner] # None /\ scan \in Frame
      /\ req[owner].op = "full"
  BY DEF Discover, ListRepo, ListFails, NextRef, At, TInv, TypeOK, ScanShape
<1>2. CASE Discover
  <2>1. scan' = [scan EXCEPT !.phase = "list", !.repos = Repo]
    BY <1>2 DEF Discover
  <2>2. scan' \in Frame
    BY <1>1, <2>1 DEF Frame, Phases
  <2>3. ScanShape'
    <3>1. scan.phase = "discover" /\ scan'.phase = "list"
          /\ scan'.diff = scan.diff
      BY <1>1, <1>2, <2>1 DEF Discover, At, Frame
    <3>2. QED
      BY <1>1, <1>2, <3>1 DEF Discover, TInv, ScanShape, Targeted, Refreshing,
                              Gates
  <2>4. QED  BY <1>2, <2>2, <2>3, ScanStepTInv DEF Discover
<1>3. ASSUME NEW r \in Repo, ListRepo(r)
      PROVE  TInv'
  <2> DEFINE here == {w \in live : RepoOf[w] = r}
             refs == {<<w, branch[w]>> : w \in here}
  <2>1. here \subseteq Worktree
    BY DEF TInv, TypeOK
  <2>2. refs \subseteq Worktree \X Branch
    BY <2>1 DEF TInv, TypeOK
  <2>3. scan' = [scan EXCEPT !.repos = scan.repos \ {r}, !.todo = refs,
                             !.seen = scan.seen \cup here]
    BY <1>3 DEF ListRepo
  <2> HIDE DEF here, refs
  <2>4. scan' \in Frame
    BY <1>1, <2>1, <2>2, <2>3 DEF Frame
  <2>5. scan.phase = "list" /\ scan'.phase = "list" /\ scan'.diff = scan.diff
    BY <1>1, <1>3, <2>3 DEF ListRepo, At, Frame
  <2>6. ScanShape'
    BY <1>1, <1>3, <2>5 DEF ListRepo, TInv, ScanShape, Targeted, Refreshing, Gates
  <2>7. QED  BY <1>3, <2>4, <2>6, ScanStepTInv DEF ListRepo
<1>4. ASSUME NEW r \in Repo, ListFails(r)
      PROVE  TInv'
  <2>1. scan' = [scan EXCEPT !.repos = scan.repos \ {r}]
    BY <1>4 DEF ListFails
  <2>2. scan' \in Frame /\ scan.phase = "list" /\ scan'.phase = "list"
        /\ scan'.diff = scan.diff
    BY <1>1, <1>4, <2>1 DEF ListFails, At, Frame
  <2>3. ScanShape'
    BY <1>1, <1>4, <2>2 DEF ListFails, TInv, ScanShape, Targeted, Refreshing, Gates
  <2>4. QED  BY <1>4, <2>2, <2>3, ScanStepTInv DEF ListFails
<1>5. CASE NextRef
  <2>1. PICK ref \in scan.todo :
          scan' = [scan EXCEPT !.phase = "diff", !.todo = scan.todo \ {ref},
                               !.target = ref[1], !.branch = ref[2]]
    BY <1>5 DEF NextRef
  <2>2. ref[1] \in Worktree /\ ref[2] \in Branch
    BY <1>1, <2>1 DEF Frame
  <2>3. scan' \in Frame
    BY <1>1, <2>1, <2>2 DEF Frame, Phases
  <2>4. scan'.phase = "diff" /\ scan'.target \in Worktree
        /\ scan'.branch \in Branch /\ scan'.diff = scan.diff
    BY <1>1, <2>1, <2>2 DEF Frame
  <2>5. scan.diff = Empty
    BY <1>5 DEF NextRef, At, TInv, ScanShape
  <2>6. ScanShape'
    BY <1>1, <1>5, <2>4, <2>5 DEF NextRef, ScanShape, Targeted, Refreshing,
                                  Gates
  <2>7. QED  BY <1>5, <2>3, <2>6, ScanStepTInv DEF NextRef
<1>6. QED  BY <1>2, <1>3, <1>4, <1>5

LEMMA ReadingTInv ==
  ASSUME TInv, ReadBranch \/ ReadDiff \/ ReadDiffFails
  PROVE  TInv'
<1> USE EngineAssumption
<1>1. /\ owner # None /\ req[owner] # None /\ scan \in Frame
      /\ scan.target \in Worktree
  BY DEF ReadBranch, ReadDiff, ReadDiffFails, At, TInv, TypeOK, ScanShape,
         Targeted, Phases
<1>2. CASE ReadBranch
  <2>1. PICK b \in Branch : scan' = [scan EXCEPT !.phase = "diff", !.branch = b]
    <3>1. branch[scan.target] \in Branch
      BY <1>1 DEF TInv, TypeOK
    <3>2. cache[scan.target].branch \in Branch
      BY <1>1, <1>2 DEF ReadBranch, At, TInv, TypeOK, ScanShape, Meta
    <3>3. QED  BY <1>2, <3>1, <3>2 DEF ReadBranch
  <2>2. scan' \in Frame
    BY <1>1, <2>1 DEF Frame, Phases
  <2>3. scan'.phase = "diff" /\ scan'.target \in Worktree
        /\ scan'.branch \in Branch /\ scan'.diff = scan.diff
    BY <1>1, <2>1 DEF Frame
  <2>4. scan.diff = Empty
    BY <1>2 DEF ReadBranch, At, TInv, ScanShape
  <2>5. ScanShape'
    BY <1>1, <1>2, <2>3, <2>4 DEF ReadBranch, ScanShape, Targeted, Refreshing,
                                  Gates
  <2>6. QED  BY <1>2, <2>2, <2>5, ScanStepTInv DEF ReadBranch
<1>3. CASE ReadDiff \/ ReadDiffFails
  <2>1. PICK c \in Content : scan' = [scan EXCEPT !.phase = "cache", !.diff = c]
    <3>1. work[scan.target] \in Content /\ Empty \in Content
          /\ Uncommitted(scan.target) \in Content
      BY <1>1 DEF TInv, TypeOK, Content, Empty, Uncommitted
    <3>2. CASE ReadDiff
      BY <3>1, <3>2 DEF ReadDiff
    <3>3. CASE ReadDiffFails /\ scan' = [scan EXCEPT !.phase = "cache"]
      <4>1. scan' = [scan EXCEPT !.phase = "cache", !.diff = scan.diff]
        BY <1>1, <3>3 DEF Frame
      <4>2. QED  BY <1>1, <4>1 DEF Frame
    <3>4. CASE ReadDiffFails /\ scan' # [scan EXCEPT !.phase = "cache"]
      BY <3>1, <3>4 DEF ReadDiffFails
    <3>5. QED  BY <1>3, <3>2, <3>3, <3>4
  <2>2. scan' \in Frame
    BY <1>1, <2>1 DEF Frame, Phases
  <2>3. scan'.phase = "cache" /\ scan'.target = scan.target
        /\ scan'.branch = scan.branch
    BY <1>1, <2>1 DEF Frame
  <2>4. scan.branch \in Branch
    BY <1>3 DEF ReadDiff, ReadDiffFails, At, TInv, ScanShape, Refreshing
  <2>5. UNCHANGED <<git, cache, reg, firstScanDone, owner, req, rev, marks,
                    history>>
    BY <1>3 DEF ReadDiff, ReadDiffFails
  <2>6. ScanShape'
    BY <1>1, <2>3, <2>4, <2>5 DEF ScanShape, Targeted, Refreshing, Gates
  <2>7. QED  BY <2>2, <2>5, <2>6, ScanStepTInv
<1>4. QED  BY <1>2, <1>3

LEMMA RowIsRow ==
  ASSUME NEW c \in Content, NEW b \in Branch, NEW mk, NEW dirty \in BOOLEAN
  PROVE  [diff |-> c, branch |-> b, reviewed |-> ReviewedCount(c, mk),
          state |-> StateOf(c, dirty)] \in Row
BY CountIsNat DEF Row, StateOf

LEMMA KeptIsMarks ==
  ASSUME NEW mk \in Marks, NEW c
  PROVE  Kept(mk, c) \in Marks
BY DEF Marks, Kept

LEMMA WritingTInv ==
  ASSUME TInv, WriteCache \/ PrunePublish \/ Build
  PROVE  TInv'
<1> USE EngineAssumption, NoneAssumption
<1>1. /\ owner # None /\ req[owner] # None /\ scan \in Frame
      /\ scan.target \in Worktree /\ scan.branch \in Branch
      /\ scan.diff \in Content
  BY DEF WriteCache, PrunePublish, Build, At, TInv, TypeOK, ScanShape,
         Targeted, Phases, Refreshing, Frame
<1>2. CASE WriteCache
  <2> DEFINE m == [diff |-> scan.diff, branch |-> scan.branch]
  <2>1. m \in Meta /\ m # None
    BY <1>1 DEF Meta
  <2>2. cache' = [cache EXCEPT ![scan.target] = m]
    BY <1>2 DEF WriteCache
  <2> HIDE DEF m
  <2>3. PICK fr \in SUBSET File :
          scan' = [scan EXCEPT !.phase = "prune", !.fresh = fr]
    BY <1>2 DEF WriteCache, Hits
  <2>4. scan' \in Frame
    BY <1>1, <2>3 DEF Frame, Phases
  <2>5. scan'.phase = "prune" /\ scan'.target = scan.target
        /\ scan'.branch = scan.branch
    BY <1>1, <2>3 DEF Frame
  <2>10. cache' \in [Worktree -> Meta \cup {None}]
    BY <2>1, <2>2 DEF TInv, TypeOK
  <2>11. UNCHANGED <<git, reg, firstScanDone, owner, req, rev, marks, history>>
    BY <1>2 DEF WriteCache
  <2>6. TypeOK'
    BY <2>4, <2>10, <2>11 DEF git, history, TInv, TypeOK
  <2>7. cache'[scan.target] # None
    BY <1>1, <2>1, <2>2 DEF TInv, TypeOK
  <2>8. ScanShape'
    BY <1>1, <1>2, <2>5, <2>7 DEF WriteCache, ScanShape, Targeted, Refreshing,
                                  Gates
  <2>9. QED  BY <1>2, <2>6, <2>8 DEF WriteCache, TInv, ReqShape, RevShape
<1>3. CASE PrunePublish
  <2>1. scan' = [scan EXCEPT !.phase = "build"]
    BY <1>3 DEF PrunePublish, Goto
  <2>2. scan' \in Frame /\ scan.phase = "prune" /\ scan'.phase = "build"
        /\ scan'.target = scan.target /\ scan'.branch = scan.branch
    BY <1>1, <1>3, <2>1 DEF PrunePublish, At, Frame, Phases
  <2>3. \/ marks' = [marks EXCEPT ![scan.target] =
                       Kept(marks[scan.target], scan.diff)]
        \/ marks' = marks
    BY <1>3 DEF PrunePublish
  <2>4. marks' \in [Worktree -> Marks]
    BY <1>1, <2>3, KeptIsMarks DEF TInv, TypeOK
  <2>5. alerted' \in SUBSET (Worktree \X File)
    BY <1>1, <1>3 DEF PrunePublish, TInv, TypeOK, Frame
  <2>6. TypeOK'
    BY <1>3, <2>2, <2>4, <2>5 DEF PrunePublish, git, TInv, TypeOK
  <2>7. ScanShape'
    BY <1>1, <1>3, <2>2 DEF PrunePublish, TInv, ScanShape, Targeted,
                            Refreshing, Gates
  <2>8. QED  BY <1>3, <2>6, <2>7 DEF PrunePublish, TInv, ReqShape, RevShape
<1>4. CASE Build
  <2>1. PICK dirty \in BOOLEAN, mk \in ReadMarks(scan.target) :
          scan' = [scan EXCEPT !.phase = "upsert",
            !.row = [diff |-> scan.diff, branch |-> scan.branch,
                     reviewed |-> ReviewedCount(scan.diff, mk),
                     state |-> StateOf(scan.diff, dirty)]]
    BY <1>4 DEF Build
  <2>2. PICK row \in Row :
          scan' = [scan EXCEPT !.phase = "upsert", !.row = row]
    BY <1>1, <2>1, RowIsRow
  <2>3. scan' \in Frame
    BY <1>1, <2>2 DEF Frame, Phases
  <2>4. scan.phase = "build" /\ scan'.phase = "upsert"
        /\ scan'.target = scan.target /\ scan'.branch = scan.branch
        /\ scan'.row = row
    BY <1>1, <1>4, <2>2 DEF Build, At, Frame
  <2>5. ScanShape'
    BY <1>1, <1>4, <2>2, <2>4 DEF Build, TInv, ScanShape, Targeted,
                                  Refreshing, Gates
  <2>6. QED  BY <1>4, <2>3, <2>5, ScanStepTInv DEF Build
<1>5. QED  BY <1>2, <1>3, <1>4

LEMMA UpsertTInv ==
  ASSUME TInv, Upsert
  PROVE  TInv'
<1> USE EngineAssumption, NoneAssumption
<1>1. /\ owner # None /\ req[owner] # None /\ scan \in Frame
      /\ scan.phase = "upsert"
      /\ scan.target \in Worktree /\ scan.row \in Row
      /\ cache[scan.target] # None
      /\ req[owner].op \in Ops
  BY DEF Upsert, At, TInv, TypeOK, ScanShape, Targeted, Phases, Request
<1>2. reg' \in [Worktree -> Row \cup {None}]
  BY <1>1 DEF Upsert, TInv, TypeOK
<1>3. CASE req[owner].op = "one"
  <2>1. Release
    BY <1>3 DEF Upsert
  <2>2. QED
    BY <1>1, <1>2, <2>1, ReleaseTInv DEF Upsert, git, TInv, TypeOK
<1>4. CASE req[owner].op = "full"
  <2>1. scan' = [NoFrame EXCEPT !.phase = "list", !.repos = scan.repos,
                                !.todo = scan.todo, !.seen = scan.seen]
        /\ UNCHANGED <<owner, req, torn>>
    BY <1>4 DEF Upsert
  <2>2. scan' \in Frame
    BY <1>1, <2>1 DEF NoFrame, Frame, Phases, Empty, Content
  <2>3. scan'.phase = "list" /\ scan'.diff = Empty
    BY <2>1 DEF NoFrame
  <2>4. TypeOK'
    BY <1>2, <2>1, <2>2 DEF Upsert, git, TInv, TypeOK
  <2>5. ScanShape'
    BY <1>1, <1>4, <2>1, <2>3 DEF ScanShape, Targeted, Refreshing, Gates
  <2>6. QED
    BY <2>1, <2>4, <2>5 DEF Upsert, TInv, ReqShape, RevShape
<1>5. CASE req[owner].op = "approve"
  <2>1. scan' = [NoFrame EXCEPT !.phase = "reviewed", !.target = scan.target]
        /\ UNCHANGED <<owner, req, torn>>
    BY <1>5 DEF Upsert
  <2>2. scan' \in Frame
    BY <1>1, <2>1 DEF NoFrame, Frame, Phases, Empty, Content
  <2>3. scan'.phase = "reviewed" /\ scan'.target = scan.target
    BY <2>1 DEF NoFrame
  <2>4. TypeOK'
    BY <1>2, <2>1, <2>2 DEF Upsert, git, TInv, TypeOK
  <2>5. ScanShape'
    BY <1>1, <1>5, <2>1, <2>3 DEF Upsert, ScanShape, Targeted, Refreshing,
                                  Gates
  <2>6. QED
    BY <2>1, <2>4, <2>5 DEF Upsert, TInv, ReqShape, RevShape
<1>6. QED  BY <1>1, <1>3, <1>4, <1>5 DEF Ops

LEMMA LeavingTInv ==
  ASSUME TInv, Sweep \/ Abandon \/ Refuse \/ Forget
  PROVE  TInv'
<1> USE EngineAssumption
<1>1. owner # None
  BY DEF Sweep, Abandon, Refuse, Forget, At
<1>2. cache' \in [Worktree -> Meta \cup {None}]
      /\ reg' \in [Worktree -> Row \cup {None}]
      /\ firstScanDone' \in BOOLEAN
  BY DEF Sweep, Abandon, Refuse, Forget, TInv, TypeOK
<1>3. Release /\ UNCHANGED <<git, rev, marks, vetted, landed, standing, alerted>>
      /\ live' \in SUBSET Worktree
  BY DEF Sweep, Abandon, Refuse, Forget, git, TInv, TypeOK
<1>4. QED  BY <1>1, <1>2, <1>3, ReleaseTInv

LEMMA RefreshTInv == TInv /\ RefreshStep => TInv'
BY ListingTInv, ReadingTInv, WritingTInv, UpsertTInv, LeavingTInv
   DEF RefreshStep

(* A gate of Approve that lets the call pass to the next one.              *)
LEMMA GateTInv ==
  ASSUME TInv, GateReviewed \/ GateClean \/ FindBase \/ ClearFails
  PROVE  TInv'
<1> USE EngineAssumption
<1>1. owner # None /\ scan \in Frame /\ scan.phase \in Gates
      /\ scan.target \in Worktree /\ live \in SUBSET Worktree
  BY DEF GateReviewed, GateClean, FindBase, ClearFails, At, TInv, TypeOK,
         ScanShape, Targeted, Phases, Gates
<1>2. UNCHANGED <<git, cache, reg, firstScanDone, owner, req, rev, marks,
                  history>>
  BY DEF GateReviewed, GateClean, FindBase, ClearFails
<1>3. PICK ph \in {"clean", "base", "merge", "forget"},
           v \in Worktree \cup {None} :
        /\ scan' = [scan EXCEPT !.phase = ph, !.into = v]
        /\ ph = "merge" => v \in Worktree
  <2>1. CASE FindBase
    BY <1>1, <2>1 DEF FindBase
  <2>2. CASE ~ FindBase
    <3>1. PICK ph \in {"clean", "base", "forget"} :
            scan' = [scan EXCEPT !.phase = ph]
      BY <2>2 DEF GateReviewed, GateClean, ClearFails, Goto
    <3>2. scan' = [scan EXCEPT !.phase = ph, !.into = scan.into]
          /\ scan.into \in Worktree \cup {None}
      BY <1>1, <3>1 DEF Frame
    <3>3. QED  BY <3>2
  <2>3. QED  BY <2>1, <2>2
<1>4. scan' \in Frame
  BY <1>1, <1>3 DEF Frame, Phases
<1>5. scan'.phase = ph /\ scan'.target = scan.target /\ scan'.into = v
  BY <1>1, <1>3 DEF Frame
<1>6. ScanShape'
  BY <1>1, <1>2, <1>3, <1>5 DEF TInv, ScanShape, Targeted, Refreshing, Gates
<1>7. QED  BY <1>2, <1>4, <1>6, ScanStepTInv

LEMMA MergedIsContent ==
  ASSUME NEW c \in Content, NEW d \in Content
  PROVE  Over(d, c) \in Content /\ Since(d, c) \in Content
BY DEF Over, Since, Content

LEMMA MergeTInv ==
  ASSUME TInv, Merge
  PROVE  TInv'
<1> USE EngineAssumption
<1> DEFINE w == scan.target
           r == RepoOf[w]
           b == cache[w].branch
           c == tip[r][b]
           t == branch[scan.into]
<1>1. /\ owner # None /\ scan \in Frame /\ scan.phase = "merge"
      /\ w \in Worktree /\ cache[w] \in Meta /\ scan.into \in Worktree
  BY DEF Merge, At, TInv, TypeOK, ScanShape, Targeted, Phases, Gates
<1>2. /\ r \in Repo /\ b \in Branch /\ t \in Branch /\ c \in Content
      /\ tip \in [Repo -> [Branch -> Content]]
      /\ work \in [Worktree -> Content]
      /\ Empty \in Content
  BY <1>1 DEF TInv, TypeOK, Meta, Empty, Content
<1>3. tip' \in [Repo -> [Branch -> Content]]
  <2>1. tip[r][t] \in Content
    BY <1>2
  <2>2. \/ tip' = [tip EXCEPT ![r][b] = Empty]
        \/ tip' = [tip EXCEPT ![r][t] = Over(tip[r][t], c)]
    BY <1>2 DEF Merge
  <2> HIDE DEF r, b, c, t
  <2>3. Over(tip[r][t], c) \in Content
    BY <1>2, <2>1, MergedIsContent
  <2>4. /\ [tip EXCEPT ![r][b] = Empty] \in [Repo -> [Branch -> Content]]
        /\ [tip EXCEPT ![r][t] = Over(tip[r][t], c)]
             \in [Repo -> [Branch -> Content]]
    <3> DEFINE o == Over(tip[r][t], c)
    <3>1. o \in Content
      BY <2>3
    <3> HIDE DEF o
    <3>2. [tip EXCEPT ![r][t] = o] \in [Repo -> [Branch -> Content]]
      BY <1>2, <3>1, TipUpdate
    <3>3. [tip EXCEPT ![r][b] = Empty] \in [Repo -> [Branch -> Content]]
      BY <1>2, TipUpdate
    <3>4. QED  BY <3>2, <3>3 DEF o
  <2>5. QED  BY <2>2, <2>4
<1>4. work' \in [Worktree -> Content]
  <2>1. CASE t = Base
    <3>1. work' = [v \in Worktree |->
                     IF v \in live /\ RepoOf[v] = r /\ branch[v] = b
                       THEN Since(work[v], c) ELSE work[v]]
      BY <2>1 DEF Merge
    <3> HIDE DEF r, b, c, t
    <3>2. QED  BY <1>2, <3>1, MergedIsContent
  <2>2. CASE t # Base
    <3>1. work' = [work EXCEPT ![scan.into] = Over(work[scan.into], c)]
      BY <2>2 DEF Merge
    <3> HIDE DEF r, b, c, t
    <3>2. QED  BY <1>1, <1>2, <3>1, MergedIsContent
  <2>3. QED  BY <2>1, <2>2
<1>5. landed' \in [wt : Worktree, content : Content, into : Branch,
                   torn : BOOLEAN]
  <2>1. landed' = [wt |-> w, content |-> c, into |-> t, torn |-> torn]
    BY DEF Merge
  <2>2. torn \in BOOLEAN
    BY DEF TInv, TypeOK
  <2> HIDE DEF r, b, c, t, w
  <2>3. QED  BY <1>1, <1>2, <2>1, <2>2
<1>6. standing' \in SUBSET (Worktree \X File)
  BY DEF Merge, TInv, TypeOK
<1>7. scan' = [scan EXCEPT !.phase = "remove"]
      /\ UNCHANGED <<live, branch, cache, reg, firstScanDone, owner, req, rev,
                     marks, vetted, torn, alerted>>
  BY DEF Merge, Goto
<1>8. scan' \in Frame /\ scan'.phase = "remove" /\ scan'.target = w
  BY <1>1, <1>7 DEF Frame, Phases
<1> HIDE DEF r, b, c, t
<1>9. TypeOK'
  BY <1>3, <1>4, <1>5, <1>6, <1>7, <1>8 DEF TInv, TypeOK
<1>10. ScanShape'
  BY <1>1, <1>7, <1>8 DEF TInv, ScanShape, Targeted, Refreshing, Gates
<1>11. QED  BY <1>7, <1>9, <1>10 DEF TInv, ReqShape, RevShape

LEMMA RemovingTInv ==
  ASSUME TInv, RemoveWorktree \/ ClearWorktree
  PROVE  TInv'
<1> USE EngineAssumption
<1>1. /\ owner # None /\ scan \in Frame /\ scan.phase \in {"remove", "clear"}
      /\ scan.target \in Worktree
  BY DEF RemoveWorktree, ClearWorktree, At, TInv, TypeOK, ScanShape, Targeted,
         Phases
<1>2. PICK ph \in {"clear", "forget"} : scan' = [scan EXCEPT !.phase = ph]
  BY DEF RemoveWorktree, ClearWorktree, Goto
<1>3. scan' \in Frame /\ scan'.phase = ph /\ scan'.target = scan.target
  BY <1>1, <1>2 DEF Frame, Phases
<1>4. UNCHANGED <<branch, tip, cache, reg, firstScanDone, owner, req, rev,
                  vetted, torn, landed, alerted>>
  BY DEF RemoveWorktree, ClearWorktree, git, history
<1>5. /\ live' \in SUBSET Worktree /\ work' \in [Worktree -> Content]
      /\ standing' \in SUBSET (Worktree \X File)
  <2>1. Empty \in Content
    BY DEF Empty, Content
  <2>2. CASE RemoveWorktree
    BY <1>1, <2>1, <2>2 DEF RemoveWorktree, TInv, TypeOK
  <2>3. CASE ClearWorktree
    BY <2>3 DEF ClearWorktree, git, history, TInv, TypeOK
  <2>4. QED  BY <2>2, <2>3
<1>6. marks' \in [Worktree -> Marks]
  <2>1. NoMarks \in Marks
    BY DEF NoMarks, Marks
  <2>2. CASE RemoveWorktree
    BY <2>2 DEF RemoveWorktree, TInv, TypeOK
  <2>3. CASE ClearWorktree
    BY <1>1, <2>1, <2>3 DEF ClearWorktree, TInv, TypeOK
  <2>4. QED  BY <2>2, <2>3
<1>7. TypeOK'
  BY <1>3, <1>4, <1>5, <1>6 DEF TInv, TypeOK
<1>8. ScanShape'
  BY <1>1, <1>3, <1>4 DEF TInv, ScanShape, Targeted, Refreshing, Gates
<1>9. QED  BY <1>4, <1>7, <1>8 DEF TInv, ReqShape, RevShape

LEMMA ApproveTInv == TInv /\ ApproveStep => TInv'
BY GateTInv, MergeTInv, RemovingTInv, LeavingTInv DEF ApproveStep

LEMMA NextTInv == TInv /\ [Next]_vars => TInv'
<1> SUFFICES ASSUME TInv, [Next]_vars PROVE TInv'
  OBVIOUS
<1>1. CASE UNCHANGED vars
  BY <1>1 DEF vars, git, memory, history, TInv, TypeOK, ScanShape, ReqShape,
              RevShape
<1>2. CASE Next
  BY <1>2, AgentTInv, UserTInv, AcquireTInv, RefreshTInv, ApproveTInv,
     ReviewTInv, RestartTInv DEF Next
<1>3. QED  BY <1>1, <1>2

(* Every variable keeps its type, and every step of a call finds the       *)
(* locals it relies on set by the steps before it: engine.go never         *)
(* dereferences a cache entry that is gone while refreshMu is held.        *)
THEOREM TypeCorrect == Spec => []TypeOK
<1>1. Spec => []TInv
  BY InitTInv, NextTInv, PTL DEF Spec
<1>2. TInv => TypeOK
  BY DEF TInv
<1>3. QED  BY <1>1, <1>2, PTL

-----------------------------------------------------------------------------
(***************************************************************************)
(* Marks stand for users' requests.                                        *)
(***************************************************************************)
MarkInv == MarksAreVetted /\ RevVetted

LEMMA VettedGrows == [Next]_vars => vetted \subseteq vetted'
<1> SUFFICES ASSUME [Next]_vars PROVE vetted \subseteq vetted'
  OBVIOUS
<1>1. CASE UNCHANGED vars
  BY <1>1 DEF vars, history
<1>2. CASE Agent
  BY <1>2 DEF Agent, AgentEdit, AgentCommit, Checkout, AddWorktree,
              DropWorktree, GitMoves
<1>3. CASE User
  BY <1>3 DEF User, CallRefresh, CallRefreshOne, CallApprove, Call, View, Post,
              PostFails, history
<1>4. CASE \E p \in Caller : Acquire(p)
  BY <1>4 DEF Acquire, history
<1>5. CASE RefreshStep
  BY <1>5 DEF RefreshStep, Discover, ListRepo, ListFails, NextRef, ReadBranch,
              ReadDiff, ReadDiffFails, WriteCache, PrunePublish, Build, Upsert,
              Sweep, Abandon, history
<1>6. CASE ApproveStep
  BY <1>6 DEF ApproveStep, GateReviewed, GateClean, FindBase, Merge,
              RemoveWorktree, ClearWorktree, ClearFails, Forget, Refuse, history
<1>7. CASE \E r \in Reviewer : ReviewStep(r)
  BY <1>7 DEF ReviewStep, StoreMark, GetRow, PutRow, history
<1>8. CASE Restart
  BY <1>8 DEF Restart
<1>9. QED  BY <1>1, <1>2, <1>3, <1>4, <1>5, <1>6, <1>7, <1>8 DEF Next

(* Steps that touch neither a mark nor a reviewer.                         *)
LEMMA MarksAlone ==
  ASSUME MarkInv, vetted \subseteq vetted', UNCHANGED <<marks, rev>>
  PROVE  MarkInv'
BY DEF MarkInv, MarksAreVetted, RevVetted

LEMMA InitMarkInv == Init => MarkInv
<1>1. SUFFICES ASSUME Init PROVE MarkInv
  OBVIOUS
<1>2. MarksAreVetted
  BY <1>1, EngineAssumption DEF Init, MarksAreVetted
<1>3. RevVetted
  BY <1>1 DEF Init, RevVetted, NoReview
<1>4. QED  BY <1>2, <1>3 DEF MarkInv

LEMMA UserMarkInv ==
  ASSUME TInv, MarkInv, User, vetted \subseteq vetted'
  PROVE  MarkInv'
<1>1. UNCHANGED marks
  BY DEF User, CallRefresh, CallRefreshOne, CallApprove, Call, View, Post,
         PostFails
<1>2. MarksAreVetted'
  BY <1>1 DEF MarkInv, MarksAreVetted
<1>3. RevVetted'
  <2>1. CASE UNCHANGED rev
    BY <2>1 DEF MarkInv, RevVetted
  <2>2. ASSUME NEW r \in Reviewer, NEW n,
               rev' = [rev EXCEPT ![r] = n], n.pc # "store"
        PROVE  RevVetted'
    BY <2>2 DEF MarkInv, RevVetted, TInv, TypeOK
  <2>3. ASSUME NEW r \in Reviewer, NEW w \in Worktree, NEW f \in File,
               View(r, w, f)
        PROVE  RevVetted'
    <3> DEFINE n == [NoReview EXCEPT !.pc = "view", !.wt = w, !.file = f,
                                     !.seen = cache[w].diff[f]]
    <3>1. n.pc = "view"
      BY DEF NoReview
    <3>2. rev' = [rev EXCEPT ![r] = n]
      BY <2>3 DEF View
    <3> HIDE DEF n
    <3>3. QED  BY <2>2, <3>1, <3>2
  <2>4. ASSUME NEW r \in Reviewer, PostFails(r)
        PROVE  RevVetted'
    <3>1. rev' = [rev EXCEPT ![r] = NoReview] /\ NoReview.pc # "store"
      BY <2>4 DEF PostFails, NoReview
    <3>2. QED  BY <2>2, <3>1
  <2>5. ASSUME NEW r \in Reviewer, NEW on \in BOOLEAN,
               NEW withHash \in BOOLEAN, Post(r, on, withHash)
        PROVE  RevVetted'
    <3> DEFINE v == rev[r]
               n == [v EXCEPT !.pc = "store", !.on = on,
                              !.m = cache[v.wt].diff]
    <3>1. v \in Review
      BY DEF TInv, TypeOK
    <3>2. n.on = on /\ n.m = cache[v.wt].diff /\ n.wt = v.wt
          /\ n.file = v.file
      BY <3>1 DEF Review
    <3>3. on => <<v.wt, v.file, cache[v.wt].diff[v.file]>> \in vetted'
      BY <2>5 DEF Post, Valid
    <3>4. rev' = [rev EXCEPT ![r] = n]
      BY <2>5 DEF Post
    <3> HIDE DEF n
    <3>5. QED  BY <3>2, <3>3, <3>4 DEF MarkInv, RevVetted, TInv, TypeOK
  <2>6. QED
    BY <2>1, <2>3, <2>4, <2>5
       DEF User, CallRefresh, CallRefreshOne, CallApprove, Call
<1>4. QED  BY <1>2, <1>3 DEF MarkInv

LEMMA ReviewMarkInv ==
  ASSUME TInv, MarkInv, NEW r \in Reviewer, ReviewStep(r)
  PROVE  MarkInv'
<1> DEFINE v == rev[r]
<1>1. v \in Review /\ marks \in [Worktree -> Marks] /\ vetted' = vetted
  BY DEF TInv, TypeOK, ReviewStep, StoreMark, GetRow, PutRow, history
<1>2. rev'[r].pc # "store"
      /\ \A s \in Reviewer \ {r} : rev'[s] = rev[s]
  <2>1. CASE StoreMark(r)
    BY <1>1, <2>1 DEF StoreMark, NoReview, Review, TInv, TypeOK
  <2>2. CASE GetRow(r)
    BY <1>1, <2>2 DEF GetRow, NoReview, Review, TInv, TypeOK
  <2>3. CASE PutRow(r)
    BY <2>3 DEF PutRow, NoReview, TInv, TypeOK
  <2>4. QED  BY <2>1, <2>2, <2>3 DEF ReviewStep
<1>3. RevVetted'
  BY <1>1, <1>2 DEF MarkInv, RevVetted, TInv, TypeOK
<1>4. MarksAreVetted'
  <2>1. CASE UNCHANGED marks
    BY <1>1, <2>1 DEF MarkInv, MarksAreVetted
  <2>2. CASE ~ UNCHANGED marks
    <3>1. /\ v.pc = "store"
          /\ marks' = [marks EXCEPT ![v.wt][v.file] =
                          IF v.on THEN v.m[v.file] ELSE None]
      BY <2>2 DEF ReviewStep, StoreMark, GetRow, PutRow
    <3>2. v.on => <<v.wt, v.file, v.m[v.file]>> \in vetted
      BY <3>1 DEF MarkInv, RevVetted
    <3>3. ASSUME NEW w \in Worktree, NEW f \in File, marks'[w][f] # None
          PROVE  <<w, f, marks'[w][f]>> \in vetted
      <4>1. CASE w = v.wt /\ f = v.file
        BY <1>1, <3>1, <3>2, <3>3, <4>1 DEF Marks
      <4>2. CASE ~ (w = v.wt /\ f = v.file)
        <5>1. marks'[w][f] = marks[w][f]
          BY <1>1, <3>1, <4>2 DEF Marks
        <5>2. QED  BY <3>3, <5>1 DEF MarkInv, MarksAreVetted
      <4>3. QED  BY <4>1, <4>2
    <3>4. QED  BY <1>1, <3>3 DEF MarksAreVetted
  <2>3. QED  BY <2>1, <2>2
<1>5. QED  BY <1>3, <1>4 DEF MarkInv

(* Refreshes and approves only ever drop marks.                            *)
LEMMA DroppingMarkInv ==
  ASSUME TInv, MarkInv, vetted \subseteq vetted', UNCHANGED rev,
         \A w \in Worktree, f \in File : marks'[w][f] \in {marks[w][f], None}
  PROVE  MarkInv'
BY DEF MarkInv, MarksAreVetted, RevVetted

LEMMA NextMarkInv == TInv /\ MarkInv /\ [Next]_vars => MarkInv'
<1> SUFFICES ASSUME TInv, MarkInv, [Next]_vars PROVE MarkInv'
  OBVIOUS
<1>0. vetted \subseteq vetted' /\ marks \in [Worktree -> Marks]
  BY VettedGrows DEF TInv, TypeOK
<1>1. CASE UNCHANGED vars
  BY <1>0, <1>1, MarksAlone DEF vars, memory
<1>2. CASE Agent
  BY <1>0, <1>2, MarksAlone
     DEF Agent, AgentEdit, AgentCommit, Checkout, AddWorktree, DropWorktree,
         GitMoves, memory
<1>3. CASE User
  BY <1>0, <1>3, UserMarkInv
<1>4. CASE \E p \in Caller : Acquire(p)
  BY <1>0, <1>4, MarksAlone DEF Acquire
<1>5. CASE RefreshStep
  <2>1. CASE PrunePublish
    <3>1. /\ \/ marks' = [marks EXCEPT ![scan.target] =
                            Kept(marks[scan.target], scan.diff)]
             \/ marks' = marks
          /\ UNCHANGED rev
      BY <2>1 DEF PrunePublish
    <3>2. QED  BY <1>0, <3>1, DroppingMarkInv DEF Marks, Kept
  <2>2. CASE ~ PrunePublish
    BY <1>0, <1>5, <2>2, MarksAlone
       DEF RefreshStep, Discover, ListRepo, ListFails, NextRef, ReadBranch,
           ReadDiff, ReadDiffFails, WriteCache, Build, Upsert, Sweep, Abandon
  <2>3. QED  BY <2>1, <2>2
<1>6. CASE ApproveStep
  <2>1. CASE ClearWorktree
    <3>1. marks' = [marks EXCEPT ![scan.target] = NoMarks] /\ UNCHANGED rev
      BY <2>1 DEF ClearWorktree
    <3>2. QED  BY <1>0, <3>1, DroppingMarkInv DEF Marks, NoMarks
  <2>2. CASE ~ ClearWorktree
    BY <1>0, <1>6, <2>2, MarksAlone
       DEF ApproveStep, GateReviewed, GateClean, FindBase, Merge,
           RemoveWorktree, ClearFails, Forget, Refuse
  <2>3. QED  BY <2>1, <2>2
<1>7. CASE \E r \in Reviewer : ReviewStep(r)
  BY <1>7, ReviewMarkInv
<1>8. CASE Restart
  BY <1>0, <1>8 DEF Restart, NoReview, MarkInv, MarksAreVetted, RevVetted
<1>9. QED  BY <1>1, <1>2, <1>3, <1>4, <1>5, <1>6, <1>7, <1>8 DEF Next

(* Every mark in the store is one a user asked for, of that very hash,     *)
(* through all interleavings of toggles with refreshes and restarts.       *)
THEOREM MarksSound == Spec => []MarksAreVetted
<1>1. Init => TInv /\ MarkInv
  BY InitTInv, InitMarkInv
<1>2. (TInv /\ MarkInv) /\ [Next]_vars => (TInv /\ MarkInv)'
  BY NextTInv, NextMarkInv
<1>3. MarkInv => MarksAreVetted
  BY DEF MarkInv
<1>4. QED  BY <1>1, <1>2, <1>3, PTL DEF Spec

-----------------------------------------------------------------------------
(***************************************************************************)
(* The review gate.                                                        *)
(***************************************************************************)
LandedInv == GateInv /\ MergesOnlyVetted

LEMMA InitLandedInv == Init => LandedInv
BY DEF Init, LandedInv, GateInv, StillApproving, Approving, MergesOnlyVetted

(* A merge that has landed stays vetted while users ask for more.          *)
LEMMA LandedAlone ==
  ASSUME MergesOnlyVetted, vetted \subseteq vetted', UNCHANGED landed
  PROVE  MergesOnlyVetted'
BY DEF MergesOnlyVetted, LandedVetted

(* Steps of other goroutines: all that GateInv speaks of stays.            *)
LEMMA GateAlone ==
  ASSUME GateInv, vetted \subseteq vetted',
         UNCHANGED <<git, cache, owner, scan, torn>>,
         owner # None => req'[owner] = req[owner]
  PROVE  GateInv'
BY DEF GateInv, StillApproving, Approving, SeenRight, VettedContent, git,
       IsDirty, Tip, Uncommitted

(* A refresh, and an approve that has not merged, at a step of its own.    *)
LEMMA RefreshGateInv ==
  ASSUME TInv, GateInv, RefreshStep
  PROVE  GateInv'
<1> DEFINE w == scan.target
<1> USE EngineAssumption
<1>1. owner # None /\ scan \in Frame /\ owner \in Caller
  BY DEF RefreshStep, Discover, ListRepo, ListFails, NextRef, ReadBranch,
         ReadDiff, ReadDiffFails, WriteCache, PrunePublish, Build, Upsert,
         Sweep, Abandon, At, TInv, TypeOK
<1>2. CASE Discover \/ (\E r \in Repo : ListRepo(r) \/ ListFails(r)) \/ NextRef
  <2>1. req[owner].op = "full" /\ UNCHANGED <<owner, req>>
    BY <1>2 DEF Discover, ListRepo, ListFails, NextRef, At, TInv, ScanShape
  <2>2. QED  BY <2>1 DEF GateInv, StillApproving, Approving
<1>3. CASE ReadBranch
  <2>1. PICK b : scan' = [scan EXCEPT !.phase = "diff", !.branch = b]
                 /\ (w \in live /\ "branch" \notin Faults => b = branch[w])
    BY <1>3 DEF ReadBranch
  <2>2. scan'.phase = "diff" /\ scan'.target = w /\ scan'.branch = b
    BY <1>1, <2>1 DEF Frame
  <2>3. QED
    BY <1>3, <2>1, <2>2 DEF ReadBranch, GateInv, StillApproving, git
<1>4. CASE ReadDiff \/ ReadDiffFails
  <2>1. scan.phase = "diff" /\ scan.diff = Empty /\ w \in Worktree
        /\ UNCHANGED <<git, cache, owner, req, history>>
    BY <1>4 DEF ReadDiff, ReadDiffFails, At, TInv, ScanShape, Targeted, Phases
  <2>2. PICK c : scan' = [scan EXCEPT !.phase = "cache", !.diff = c]
                 /\ \/ c = Empty
                    \/ w \in live /\ c \in {work[w], Uncommitted(w)}
    <3>1. CASE ReadDiff
      BY <3>1 DEF ReadDiff
    <3>2. CASE ReadDiffFails /\ w \notin live
      <4>1. scan' = [scan EXCEPT !.phase = "cache", !.diff = scan.diff]
        BY <1>1, <3>2 DEF ReadDiffFails, Frame
      <4>2. QED  BY <2>1, <4>1
    <3>3. CASE ReadDiffFails /\ w \in live
      BY <3>3 DEF ReadDiffFails
    <3>4. QED  BY <1>4, <3>1, <3>2, <3>3
  <2>3. scan'.phase = "cache" /\ scan'.target = w /\ scan'.diff = c
        /\ scan'.branch = scan.branch
    BY <1>1, <2>2 DEF Frame
  <2>4. SUFFICES ASSUME StillApproving' PROVE SeenRight(w, c, scan.branch)'
    BY <2>1, <2>3 DEF GateInv, SeenRight, git, Uncommitted, Tip
  <2>5. StillApproving
    BY <2>1, <2>4 DEF StillApproving, Approving, history
  <2>6. w \in live => scan.branch = branch[w]
    BY <2>1, <2>5 DEF GateInv
  <2>7. SeenRight(w, c, scan.branch)
    BY <2>2, <2>6 DEF SeenRight
  <2>8. QED  BY <2>1, <2>3, <2>7 DEF SeenRight, git, Uncommitted, Tip
<1>5. CASE WriteCache
  <2> DEFINE m == [diff |-> scan.diff, branch |-> scan.branch]
  <2>1. scan.phase = "cache" /\ w \in Worktree
        /\ cache' = [cache EXCEPT ![w] = m]
        /\ UNCHANGED <<git, owner, req, history>>
    BY <1>5 DEF WriteCache, At, TInv, ScanShape, Targeted, Phases
  <2>2. cache'[w] = m
    BY <2>1 DEF TInv, TypeOK
  <2>3. scan'.phase = "prune" /\ scan'.target = w
    <3>1. PICK fr : scan' = [scan EXCEPT !.phase = "prune", !.fresh = fr]
      BY <1>5 DEF WriteCache
    <3>2. QED  BY <1>1, <3>1 DEF Frame
  <2>4. SUFFICES ASSUME StillApproving'
                 PROVE  SeenRight(w, scan.diff, scan.branch)
    BY <2>1, <2>2, <2>3 DEF GateInv, SeenRight, git, Uncommitted, Tip
  <2>5. QED
    BY <2>1, <2>4 DEF GateInv, StillApproving, Approving, history
<1>6. CASE PrunePublish \/ Build
  <2>1. scan.phase \in {"prune", "build"} /\ scan'.phase \in {"build", "upsert"}
        /\ scan'.target = w
    BY <1>1, <1>6 DEF PrunePublish, Build, At, Goto, Frame
  <2>2. UNCHANGED <<git, cache, owner, req, vetted, torn>>
    BY <1>6 DEF PrunePublish, Build, history
  <2>3. QED
    BY <2>1, <2>2 DEF GateInv, StillApproving, Approving, SeenRight, git,
                      Uncommitted, Tip
<1>7. CASE Upsert
  <2>1. CASE req[owner].op # "approve"
    <3>1. req[owner].op \in Ops
      BY <1>1, <1>7 DEF Upsert, At, TInv, TypeOK, ScanShape, Request
    <3>2. ~ Approving'
      <4>1. CASE req[owner].op = "one"
        BY <1>7, <4>1 DEF Upsert, Release, Approving
      <4>2. CASE req[owner].op = "full"
        BY <1>7, <4>2 DEF Upsert, Approving
      <4>3. QED  BY <2>1, <3>1, <4>1, <4>2 DEF Ops
    <3>3. QED  BY <3>2 DEF GateInv, StillApproving
  <2>2. CASE req[owner].op = "approve"
    <3>1. scan' = [NoFrame EXCEPT !.phase = "reviewed", !.target = w]
          /\ scan.phase = "upsert"
          /\ UNCHANGED <<git, cache, owner, req, vetted, torn>>
      BY <1>7, <2>2 DEF Upsert, At
    <3>2. scan'.phase = "reviewed" /\ scan'.target = w
      BY <3>1 DEF NoFrame
    <3>3. QED
      BY <3>1, <3>2 DEF GateInv, StillApproving, Approving, SeenRight, git,
                        Uncommitted, Tip
  <2>3. QED  BY <2>1, <2>2
<1>8. CASE Sweep \/ Abandon
  BY <1>8 DEF Sweep, Abandon, Release, GateInv, StillApproving, Approving
<1>9. QED
  BY <1>2, <1>3, <1>4, <1>5, <1>6, <1>7, <1>8 DEF RefreshStep

LEMMA ApproveGateInv ==
  ASSUME TInv, MarkInv, LandedInv, ApproveStep
  PROVE  LandedInv'
<1> DEFINE w == scan.target
<1> USE EngineAssumption
<1>1. /\ owner # None /\ scan \in Frame /\ scan.phase \in Gates
      /\ w \in Worktree /\ req[owner].op = "approve"
      /\ cache[w] \in Meta /\ live \in SUBSET Worktree
  BY DEF ApproveStep, GateReviewed, GateClean, FindBase, Merge, RemoveWorktree,
         ClearWorktree, ClearFails, Forget, Refuse, At, TInv, TypeOK, ScanShape,
         Targeted, Phases, Gates
<1>2. vetted' = vetted
  BY DEF ApproveStep, GateReviewed, GateClean, FindBase, Merge, RemoveWorktree,
         ClearWorktree, ClearFails, Forget, Refuse, history
<1>3. CASE Refuse \/ Forget
  BY <1>2, <1>3, LandedAlone
     DEF Refuse, Forget, Release, LandedInv, GateInv, StillApproving, Approving
<1>4. CASE GateReviewed
  <2>1. /\ scan.phase = "reviewed" /\ scan' = [scan EXCEPT !.phase = "clean"]
        /\ FullyReviewed(w)
        /\ UNCHANGED <<git, cache, owner, req, marks, history>>
    BY <1>4 DEF GateReviewed, At, Goto
  <2>2. scan'.phase = "clean" /\ scan'.target = w
    BY <1>1, <2>1 DEF Frame
  <2>3. cache[w].diff \in Content
    BY <1>1 DEF Meta
  <2>4. cache[w].diff # Empty
    BY <2>1 DEF FullyReviewed, Files, Empty
  <2>5. VettedContent(w, cache[w].diff)
    BY <1>1, <2>1, <2>3
       DEF FullyReviewed, VettedContent, Files, Content, MarkInv, MarksAreVetted
  <2>6. GateInv'
    BY <2>1, <2>2, <2>4, <2>5
       DEF LandedInv, GateInv, StillApproving, Approving, SeenRight,
           VettedContent, git, history, Uncommitted, Tip
  <2>7. QED  BY <1>2, <2>1, <2>6, LandedAlone DEF LandedInv, history
<1>5. CASE GateClean
  <2>1. /\ scan.phase = "clean" /\ scan' = [scan EXCEPT !.phase = "base"]
        /\ w \in live /\ ~ IsDirty(w)
        /\ UNCHANGED <<git, cache, owner, req, history>>
    BY <1>5 DEF GateClean, At, Goto
  <2>2. scan'.phase = "base" /\ scan'.target = w
    BY <1>1, <2>1 DEF Frame
  <2>3. Uncommitted(w) = Empty
    BY <2>1 DEF IsDirty, Uncommitted, Empty
  <2>4. StillApproving => /\ cache[w].branch = branch[w]
                          /\ VettedContent(w, work[w])
    BY <2>1, <2>3 DEF LandedInv, GateInv, SeenRight
  <2>5. GateInv'
    BY <2>1, <2>2, <2>4
       DEF GateInv, StillApproving, Approving, VettedContent, git, history,
           IsDirty, Tip
  <2>6. QED  BY <1>2, <2>1, <2>5, LandedAlone DEF LandedInv, history
<1>6. CASE FindBase
  <2>1. PICK v \in live : /\ branch[v] = Base
                          /\ scan' = [scan EXCEPT !.phase = "merge", !.into = v]
    BY <1>6 DEF FindBase
  <2>2. scan.phase = "base" /\ UNCHANGED <<git, cache, owner, req, history>>
    BY <1>6 DEF FindBase, At
  <2>3. scan'.phase = "merge" /\ scan'.target = w /\ scan'.into = v
    BY <1>1, <2>1 DEF Frame
  <2>4. GateInv'
    BY <2>1, <2>2, <2>3
       DEF LandedInv, GateInv, StillApproving, Approving, VettedContent, git,
           history, IsDirty, Tip
  <2>5. QED  BY <1>2, <2>2, <2>4, LandedAlone DEF LandedInv, history
<1>7. CASE Merge
  <2> DEFINE c == tip[RepoOf[w]][cache[w].branch]
             t == branch[scan.into]
  <2>1. scan.phase = "merge" /\ scan' = [scan EXCEPT !.phase = "remove"]
        /\ landed' = [wt |-> w, content |-> c, into |-> t, torn |-> torn]
        /\ UNCHANGED <<live, branch, owner, req, torn>>
    BY <1>7 DEF Merge, At, Goto
  <2>2. scan'.phase = "remove" /\ scan'.target = w
    BY <1>1, <2>1 DEF Frame
  <2>3. StillApproving => /\ w \in live /\ c = work[w]
                          /\ cache[w].branch = branch[w]
                          /\ VettedContent(w, c) /\ t = Base
    BY <2>1 DEF LandedInv, GateInv, IsDirty, Tip
  <2>4. StillApproving => work'[w] = Empty
    <3>1. SUFFICES ASSUME StillApproving PROVE work'[w] = Empty
      OBVIOUS
    <3>2. work' = [v \in Worktree |->
                     IF v \in live /\ RepoOf[v] = RepoOf[w]
                             /\ branch[v] = cache[w].branch
                       THEN Since(work[v], c) ELSE work[v]]
      BY <1>7, <2>3, <3>1 DEF Merge
    <3>3. work'[w] = Since(work[w], work[w])
      BY <1>1, <2>3, <3>1, <3>2
    <3>4. QED  BY <3>3 DEF Since, Empty
  <2>5. GateInv'
    BY <2>1, <2>2, <2>4 DEF GateInv, StillApproving, Approving
  <2>6. MergesOnlyVetted'
    <3>1. Approving
      BY <1>1 DEF Approving
    <3>2. landed'.torn = torn /\ landed'.into = t /\ landed'.content = c
          /\ landed'.wt = w
      BY <2>1
    <3>3. ~ torn /\ "branch" \notin Faults =>
            VettedContent(w, c) /\ t = Base
      BY <2>3, <3>1 DEF StillApproving
    <3> HIDE DEF w, c, t
    <3>4. QED
      BY <1>2, <3>2, <3>3 DEF MergesOnlyVetted, LandedVetted, VettedContent
  <2>7. QED  BY <2>5, <2>6 DEF LandedInv
<1>8. CASE RemoveWorktree \/ ClearWorktree \/ ClearFails
  <2>1. PICK ph \in {"clear", "forget"} : scan' = [scan EXCEPT !.phase = ph]
    BY <1>8 DEF RemoveWorktree, ClearWorktree, ClearFails, Goto
  <2>2. scan'.phase \in {"clear", "forget"}
    BY <1>1, <2>1 DEF Frame
  <2>3. GateInv'
    BY <2>2 DEF GateInv
  <2>4. UNCHANGED landed
    BY <1>8 DEF RemoveWorktree, ClearWorktree, ClearFails, history
  <2>5. QED  BY <1>2, <2>3, <2>4, LandedAlone DEF LandedInv
<1>9. QED
  BY <1>3, <1>4, <1>5, <1>6, <1>7, <1>8 DEF ApproveStep

LEMMA NextLandedInv ==
  ASSUME TInv, MarkInv, LandedInv, [Next]_vars
  PROVE  LandedInv'
<1>0. vetted \subseteq vetted'
  BY VettedGrows
<1>1. CASE UNCHANGED vars
  BY <1>0, <1>1, GateAlone, LandedAlone DEF vars, git, memory, history, LandedInv
<1>2. CASE Agent
  <2>1. GitMoves
    BY <1>2 DEF Agent, AgentEdit, AgentCommit, Checkout, AddWorktree,
                DropWorktree
  <2>2. GateInv'
    <3>1. CASE StillApproving'
      <4>1. scan.phase = "branch" /\ UNCHANGED scan
        BY <2>1, <3>1 DEF GitMoves, memory, StillApproving, Approving
      <4>2. QED  BY <4>1 DEF GateInv
    <3>2. CASE ~ StillApproving'
      BY <3>2 DEF GateInv
    <3>3. QED  BY <3>1, <3>2
  <2>3. QED  BY <1>0, <2>1, <2>2, LandedAlone DEF GitMoves, LandedInv
<1>3. CASE User
  <2>1. UNCHANGED <<git, cache, owner, scan, torn, landed>>
    BY <1>3 DEF User, CallRefresh, CallRefreshOne, CallApprove, Call, View,
                Post, PostFails, history
  <2>2. owner # None => req'[owner] = req[owner]
    <3>1. owner # None => req[owner] # None
      BY DEF TInv, ScanShape
    <3>2. CASE UNCHANGED req
      BY <3>2
    <3>3. ASSUME NEW p \in Caller, NEW op, NEW v, Call(p, op, v)
          PROVE  owner # None => req'[owner] = req[owner]
      BY <3>1, <3>3 DEF Call, TInv, TypeOK
    <3>4. QED
      BY <1>3, <3>2, <3>3 DEF User, CallRefresh, CallRefreshOne, CallApprove,
                              View, Post, PostFails
  <2>3. QED  BY <1>0, <2>1, <2>2, GateAlone, LandedAlone DEF LandedInv
<1>4. CASE \E p \in Caller : Acquire(p)
  <2>1. scan'.phase \in {"discover", "branch"} \/ owner' = None
    BY <1>4 DEF Acquire, Goto, TInv, TypeOK, Frame
  <2>2. UNCHANGED landed
    BY <1>4 DEF Acquire, history
  <2>3. QED
    BY <1>0, <2>1, <2>2, LandedAlone
       DEF LandedInv, GateInv, StillApproving, Approving
<1>5. CASE RefreshStep
  <2>1. UNCHANGED landed
    BY <1>5 DEF RefreshStep, Discover, ListRepo, ListFails, NextRef, ReadBranch,
                ReadDiff, ReadDiffFails, WriteCache, PrunePublish, Build,
                Upsert, Sweep, Abandon, history
  <2>2. QED  BY <1>0, <1>5, <2>1, RefreshGateInv, LandedAlone DEF LandedInv
<1>6. CASE ApproveStep
  BY <1>6, ApproveGateInv
<1>7. CASE \E r \in Reviewer : ReviewStep(r)
  BY <1>0, <1>7, GateAlone, LandedAlone
     DEF ReviewStep, StoreMark, GetRow, PutRow, history, LandedInv
<1>8. CASE Restart
  BY <1>0, <1>8, LandedAlone
     DEF Restart, LandedInv, GateInv, StillApproving, Approving
<1>9. QED  BY <1>1, <1>2, <1>3, <1>4, <1>5, <1>6, <1>7, <1>8 DEF Next

IInv == TInv /\ MarkInv /\ LandedInv

LEMMA Invariance == Spec => []IInv
<1>1. Init => IInv
  BY InitTInv, InitMarkInv, InitLandedInv DEF IInv
<1>2. IInv /\ [Next]_vars => IInv'
  BY NextTInv, NextMarkInv, NextLandedInv DEF IInv
<1>3. QED  BY <1>1, <1>2, PTL DEF Spec

(* Unless git moved under it, an approve merges into base exactly what     *)
(* users marked, whatever else runs in the daemon.                         *)
THEOREM GateSound == Spec => []MergesOnlyVetted
<1>1. IInv => MergesOnlyVetted
  BY DEF IInv, LandedInv
<1>2. QED  BY <1>1, Invariance, PTL

(* `git worktree remove --force` discards nothing that is not in base,     *)
(* unless git moved under the approve.                                     *)
THEOREM RemovalSound == Spec => RemovalLosesNothing
<1> DEFINE Keeps == RemoveWorktree /\ ~ torn /\ "branch" \notin Faults =>
                      \A w \in live \ live' : work[w] = Empty
<1>1. IInv /\ [Next]_vars => [Keeps]_vars
  <2>1. SUFFICES ASSUME IInv, RemoveWorktree, ~ torn, "branch" \notin Faults,
                        NEW w \in live \ live'
                 PROVE  work[w] = Empty
    OBVIOUS
  <2>2. w = scan.target /\ scan.phase = "remove" /\ owner # None
    BY <2>1 DEF RemoveWorktree, At
  <2>3. req[owner].op = "approve"
    BY <2>1, <2>2 DEF IInv, TInv, ScanShape, Gates
  <2>4. QED
    BY <2>1, <2>2, <2>3 DEF IInv, LandedInv, GateInv, StillApproving, Approving
<1>2. QED  BY <1>1, Invariance, PTL DEF Spec, RemovalLosesNothing

-----------------------------------------------------------------------------
(***************************************************************************)
(* Marks survive.  A scan prunes by the diff it has read; the two differ   *)
(* only if git moves in between.                                           *)
(***************************************************************************)
(* Between the read of a worktree's diff and the pruning of its marks, no  *)
(* agent gives a file a change that it did not have against base, nor puts *)
(* back a worktree that was gone.                                          *)
Undisturbed ==
  scan.phase \in {"cache", "prune"} =>
    \A f \in File : (scan.target \in live => work[scan.target][f] = Same) =>
                      (scan.target \in live' => work'[scan.target][f] = Same)

(* What the diff just read leaves out does not differ from base.           *)
PruneInv ==
  scan.phase \in {"cache", "prune"} =>
    \A f \in File : scan.diff[f] = Same /\ scan.target \in live =>
                      work[scan.target][f] = Same

LEMMA NextPrune ==
  ASSUME TInv, PruneInv, "diff" \notin Faults, [Next]_vars, Undisturbed
  PROVE  PruneInv'
<1>1. CASE UNCHANGED <<scan, live, work>>
  BY <1>1 DEF PruneInv
<1>2. CASE UNCHANGED scan /\ ~ UNCHANGED <<live, work>>
  BY <1>2 DEF PruneInv, Undisturbed
<1>3. CASE ReadDiff \/ ReadDiffFails
  <2>1. scan.phase = "diff" /\ UNCHANGED <<live, work>>
    BY <1>3 DEF ReadDiff, ReadDiffFails, At, git
  <2>2. scan.target \notin live \/ scan' = [scan EXCEPT !.phase = "cache",
                                                        !.diff = work[scan.target]]
    BY <1>3 DEF ReadDiff, ReadDiffFails
  <2>3. scan'.target = scan.target
    BY <1>3 DEF ReadDiff, ReadDiffFails, TInv, TypeOK, Frame
  <2>4. scan.target \in live => scan'.diff = work[scan.target]
    BY <2>2 DEF TInv, TypeOK, Frame
  <2> QED BY <2>1, <2>3, <2>4 DEF PruneInv
<1>4. CASE WriteCache
  <2>1. /\ scan.phase = "cache" /\ scan'.target = scan.target
        /\ scan'.diff = scan.diff /\ UNCHANGED <<live, work>>
    BY <1>4 DEF WriteCache, At, git, TInv, TypeOK, Frame
  <2> QED BY <2>1 DEF PruneInv
<1>5. CASE scan'.phase \notin {"cache", "prune"}
  BY <1>5 DEF PruneInv
<1>6. Agent \/ User \/ (\E r \in Reviewer : ReviewStep(r)) => UNCHANGED scan
  <2>1. Agent => UNCHANGED scan
    <3>1. Agent => GitMoves
      BY DEF Agent, AgentEdit, AgentCommit, Checkout, AddWorktree, DropWorktree
    <3> QED BY <3>1 DEF GitMoves, memory
  <2>2. ASSUME User PROVE scan' = scan
    BY <2>2 DEF User, CallRefresh, CallRefreshOne, CallApprove, Call, View, Post, PostFails
  <2>3. ASSUME NEW r \in Reviewer, ReviewStep(r) PROVE scan' = scan
    BY <2>3 DEF ReviewStep, StoreMark, GetRow, PutRow
  <2> QED BY <2>1, <2>2, <2>3
<1>7. NoFrame.phase = "free" /\ [NoFrame EXCEPT !.phase = "list"].phase = "list"
  BY DEF NoFrame
<1>8. Restart => scan'.phase = "free"
  BY <1>7 DEF Restart
<1>9. ASSUME NEW p \in Caller, Acquire(p)
      PROVE  UNCHANGED scan \/ scan'.phase \notin {"cache", "prune"}
  BY <1>9 DEF Acquire, Goto, TInv, TypeOK, Frame
<1>10. ASSUME RefreshStep, ~ ReadDiff, ~ ReadDiffFails, ~ WriteCache
       PROVE  scan'.phase \notin {"cache", "prune"}
  <2>1. CASE \/ Discover \/ (\E r \in Repo : ListRepo(r) \/ ListFails(r)) \/ NextRef
             \/ ReadBranch \/ PrunePublish \/ Build
    <3>1. CASE Discover
      BY <3>1 DEF Discover, TInv, TypeOK, Frame
    <3>2. CASE \E r \in Repo : ListRepo(r) \/ ListFails(r)
      BY <3>2 DEF ListRepo, ListFails, At, TInv, TypeOK, Frame
    <3>3. CASE NextRef
      BY <3>3 DEF NextRef, TInv, TypeOK, Frame
    <3>4. CASE ReadBranch
      BY <3>4 DEF ReadBranch, TInv, TypeOK, Frame
    <3>5. CASE PrunePublish
      BY <3>5 DEF PrunePublish, Goto, TInv, TypeOK, Frame
    <3>6. CASE Build
      BY <3>6 DEF Build, TInv, TypeOK, Frame
    <3> QED BY <2>1, <3>1, <3>2, <3>3, <3>4, <3>5, <3>6
  <2>2. CASE Sweep \/ Abandon
    BY <2>2, <1>7 DEF Sweep, Abandon, Release
  <2>3. CASE Upsert
    <3>1. owner # None /\ req[owner].op \in Ops
      BY <2>3 DEF Upsert, At, TInv, TypeOK, ScanShape, Request
    <3>2. CASE req[owner].op = "one"
      BY <1>7, <2>3, <3>2 DEF Upsert, Release
    <3>3. CASE req[owner].op = "full"
      BY <2>3, <3>3 DEF Upsert, NoFrame
    <3>4. CASE req[owner].op = "approve"
      BY <2>3, <3>4 DEF Upsert, NoFrame
    <3> QED BY <3>1, <3>2, <3>3, <3>4 DEF Ops
  <2> QED BY <1>10, <2>1, <2>2, <2>3 DEF RefreshStep
<1>11. ASSUME ApproveStep PROVE scan'.phase \notin {"cache", "prune"}
  <2>1. CASE Forget \/ Refuse
    BY <2>1, <1>7 DEF Forget, Refuse, Release
  <2>2. CASE GateReviewed \/ GateClean \/ Merge \/ RemoveWorktree \/ ClearWorktree \/ ClearFails
    <3>1. \E ph \in {"clean", "base", "remove", "clear", "forget"} : Goto(ph)
      BY <2>2 DEF GateReviewed, GateClean, Merge, RemoveWorktree, ClearWorktree, ClearFails
    <3> QED BY <3>1 DEF Goto, TInv, TypeOK, Frame
  <2>3. CASE FindBase
    BY <2>3 DEF FindBase, TInv, TypeOK, Frame
  <2> QED BY <1>11, <2>1, <2>2, <2>3 DEF ApproveStep
<1>12. UNCHANGED vars => UNCHANGED <<scan, live, work>>
  BY DEF vars, memory, git
<1> QED
  BY <1>1, <1>2, <1>3, <1>4, <1>5, <1>6, <1>8, <1>9, <1>10, <1>11, <1>12 DEF Next

LEMMA NextMarks ==
  ASSUME TInv, PruneInv, [Next]_vars,
         NEW w \in live, NEW f \in File, marks[w][f] # None, marks'[w][f] = None
  PROVE  \/ work[w][f] = Same
         \/ scan.phase = "clear" /\ scan.target = w
         \/ \E r \in Reviewer : /\ rev[r].pc = "store" /\ ~ rev[r].on
                                /\ rev[r].wt = w /\ rev[r].file = f
<1> w \in Worktree
  BY DEF TInv, TypeOK
<1>1. CASE PrunePublish
  <2>1. scan.phase = "prune" /\ marks' = [marks EXCEPT ![scan.target] = Kept(@, scan.diff)]
    BY <1>1 DEF PrunePublish, At
  <2>2. scan.target = w /\ marks'[w] = Kept(marks[w], scan.diff)
    BY <2>1 DEF TInv, TypeOK
  <2>3. scan.diff[f] = Same
    BY <2>2 DEF Kept, Files
  <2> QED BY <2>1, <2>2, <2>3 DEF PruneInv
<1>2. CASE ClearWorktree
  BY <1>2 DEF ClearWorktree, At, TInv, TypeOK
<1>3. ASSUME NEW r \in Reviewer, StoreMark(r)
      PROVE  /\ rev[r].pc = "store" /\ ~ rev[r].on
             /\ rev[r].wt = w /\ rev[r].file = f
  <2>1. /\ rev[r].pc = "store"
        /\ marks' = [marks EXCEPT ![rev[r].wt][rev[r].file] =
                       IF rev[r].on THEN rev[r].m[rev[r].file] ELSE None]
    BY <1>3 DEF StoreMark
  <2>2. rev[r].wt \in Worktree /\ rev[r].file \in File /\ rev[r].m[rev[r].file] # None
    BY <2>1, EngineAssumption DEF TInv, RevShape
  <2>3. rev[r].wt = w /\ rev[r].file = f
    BY <2>1, <2>2 DEF TInv, TypeOK, Marks
  <2>4. marks'[w][f] = IF rev[r].on THEN rev[r].m[f] ELSE None
    BY <2>1, <2>3 DEF TInv, TypeOK, Marks
  <2> QED BY <2>1, <2>2, <2>3, <2>4
<1>4. CASE UNCHANGED marks
  BY <1>4
<1>5. ASSUME Agent PROVE marks' = marks
  BY <1>5 DEF Agent, AgentEdit, AgentCommit, Checkout, AddWorktree, DropWorktree, GitMoves
<1>6. ASSUME User \/ (\E p \in Caller : Acquire(p)) \/ Restart \/ UNCHANGED vars
      PROVE  marks' = marks
  <2>1. CASE User
    BY <2>1 DEF User, CallRefresh, CallRefreshOne, CallApprove, Call, View, Post, PostFails
  <2> QED BY <1>6, <2>1 DEF Acquire, Restart, vars
<1>7. ASSUME RefreshStep, ~ PrunePublish PROVE marks' = marks
  BY <1>7 DEF RefreshStep, Discover, ListRepo, ListFails, NextRef, ReadBranch, ReadDiff,
              ReadDiffFails, WriteCache, Build, Upsert, Sweep, Abandon
<1>8. ASSUME ApproveStep, ~ ClearWorktree PROVE marks' = marks
  BY <1>8 DEF ApproveStep, GateReviewed, GateClean, FindBase, Merge, RemoveWorktree,
              ClearFails, Forget, Refuse
<1>9. ASSUME NEW r \in Reviewer, ReviewStep(r), ~ StoreMark(r) PROVE marks' = marks
  BY <1>9 DEF ReviewStep, GetRow, PutRow
<1> QED
  BY <1>1, <1>2, <1>3, <1>4, <1>5, <1>6, <1>7, <1>8, <1>9 DEF Next

(* A mark goes away only when its file does not differ from base, a user   *)
(* withdraws it or an approve merges its worktree, as long as diffs can be *)
(* read and no agent moves a file away from base between the read of the   *)
(* diff and the pruning (refreshWorktree, pruneReviews, engine.go:525-568):*)
(* through any interleaving of scans, approves, toggles and restarts.      *)
THEOREM MarksSurviveSound ==
  ASSUME "diff" \notin Faults
  PROVE  Spec /\ [][Undisturbed]_vars => MarksSurvive
<1>1. Init => TInv /\ PruneInv
  BY InitTInv DEF Init, PruneInv, NoFrame
<1>2. UNCHANGED vars => Undisturbed
  BY DEF vars, git, Undisturbed
<1>3. (TInv /\ PruneInv) /\ [Next]_vars /\ [Undisturbed]_vars => (TInv /\ PruneInv)'
  BY <1>2, NextTInv, NextPrune
<1> DEFINE Survive ==
      \A w \in live, f \in File :
       marks[w][f] # None /\ marks'[w][f] = None =>
         \/ work[w][f] = Same
         \/ scan.phase = "clear" /\ scan.target = w
         \/ \E r \in Reviewer : /\ rev[r].pc = "store" /\ ~ rev[r].on
                                /\ rev[r].wt = w /\ rev[r].file = f
<1>4. (TInv /\ PruneInv) /\ [Next]_vars => Survive
  BY NextMarks
<1>5. Spec /\ [][Undisturbed]_vars => [][Survive]_vars
  <2> HIDE DEF Survive
  <2> QED BY <1>1, <1>3, <1>4, PTL DEF Spec
<1> QED BY <1>5 DEF MarksSurvive

-----------------------------------------------------------------------------
(***************************************************************************)
(* What full and targeted refreshes leave in the cache and the registry:   *)
(* whatever is cached can be seen, what is gone is not brought back, and   *)
(* no old guardrail hit is published as a new one.                         *)
(***************************************************************************)

-----------------------------------------------------------------------------
(***************************************************************************)
(* What is cached can be seen.                                             *)
(***************************************************************************)
Discovering == {"prune", "build", "upsert"}

LEMMA VisibleAlone ==
  ASSUME CachedIsVisible, UNCHANGED <<cache, reg>>,
         scan.phase \in Discovering =>
           scan'.phase \in Discovering /\ scan'.target = scan.target
  PROVE  CachedIsVisible'
BY DEF CachedIsVisible, Discovering

LEMMA RefreshVisible ==
  ASSUME TInv, CachedIsVisible, RefreshStep
  PROVE  CachedIsVisible'
<1> USE EngineAssumption, NoneAssumption
<1>1. owner # None /\ scan \in Frame
  BY DEF RefreshStep, Discover, ListRepo, ListFails, NextRef, ReadBranch,
         ReadDiff, ReadDiffFails, WriteCache, PrunePublish, Build, Upsert,
         Sweep, Abandon, At, TInv, TypeOK
<1>2. CASE \/ Discover \/ (\E r \in Repo : ListRepo(r) \/ ListFails(r))
           \/ NextRef \/ ReadBranch \/ ReadDiff \/ ReadDiffFails \/ Abandon
  <2>1. scan.phase \notin Discovering /\ UNCHANGED <<cache, reg>>
    BY <1>2 DEF Discover, ListRepo, ListFails, NextRef, ReadBranch, ReadDiff,
                ReadDiffFails, Abandon, At, Discovering
  <2>2. QED  BY <2>1, VisibleAlone
<1>3. CASE PrunePublish \/ Build
  <2>1. scan'.phase \in Discovering /\ scan'.target = scan.target
        /\ UNCHANGED <<cache, reg>>
    BY <1>1, <1>3 DEF PrunePublish, Build, Goto, Discovering, Frame
  <2>2. QED  BY <2>1, VisibleAlone
<1>4. CASE WriteCache
  <2>1. PICK m, fr : /\ cache' = [cache EXCEPT ![scan.target] = m]
                     /\ scan' = [scan EXCEPT !.phase = "prune", !.fresh = fr]
    BY <1>4 DEF WriteCache
  <2>2. scan.phase = "cache" /\ UNCHANGED reg
    BY <1>4 DEF WriteCache, At
  <2>3. scan'.phase = "prune" /\ scan'.target = scan.target
    BY <1>1, <2>1 DEF Frame
  <2>4. \A w \in Worktree : w # scan.target => cache'[w] = cache[w]
    BY <2>1 DEF TInv, TypeOK
  <2>5. QED  BY <2>2, <2>3, <2>4 DEF CachedIsVisible
<1>5. CASE Upsert
  <2>1. /\ scan.target \in Worktree /\ scan.row \in Row
        /\ reg' = [reg EXCEPT ![scan.target] = scan.row] /\ UNCHANGED cache
    BY <1>5 DEF Upsert, At, TInv, ScanShape, Targeted, Phases
  <2>2. \A w \in Worktree : reg'[w] = IF w = scan.target THEN scan.row
                                                         ELSE reg[w]
    BY <2>1 DEF TInv, TypeOK
  <2>3. QED  BY <2>1, <2>2 DEF CachedIsVisible
<1>6. CASE Sweep
  <2>1. \A w \in Worktree : cache'[w] # None =>
          cache[w] # None /\ reg'[w] = reg[w]
    BY <1>6 DEF Sweep
  <2>2. scan.phase = "list"
    BY <1>6 DEF Sweep, At
  <2>3. QED  BY <2>1, <2>2 DEF CachedIsVisible
<1>7. QED  BY <1>2, <1>3, <1>4, <1>5, <1>6 DEF RefreshStep

LEMMA ApproveVisible ==
  ASSUME TInv, CachedIsVisible, ApproveStep
  PROVE  CachedIsVisible'
<1>1. scan.phase \in Gates /\ scan.target \in Worktree
  BY DEF ApproveStep, GateReviewed, GateClean, FindBase, Merge, RemoveWorktree,
         ClearWorktree, ClearFails, Forget, Refuse, At, TInv, ScanShape, Gates,
         Targeted, Phases
<1>2. CASE Forget
  <2>1. \A w \in Worktree : cache'[w] # None =>
          cache[w] # None /\ reg'[w] = reg[w]
    BY <1>1, <1>2 DEF Forget, TInv, TypeOK
  <2>2. QED  BY <1>1, <2>1 DEF CachedIsVisible, Gates
<1>3. CASE ~ Forget
  <2>1. UNCHANGED <<cache, reg>>
    BY <1>3 DEF ApproveStep, GateReviewed, GateClean, FindBase, Merge,
                RemoveWorktree, ClearWorktree, ClearFails, Refuse
  <2>2. QED  BY <1>1, <2>1, VisibleAlone DEF Gates, Discovering
<1>4. QED  BY <1>2, <1>3

LEMMA ReviewVisible ==
  ASSUME TInv, CachedIsVisible, NEW r \in Reviewer, ReviewStep(r)
  PROVE  CachedIsVisible'
<1>1. CASE PutRow(r)
  <2>1. /\ rev[r].row \in Row /\ UNCHANGED <<cache, scan>>
        /\ reg' = [reg EXCEPT ![rev[r].wt] = rev[r].row]
    BY <1>1 DEF PutRow, TInv, RevShape
  <2>2. \A w \in Worktree : reg'[w] = reg[w] \/ reg'[w] = rev[r].row
    BY <2>1 DEF TInv, TypeOK
  <2>3. QED  BY <2>1, <2>2, NoneAssumption DEF CachedIsVisible
<1>2. CASE StoreMark(r) \/ GetRow(r)
  BY <1>2, VisibleAlone DEF StoreMark, GetRow
<1>3. QED  BY <1>1, <1>2 DEF ReviewStep

LEMMA NextVisible ==
  ASSUME TInv, CachedIsVisible, [Next]_vars
  PROVE  CachedIsVisible'
<1>1. CASE UNCHANGED vars
  BY <1>1, VisibleAlone DEF vars, memory
<1>2. CASE Agent
  <2>1. GitMoves
    BY <1>2 DEF Agent, AgentEdit, AgentCommit, Checkout, AddWorktree,
                DropWorktree
  <2>2. QED  BY <2>1, VisibleAlone DEF GitMoves, memory
<1>3. CASE User
  BY <1>3, VisibleAlone
     DEF User, CallRefresh, CallRefreshOne, CallApprove, Call, View, Post,
         PostFails
<1>4. CASE \E p \in Caller : Acquire(p)
  <2>1. scan.phase = "free" /\ UNCHANGED <<cache, reg>>
    BY <1>4 DEF Acquire, TInv, ScanShape
  <2>2. QED  BY <2>1, VisibleAlone DEF Discovering
<1>5. CASE RefreshStep
  BY <1>5, RefreshVisible
<1>6. CASE ApproveStep
  BY <1>6, ApproveVisible
<1>7. CASE \E r \in Reviewer : ReviewStep(r)
  BY <1>7, ReviewVisible
<1>8. CASE Restart
  BY <1>8 DEF Restart, CachedIsVisible
<1>9. QED  BY <1>1, <1>2, <1>3, <1>4, <1>5, <1>6, <1>7, <1>8 DEF Next

(* A worktree the engine knows, and so would approve, has a row in the     *)
(* registry for every client to see: no toggle that writes a row back, no  *)
(* sweep, approve or restart takes the one away and leaves the other.      *)
THEOREM VisibleSound == Spec => []CachedIsVisible
<1>1. Init => TInv /\ CachedIsVisible
  BY InitTInv DEF Init, CachedIsVisible
<1>2. (TInv /\ CachedIsVisible) /\ [Next]_vars => (TInv /\ CachedIsVisible)'
  BY NextTInv, NextVisible
<1>3. QED  BY <1>1, <1>2, PTL DEF Spec

-----------------------------------------------------------------------------
(***************************************************************************)
(* What is gone stays gone.  Only an approve, which has no worktrees left  *)
(* to refresh, removes one: those a scan still has to refresh are live,    *)
(* and a targeted refresh began from an entry of the cache.                *)
(***************************************************************************)
GoneInv ==
  /\ \A ref \in scan.todo : ref[1] \in live
  /\ scan.phase \in {"diff", "cache"} =>
       scan.target \in live \/ cache[scan.target] # None
  /\ scan.phase \in Gates => scan.todo = {}

LEMMA GoneAlone ==
  ASSUME GoneInv, live \subseteq live', UNCHANGED <<cache, scan>>
  PROVE  GoneInv'
BY DEF GoneInv

LEMMA RefreshGone ==
  ASSUME TInv, GoneInv, RefreshStep
  PROVE  GoneInv'
<1> USE EngineAssumption
<1>1. owner # None /\ scan \in Frame /\ UNCHANGED live
  BY DEF RefreshStep, Discover, ListRepo, ListFails, NextRef, ReadBranch,
         ReadDiff, ReadDiffFails, WriteCache, PrunePublish, Build, Upsert,
         Sweep, Abandon, At, TInv, TypeOK, git
<1>2. CASE Discover \/ (\E r \in Repo : ListFails(r))
  <2>1. scan'.phase = "list" /\ scan'.todo = scan.todo
    BY <1>1, <1>2 DEF Discover, ListFails, At, Frame
  <2>2. QED  BY <1>1, <2>1 DEF GoneInv, Gates
<1>3. ASSUME NEW r \in Repo, ListRepo(r)
      PROVE  GoneInv'
  <2>1. PICK rs, sn : scan' = [scan EXCEPT !.repos = rs,
                        !.todo = {<<w, branch[w]>> :
                                    w \in {v \in live : RepoOf[v] = r}},
                        !.seen = sn]
    BY <1>3 DEF ListRepo
  <2>2. scan'.phase = "list" /\ \A ref \in scan'.todo : ref[1] \in live
    <3>1. scan.phase = "list"
      BY <1>3 DEF ListRepo, At
    <3>2. QED  BY <1>1, <2>1, <3>1 DEF Frame
  <2>3. QED  BY <1>1, <2>2 DEF GoneInv, Gates
<1>4. CASE NextRef
  <2>1. PICK ref \in scan.todo :
          scan' = [scan EXCEPT !.phase = "diff", !.todo = scan.todo \ {ref},
                               !.target = ref[1], !.branch = ref[2]]
    BY <1>4 DEF NextRef
  <2>2. scan'.phase = "diff" /\ scan'.todo = scan.todo \ {ref}
        /\ scan'.target = ref[1]
    BY <1>1, <2>1 DEF Frame
  <2>3. QED  BY <1>1, <2>2 DEF GoneInv, Gates
<1>5. CASE ReadBranch
  <2>1. PICK b : scan' = [scan EXCEPT !.phase = "diff", !.branch = b]
    BY <1>5 DEF ReadBranch
  <2>2. scan'.phase = "diff" /\ scan'.target = scan.target
        /\ scan'.todo = scan.todo
    BY <1>1, <2>1 DEF Frame
  <2>3. cache[scan.target] # None /\ UNCHANGED cache
    BY <1>5 DEF ReadBranch, At, TInv, ScanShape
  <2>4. QED  BY <1>1, <2>2, <2>3 DEF GoneInv, Gates
<1>6. CASE ReadDiff \/ ReadDiffFails
  <2>1. PICK c : scan' = [scan EXCEPT !.phase = "cache", !.diff = c]
    <3>1. CASE scan' = [scan EXCEPT !.phase = "cache"]
      <4>1. scan' = [scan EXCEPT !.phase = "cache", !.diff = scan.diff]
        BY <1>1, <3>1 DEF Frame
      <4>2. QED  BY <4>1
    <3>2. QED  BY <1>6, <3>1 DEF ReadDiff, ReadDiffFails
  <2>2. scan'.phase = "cache" /\ scan'.target = scan.target
        /\ scan'.todo = scan.todo
    BY <1>1, <2>1 DEF Frame
  <2>3. scan.phase = "diff" /\ UNCHANGED cache
    BY <1>6 DEF ReadDiff, ReadDiffFails, At
  <2>4. QED  BY <1>1, <2>2, <2>3 DEF GoneInv, Gates
<1>7. CASE WriteCache \/ PrunePublish \/ Build
  <2>1. scan'.phase \in Discovering /\ scan'.todo = scan.todo
    BY <1>1, <1>7 DEF WriteCache, PrunePublish, Build, Goto, Frame, Discovering
  <2>2. QED  BY <1>1, <2>1 DEF GoneInv, Gates, Discovering
<1>8. CASE Upsert /\ req[owner].op = "full"
  <2>1. scan' = [NoFrame EXCEPT !.phase = "list", !.repos = scan.repos,
                                !.todo = scan.todo, !.seen = scan.seen]
    BY <1>8 DEF Upsert
  <2>2. scan'.phase = "list" /\ scan'.todo = scan.todo
    BY <2>1 DEF NoFrame
  <2>3. QED  BY <1>1, <2>2 DEF GoneInv, Gates
<1>9. CASE Upsert /\ req[owner].op # "full"
  <2>1. req[owner].op \in {"one", "approve"}
    BY <1>1, <1>9 DEF TInv, TypeOK, ScanShape, Request, Ops
  <2>2. CASE req[owner].op = "approve"
    <3>1. scan' = [NoFrame EXCEPT !.phase = "reviewed", !.target = scan.target]
      BY <1>9, <2>2 DEF Upsert
    <3>2. scan'.phase = "reviewed" /\ scan'.todo = {}
      BY <3>1 DEF NoFrame
    <3>3. QED  BY <3>2 DEF GoneInv
  <2>3. CASE req[owner].op = "one"
    <3>1. Release
      BY <1>9, <2>3 DEF Upsert
    <3>2. QED  BY <3>1 DEF Release, NoFrame, GoneInv
  <2>4. QED  BY <2>1, <2>2, <2>3
<1>10. CASE Sweep \/ Abandon
  BY <1>10 DEF Sweep, Abandon, Release, NoFrame, GoneInv
<1>11. QED
  BY <1>2, <1>3, <1>4, <1>5, <1>6, <1>7, <1>8, <1>9, <1>10 DEF RefreshStep

LEMMA ApproveGone ==
  ASSUME TInv, GoneInv, ApproveStep
  PROVE  GoneInv'
<1>1. scan.phase \in Gates /\ scan.todo = {} /\ scan \in Frame
  BY DEF ApproveStep, GateReviewed, GateClean, FindBase, Merge, RemoveWorktree,
         ClearWorktree, ClearFails, Forget, Refuse, At, TInv, TypeOK, GoneInv,
         Gates
<1>2. CASE Refuse \/ Forget
  BY <1>2 DEF Refuse, Forget, Release, NoFrame, GoneInv
<1>3. CASE ~ (Refuse \/ Forget)
  <2>1. CASE FindBase
    <3>1. PICK v : scan' = [scan EXCEPT !.phase = "merge", !.into = v]
      BY <2>1 DEF FindBase
    <3>2. scan'.phase \in Gates /\ scan'.todo = {}
      BY <1>1, <3>1 DEF Frame, Gates
    <3>3. QED  BY <3>2 DEF GoneInv, Gates
  <2>2. CASE ~ FindBase
    <3>1. Goto("clean") \/ Goto("base") \/ Goto("remove") \/ Goto("clear")
          \/ Goto("forget")
      <4>1. \/ GateReviewed \/ GateClean \/ Merge \/ RemoveWorktree
            \/ ClearWorktree \/ ClearFails
        BY <1>3, <2>2 DEF ApproveStep
      <4>2. CASE GateReviewed \/ GateClean
        BY <4>2 DEF GateReviewed, GateClean
      <4>3. CASE Merge
        BY <4>3 DEF Merge
      <4>4. CASE RemoveWorktree
        BY <4>4 DEF RemoveWorktree
      <4>5. CASE ClearWorktree \/ ClearFails
        BY <4>5 DEF ClearWorktree, ClearFails
      <4>6. QED  BY <4>1, <4>2, <4>3, <4>4, <4>5
    <3>2. scan'.phase \in Gates /\ scan'.todo = {}
      BY <1>1, <3>1 DEF Goto, Frame, Gates
    <3>3. QED  BY <3>2 DEF GoneInv, Gates
  <2>3. QED  BY <2>1, <2>2
<1>4. QED  BY <1>2, <1>3

LEMMA NextGone ==
  ASSUME TInv, GoneInv, "drop" \notin AgentOps, [Next]_vars
  PROVE  GoneInv'
<1>1. CASE UNCHANGED vars
  BY <1>1, GoneAlone DEF vars, memory, git
<1>2. CASE Agent
  <2>1. GitMoves /\ live \subseteq live'
    BY <1>2 DEF Agent, AgentEdit, AgentCommit, Checkout, AddWorktree,
                DropWorktree
  <2>2. QED  BY <2>1, GoneAlone DEF GitMoves, memory
<1>3. CASE User
  BY <1>3, GoneAlone
     DEF User, CallRefresh, CallRefreshOne, CallApprove, Call, View, Post,
         PostFails, git
<1>4. CASE \E p \in Caller : Acquire(p)
  <2>1. PICK p \in Caller : Acquire(p)
    BY <1>4
  <2>2. scan = NoFrame /\ UNCHANGED <<cache, live>>
    BY <2>1 DEF Acquire, TInv, ScanShape, git
  <2>3. scan'.phase \in {"free", "discover", "branch"} /\ scan'.todo = {}
    <3>1. CASE Goto("discover")
      BY <2>2, <3>1 DEF Goto, NoFrame
    <3>2. CASE scan' = [scan EXCEPT !.phase = "branch", !.target = req[p].wt]
      BY <2>2, <3>2 DEF NoFrame
    <3>3. CASE UNCHANGED scan
      BY <2>2, <3>3 DEF NoFrame
    <3>4. QED  BY <2>1, <3>1, <3>2, <3>3 DEF Acquire
  <2>4. QED  BY <2>3 DEF GoneInv, Gates
<1>5. CASE RefreshStep
  BY <1>5, RefreshGone
<1>6. CASE ApproveStep
  BY <1>6, ApproveGone
<1>7. CASE \E r \in Reviewer : ReviewStep(r)
  BY <1>7, GoneAlone DEF ReviewStep, StoreMark, GetRow, PutRow, git
<1>8. CASE Restart
  BY <1>8 DEF Restart, GoneInv, NoFrame, Gates
<1>9. QED  BY <1>1, <1>2, <1>3, <1>4, <1>5, <1>6, <1>7, <1>8 DEF Next

(* A worktree that git and the cache no longer have is not written into    *)
(* the cache again: refreshMu keeps every refresh out of the time between  *)
(* an approve's removal of the worktree and its removal of the entry.      *)
(* Agents who remove worktrees themselves are left out: one that goes      *)
(* while the scan that listed it runs does come back, as an empty diff.    *)
THEOREM GoneSound ==
  ASSUME "drop" \notin AgentOps
  PROVE  Spec => GoneStaysGone
<1> DEFINE Stays == \A w \in Worktree \ live : cache[w] = None => cache'[w] = None
<1>1. Init => TInv /\ GoneInv
  BY InitTInv DEF Init, NoFrame, GoneInv, Gates
<1>2. (TInv /\ GoneInv) /\ [Next]_vars => (TInv /\ GoneInv)'
  BY NextTInv, NextGone
<1>3. TInv /\ GoneInv /\ [Next]_vars => [Stays]_vars
  <2>1. SUFFICES ASSUME TInv, GoneInv, Next, NEW w \in Worktree \ live,
                        cache[w] = None
                 PROVE  cache'[w] = None
    OBVIOUS
  <2>2. CASE WriteCache
    <3>1. w # scan.target
      BY <2>1, <2>2 DEF WriteCache, At, GoneInv
    <3>2. QED  BY <2>1, <2>2, <3>1 DEF WriteCache, TInv, TypeOK
  <2>3. CASE Sweep \/ Forget \/ Restart
    BY <2>1, <2>3 DEF Sweep, Forget, Restart, TInv, TypeOK
  <2>4. CASE ~ (WriteCache \/ Sweep \/ Forget \/ Restart)
    <3>1. UNCHANGED cache
      BY <2>1, <2>4
         DEF Next, Agent, AgentEdit, AgentCommit, Checkout, AddWorktree,
             DropWorktree, GitMoves, memory, User, CallRefresh, CallRefreshOne,
             CallApprove, Call, View, Post, PostFails, Acquire, RefreshStep,
             Discover, ListRepo, ListFails, NextRef, ReadBranch, ReadDiff,
             ReadDiffFails, PrunePublish, Build, Upsert, Abandon, ApproveStep,
             GateReviewed, GateClean, FindBase, Merge, RemoveWorktree,
             ClearWorktree, ClearFails, Refuse, ReviewStep, StoreMark, GetRow,
             PutRow
    <3>2. QED  BY <2>1, <3>1
  <2>5. QED  BY <2>2, <2>3, <2>4
<1>4. QED  BY <1>1, <1>2, <1>3, PTL DEF Spec, GoneStaysGone

-----------------------------------------------------------------------------
(***************************************************************************)
(* No old hit is published.  A hit that stands has been in its worktree    *)
(* since the daemon started, so every diff read of that worktree shows it, *)
(* and the first full scan does not end before the cache has such a diff   *)
(* of each worktree with a standing hit.                                   *)
(***************************************************************************)
NoReplayAssumption ==
  /\ Faults \cap {"list", "diff", "remove"} = {}
  /\ "switch" \notin AgentOps

Standing(w) == \E f \in File : <<w, f>> \in standing
Shows(c, w) == \A f \in File : <<w, f>> \in standing => f \in Hits(c)

(* Main worktrees keep base checked out, and no two worktrees of one       *)
(* repository have the same branch: what an approve removes is not a main  *)
(* worktree.                                                               *)
HomeInv ==
  /\ \A w \in Worktree \ Editable : w \in live /\ branch[w] = Base
  /\ \A v, w \in live : v # w /\ RepoOf[v] = RepoOf[w] =>
                          branch[v] # branch[w]

(* A full scan accounts for every worktree with a standing hit.            *)
Accounted(w) ==
  \/ RepoOf[w] \in scan.repos
  \/ /\ w \in scan.seen
     /\ \/ \E ref \in scan.todo : ref[1] = w
        \/ scan.phase \in {"diff", "cache"} /\ scan.target = w
        \/ cache[w] # None

HitInv ==
  /\ standing \subseteq HitsNow(live, work)
  /\ \A w \in Worktree : cache[w] # None => Shows(cache[w].diff, w)
  /\ scan.phase = "cache" => Shows(scan.diff, scan.target)
  /\ firstScanDone => \A w \in Worktree : Standing(w) => cache[w] # None
  /\ owner # None /\ req[owner].op = "full" /\ scan.phase # "discover" =>
       \A w \in Worktree : Standing(w) => Accounted(w)
  /\ scan.phase = "prune" /\ firstScanDone =>
       \A f \in scan.fresh : <<scan.target, f>> \notin standing
  /\ scan.phase \in {"merge", "remove"} => scan.target \in Editable
  /\ scan.phase \in {"clear", "forget"} => ~ Standing(scan.target)
  /\ NoReplay

LEMMA AgentHome ==
  ASSUME TInv, HomeInv, NoReplayAssumption, Agent
  PROVE  HomeInv'
<1> USE EngineAssumption
<1>1. ASSUME NEW w \in Editable, NEW f \in File, NEW h \in EditTo,
             AgentEdit(w, f, h)
      PROVE  HomeInv'
  BY <1>1 DEF AgentEdit, HomeInv
<1>2. ASSUME NEW w \in Editable, AgentCommit(w)
      PROVE  HomeInv'
  BY <1>2 DEF AgentCommit, HomeInv
<1>3. ASSUME NEW w \in Editable, DropWorktree(w)
      PROVE  HomeInv'
  BY <1>3 DEF DropWorktree, HomeInv
<1>4. ASSUME NEW w \in Worktree, NEW b \in Branch, Checkout(w, b)
      PROVE  HomeInv'
  BY <1>4 DEF Checkout, CheckedOut, HomeInv, NoReplayAssumption, TInv, TypeOK
<1>5. ASSUME NEW w \in Worktree, NEW b \in Branch, AddWorktree(w, b)
      PROVE  HomeInv'
  BY <1>5 DEF AddWorktree, CheckedOut, HomeInv, TInv, TypeOK
<1>6. QED  BY <1>1, <1>2, <1>3, <1>4, <1>5 DEF Agent

LEMMA NextHome ==
  ASSUME TInv, HomeInv, NoReplayAssumption, [Next]_vars
  PROVE  HomeInv'
<1>1. CASE Agent
  BY <1>1, AgentHome
<1>2. CASE RemoveWorktree
  BY <1>2 DEF RemoveWorktree, HomeInv
<1>3. CASE ~ (Agent \/ RemoveWorktree)
  <2>1. UNCHANGED <<live, branch>>
    <3>1. CASE UNCHANGED vars
      BY <3>1 DEF vars, git
    <3>2. CASE User
      BY <3>2 DEF User, CallRefresh, CallRefreshOne, CallApprove, Call, View,
                  Post, PostFails, git
    <3>3. CASE \E p \in Caller : Acquire(p)
      BY <3>3 DEF Acquire, git
    <3>4. CASE RefreshStep
      BY <3>4 DEF RefreshStep, Discover, ListRepo, ListFails, NextRef,
                  ReadBranch, ReadDiff, ReadDiffFails, WriteCache,
                  PrunePublish, Build, Upsert, Sweep, Abandon, git
    <3>5. CASE ApproveStep
      BY <1>3, <3>5 DEF ApproveStep, GateReviewed, GateClean, FindBase, Merge,
                        ClearWorktree, ClearFails, Forget, Refuse, git
    <3>6. CASE \E r \in Reviewer : ReviewStep(r)
      BY <3>6 DEF ReviewStep, StoreMark, GetRow, PutRow, git
    <3>7. CASE Restart
      BY <3>7 DEF Restart, git
    <3>8. QED  BY <1>3, <3>1, <3>2, <3>3, <3>4, <3>5, <3>6, <3>7 DEF Next
  <2>2. QED  BY <2>1 DEF HomeInv
<1>4. QED  BY <1>1, <1>2, <1>3

(* Steps that leave the daemon's part alone.                               *)
LEMMA HitAlone ==
  ASSUME HitInv, standing' \subseteq standing,
         standing' \subseteq HitsNow(live', work'),
         UNCHANGED <<cache, scan, owner, firstScanDone, alerted>>,
         owner # None => req'[owner] = req[owner]
  PROVE  HitInv'
BY DEF HitInv, Standing, Shows, Accounted, NoReplay, Hits, HitsNow

LEMMA RefreshHit ==
  ASSUME TInv, HitInv, NoReplayAssumption, RefreshStep
  PROVE  HitInv'
<1> USE EngineAssumption, NoneAssumption
<1>1. /\ owner # None /\ scan \in Frame /\ UNCHANGED <<git, standing>>
      /\ standing' \subseteq HitsNow(live', work')
  BY DEF RefreshStep, Discover, ListRepo, ListFails, NextRef, ReadBranch,
         ReadDiff, ReadDiffFails, WriteCache, PrunePublish, Build, Upsert,
         Sweep, Abandon, At, TInv, TypeOK, git, history, HitInv, HitsNow
<1>2. CASE Discover
  <2>1. scan'.phase = "list" /\ scan'.repos = Repo
    BY <1>1, <1>2 DEF Discover, Frame
  <2>2. UNCHANGED <<cache, firstScanDone, alerted>>
    BY <1>2 DEF Discover, history
  <2>3. QED
    BY <1>1, <2>1, <2>2 DEF HitInv, Standing, Shows, Accounted, NoReplay, Hits
<1>3. ASSUME NEW r \in Repo, ListRepo(r)
      PROVE  HitInv'
  <2> DEFINE here == {w \in live : RepoOf[w] = r}
             refs == {<<w, branch[w]>> : w \in here}
  <2>1. scan' = [scan EXCEPT !.repos = scan.repos \ {r}, !.todo = refs,
                             !.seen = scan.seen \cup here]
        /\ scan.phase = "list" /\ scan.todo = {}
    BY <1>3 DEF ListRepo, At
  <2> HIDE DEF refs, here
  <2>2. scan'.phase = "list" /\ scan'.repos = scan.repos \ {r}
        /\ scan'.todo = refs /\ scan'.seen = scan.seen \cup here
    BY <1>1, <2>1 DEF Frame
  <2>3. UNCHANGED <<cache, firstScanDone, owner, req, alerted>>
    BY <1>3 DEF ListRepo, history
  <2>4. ASSUME NEW w \in Worktree, Standing(w), Accounted(w)
        PROVE  Accounted(w)'
    <3>1. CASE RepoOf[w] = r
      <4>1. w \in here
        BY <2>4, <3>1 DEF here, HitInv, HitsNow, Standing
      <4>2. <<w, branch[w]>> \in refs
        BY <4>1 DEF refs
      <4>3. QED  BY <2>2, <4>1, <4>2 DEF Accounted
    <3>2. CASE RepoOf[w] # r
      BY <2>1, <2>2, <2>3, <2>4, <3>2 DEF Accounted
    <3>3. QED  BY <3>1, <3>2
  <2>5. owner' # None /\ req'[owner'].op = "full" =>
          \A w \in Worktree : Standing(w)' => Accounted(w)'
    BY <1>1, <2>1, <2>3, <2>4 DEF HitInv, Standing
  <2>6. QED
    BY <1>1, <2>2, <2>3, <2>5 DEF HitInv, Standing, Shows, NoReplay, Hits
<1>4. CASE NextRef
  <2>1. PICK ref \in scan.todo :
          scan' = [scan EXCEPT !.phase = "diff", !.todo = scan.todo \ {ref},
                               !.target = ref[1], !.branch = ref[2]]
    BY <1>4 DEF NextRef
  <2>2. /\ scan'.phase = "diff" /\ scan'.todo = scan.todo \ {ref}
        /\ scan'.target = ref[1] /\ scan'.repos = scan.repos
        /\ scan'.seen = scan.seen
    BY <1>1, <2>1 DEF Frame
  <2>3. scan.phase = "list"
        /\ UNCHANGED <<cache, firstScanDone, owner, req, alerted>>
    BY <1>4 DEF NextRef, At, history
  <2>4. \A w \in Worktree : Accounted(w) => Accounted(w)'
    BY <2>2, <2>3 DEF Accounted
  <2>5. QED
    BY <1>1, <2>2, <2>3, <2>4 DEF HitInv, Standing, Shows, NoReplay, Hits
<1>5. CASE ReadBranch
  <2>1. PICK b : scan' = [scan EXCEPT !.phase = "diff", !.branch = b]
    BY <1>5 DEF ReadBranch
  <2>2. /\ scan'.phase = "diff" /\ scan'.todo = scan.todo
        /\ scan'.repos = scan.repos /\ scan'.seen = scan.seen
    BY <1>1, <2>1 DEF Frame
  <2>3. scan.phase = "branch"
        /\ UNCHANGED <<cache, firstScanDone, owner, req, alerted>>
    BY <1>5 DEF ReadBranch, At, history
  <2>4. \A w \in Worktree : Accounted(w) => Accounted(w)'
    BY <2>2, <2>3 DEF Accounted
  <2>5. QED
    BY <1>1, <2>2, <2>3, <2>4 DEF HitInv, Standing, Shows, NoReplay, Hits
<1>6. CASE ReadDiff \/ ReadDiffFails
  <2>1. PICK c : /\ scan' = [scan EXCEPT !.phase = "cache", !.diff = c]
                 /\ scan.target \in live => c = work[scan.target]
    <3>1. CASE scan' = [scan EXCEPT !.phase = "cache"] /\ scan.target \notin live
      <4>1. scan' = [scan EXCEPT !.phase = "cache", !.diff = scan.diff]
        BY <1>1, <3>1 DEF Frame
      <4>2. QED  BY <3>1, <4>1
    <3>2. QED
      BY <1>6, <3>1 DEF ReadDiff, ReadDiffFails, NoReplayAssumption
  <2>2. /\ scan'.phase = "cache" /\ scan'.todo = scan.todo
        /\ scan'.repos = scan.repos /\ scan'.seen = scan.seen
        /\ scan'.target = scan.target /\ scan'.diff = c
    BY <1>1, <2>1 DEF Frame
  <2>3. scan.phase = "diff"
        /\ UNCHANGED <<cache, firstScanDone, owner, req, alerted>>
    BY <1>6 DEF ReadDiff, ReadDiffFails, At, history
  <2>4. \A w \in Worktree : Accounted(w) => Accounted(w)'
    BY <2>2, <2>3 DEF Accounted
  <2>5. Shows(c, scan.target)
    BY <2>1 DEF HitInv, HitsNow, Shows
  <2>6. QED
    BY <1>1, <2>2, <2>3, <2>4, <2>5
       DEF HitInv, Standing, Shows, NoReplay, Hits
<1>7. CASE WriteCache
  <2> DEFINE m == [diff |-> scan.diff, branch |-> scan.branch]
             prev == IF cache[scan.target] = None THEN {}
                     ELSE Hits(cache[scan.target].diff)
  <2>1. /\ scan.phase = "cache" /\ scan.target \in Worktree
        /\ cache' = [cache EXCEPT ![scan.target] = m]
        /\ scan' = [scan EXCEPT !.phase = "prune",
                                !.fresh = Hits(scan.diff) \ prev]
        /\ UNCHANGED <<firstScanDone, owner, req, alerted>>
    BY <1>7 DEF WriteCache, At, history, TInv, ScanShape, Targeted, Phases
  <2>2. m \in Meta /\ m.diff = scan.diff
    BY <1>1, <2>1 DEF TInv, ScanShape, Refreshing, Frame, Meta
  <2> HIDE DEF m
  <2>3. \A w \in Worktree : cache'[w] = IF w = scan.target THEN m ELSE cache[w]
    BY <2>1 DEF TInv, TypeOK
  <2>4. /\ scan'.phase = "prune" /\ scan'.todo = scan.todo
        /\ scan'.repos = scan.repos /\ scan'.seen = scan.seen
        /\ scan'.target = scan.target /\ scan'.fresh = Hits(scan.diff) \ prev
    BY <1>1, <2>1 DEF Frame
  <2>5. \A w \in Worktree : Accounted(w) => Accounted(w)'
    BY <2>1, <2>2, <2>3, <2>4 DEF Accounted
  <2>6. Shows(scan.diff, scan.target)
    BY <2>1 DEF HitInv
  <2>7. \A w \in Worktree : cache'[w] # None => Shows(cache'[w].diff, w)
    BY <2>2, <2>3, <2>6 DEF HitInv
  <2>8. firstScanDone => \A f \in Hits(scan.diff) \ prev :
                           <<scan.target, f>> \notin standing
    BY <2>1 DEF HitInv, Standing, Shows, Hits
  <2> HIDE DEF prev
  <2>9. firstScanDone => \A w \in Worktree : Standing(w) => cache'[w] # None
    BY <2>2, <2>3 DEF HitInv
  <2>10. QED
    BY <1>1, <2>1, <2>4, <2>5, <2>7, <2>8, <2>9
       DEF HitInv, Standing, Shows, NoReplay, Hits
<1>8. CASE PrunePublish \/ Build
  <2>1. /\ scan.phase \in {"prune", "build"}
        /\ scan'.phase \in {"build", "upsert"} /\ scan'.todo = scan.todo
        /\ scan'.repos = scan.repos /\ scan'.seen = scan.seen
    BY <1>1, <1>8 DEF PrunePublish, Build, At, Goto, Frame
  <2>2. UNCHANGED <<cache, firstScanDone, owner, req>>
    BY <1>8 DEF PrunePublish, Build
  <2>3. \A w \in Worktree : Accounted(w) => Accounted(w)'
    BY <2>1, <2>2 DEF Accounted
  <2>4. NoReplay'
    <3>1. CASE Build
      BY <1>1, <3>1 DEF Build, history, HitInv, NoReplay
    <3>2. CASE PrunePublish
      BY <1>1, <3>2 DEF PrunePublish, At, HitInv, NoReplay
    <3>3. QED  BY <1>8, <3>1, <3>2
  <2>5. QED
    BY <1>1, <2>1, <2>2, <2>3, <2>4 DEF HitInv, Standing, Shows, Hits
<1>9. CASE Upsert
  <2>1. req[owner].op \in Ops /\ UNCHANGED <<cache, firstScanDone, alerted>>
        /\ scan.phase = "upsert"
    BY <1>1, <1>9 DEF Upsert, At, TInv, TypeOK, ScanShape, Request
  <2>2. CASE req[owner].op = "one"
    <3>1. Release
      BY <1>9, <2>2 DEF Upsert
    <3>2. QED
      BY <1>1, <2>1, <3>1
         DEF Release, NoFrame, HitInv, Standing, Shows, NoReplay, Hits
  <2>3. CASE req[owner].op = "full"
    <3>1. scan' = [NoFrame EXCEPT !.phase = "list", !.repos = scan.repos,
                                  !.todo = scan.todo, !.seen = scan.seen]
          /\ UNCHANGED <<owner, req>>
      BY <1>9, <2>3 DEF Upsert
    <3>2. /\ scan'.phase = "list" /\ scan'.todo = scan.todo
          /\ scan'.repos = scan.repos /\ scan'.seen = scan.seen
      BY <3>1 DEF NoFrame
    <3>3. \A w \in Worktree : Accounted(w) => Accounted(w)'
      BY <2>1, <3>2 DEF Accounted
    <3>4. QED
      BY <1>1, <2>1, <3>1, <3>2, <3>3
         DEF HitInv, Standing, Shows, NoReplay, Hits
  <2>4. CASE req[owner].op = "approve"
    <3>1. scan' = [NoFrame EXCEPT !.phase = "reviewed", !.target = scan.target]
          /\ UNCHANGED <<owner, req>>
      BY <1>9, <2>4 DEF Upsert
    <3>2. scan'.phase = "reviewed"
      BY <3>1 DEF NoFrame
    <3>3. QED
      BY <1>1, <2>1, <2>4, <3>1, <3>2
         DEF HitInv, Standing, Shows, NoReplay, Hits
  <2>5. QED  BY <2>1, <2>2, <2>3, <2>4 DEF Ops
<1>10. CASE Sweep
  <2>1. /\ scan.phase = "list" /\ scan.todo = {} /\ scan.repos = {}
        /\ Release /\ UNCHANGED alerted
        /\ \A w \in Worktree : cache'[w] = cache[w] \/ w \notin scan.seen
        /\ \A w \in Worktree : cache'[w] = cache[w] \/ cache'[w] = None
    BY <1>10 DEF Sweep, At
  <2>2. req[owner].op = "full"
    BY <1>1, <2>1 DEF TInv, ScanShape
  <2>3. \A w \in Worktree : Standing(w) => w \in scan.seen /\ cache[w] # None
    BY <1>1, <2>1, <2>2 DEF HitInv, Accounted
  <2>4. \A w \in Worktree : Standing(w) => cache'[w] # None
    BY <2>1, <2>3
  <2>5. \A w \in Worktree : cache'[w] # None => Shows(cache'[w].diff, w)
    BY <2>1 DEF HitInv
  <2>6. scan'.phase = "free" /\ owner' = None
    BY <2>1 DEF Release, NoFrame
  <2>7. QED
    BY <1>1, <2>1, <2>4, <2>5, <2>6
       DEF HitInv, Standing, Shows, NoReplay, Hits
<1>11. CASE Abandon
  <2>1. Release /\ UNCHANGED <<cache, firstScanDone, alerted>>
    BY <1>11 DEF Abandon
  <2>2. scan'.phase = "free" /\ owner' = None
    BY <2>1 DEF Release, NoFrame
  <2>3. QED
    BY <1>1, <2>1, <2>2 DEF HitInv, Standing, Shows, NoReplay, Hits
<1>12. ASSUME NEW r \in Repo, ListFails(r)
       PROVE  FALSE
  BY <1>12 DEF ListFails, NoReplayAssumption
<1>13. QED
  BY <1>2, <1>3, <1>4, <1>5, <1>6, <1>7, <1>8, <1>9, <1>10, <1>11, <1>12
     DEF RefreshStep

LEMMA ApproveHit ==
  ASSUME TInv, HomeInv, HitInv, NoReplayAssumption, ApproveStep
  PROVE  HitInv'
<1> USE EngineAssumption
<1>1. /\ owner # None /\ scan \in Frame /\ scan.phase \in Gates
      /\ scan.target \in Worktree /\ req[owner].op = "approve"
  BY DEF ApproveStep, GateReviewed, GateClean, FindBase, Merge, RemoveWorktree,
         ClearWorktree, ClearFails, Forget, Refuse, At, TInv, TypeOK, ScanShape,
         Targeted, Phases, Gates
<1>2. standing' \subseteq standing /\ standing' \subseteq HitsNow(live', work')
      /\ UNCHANGED <<firstScanDone, alerted>>
  <2>1. CASE Merge
    BY <2>1 DEF Merge
  <2>2. CASE RemoveWorktree
    BY <2>2 DEF RemoveWorktree
  <2>3. CASE ~ (Merge \/ RemoveWorktree)
    BY <2>3 DEF ApproveStep, GateReviewed, GateClean, FindBase, ClearWorktree,
                ClearFails, Forget, Refuse, git, history, HitInv, HitsNow
  <2>4. QED  BY <2>1, <2>2, <2>3
<1>3. CASE Refuse
  <2>1. Release /\ UNCHANGED cache
    BY <1>3 DEF Refuse
  <2>2. scan'.phase = "free" /\ owner' = None
    BY <2>1 DEF Release, NoFrame
  <2>3. QED
    BY <1>2, <2>1, <2>2 DEF HitInv, Standing, Shows, NoReplay, Hits
<1>4. CASE Forget
  <2>1. Release /\ scan.phase = "forget"
        /\ cache' = [cache EXCEPT ![scan.target] = None]
    BY <1>4 DEF Forget, At
  <2>2. scan'.phase = "free" /\ owner' = None
    BY <2>1 DEF Release, NoFrame
  <2>3. \A w \in Worktree : cache'[w] = IF w = scan.target THEN None
                                                            ELSE cache[w]
    BY <2>1 DEF TInv, TypeOK
  <2>4. ~ Standing(scan.target)
    BY <2>1 DEF HitInv
  <2>5. QED
    BY <1>2, <2>2, <2>3, <2>4 DEF HitInv, Standing, Shows, NoReplay, Hits
<1>5. ASSUME NEW ph \in {"clean", "base", "merge", "remove", "clear", "forget"},
             scan'.phase = ph, scan'.target = scan.target,
             UNCHANGED <<cache, owner, req>>,
             ph \in {"merge", "remove"} => scan.target \in Editable,
             ph \in {"clear", "forget"} => ~ Standing(scan.target)'
      PROVE  HitInv'
  BY <1>1, <1>2, <1>5 DEF HitInv, Standing, Shows, NoReplay, Hits
<1>6. CASE GateReviewed \/ GateClean
  <2>1. scan'.phase \in {"clean", "base"} /\ scan'.target = scan.target
        /\ UNCHANGED <<cache, owner, req>>
    BY <1>1, <1>6 DEF GateReviewed, GateClean, Goto, Frame
  <2>2. QED  BY <1>5, <2>1
<1>7. CASE FindBase
  <2>1. PICK v \in live \ {scan.target} :
          /\ RepoOf[v] = RepoOf[scan.target]
          /\ branch[v] = Base
          /\ scan' = [scan EXCEPT !.phase = "merge", !.into = v]
    BY <1>7 DEF FindBase
  <2>2. scan'.phase = "merge" /\ scan'.target = scan.target
    BY <1>1, <2>1 DEF Frame
  <2>3. scan.target \in Editable
    BY <1>1, <2>1 DEF HomeInv
  <2>4. UNCHANGED <<cache, owner, req>>
    BY <1>7 DEF FindBase
  <2>5. QED  BY <1>5, <2>2, <2>3, <2>4
<1>8. CASE Merge
  <2>1. scan' = [scan EXCEPT !.phase = "remove"] /\ scan.phase = "merge"
        /\ UNCHANGED <<cache, owner, req>>
    BY <1>8 DEF Merge, Goto, At
  <2>2. scan'.phase = "remove" /\ scan'.target = scan.target
    BY <1>1, <2>1 DEF Frame
  <2>3. QED  BY <1>5, <2>1, <2>2 DEF HitInv
<1>9. CASE RemoveWorktree
  <2>1. scan' = [scan EXCEPT !.phase = "clear"] /\ scan.phase = "remove"
        /\ UNCHANGED <<cache, owner, req>>
    BY <1>9 DEF RemoveWorktree, Goto, At
  <2>2. scan'.phase = "clear" /\ scan'.target = scan.target
    BY <1>1, <2>1 DEF Frame
  <2>3. scan.target \in Editable
    BY <2>1 DEF HitInv
  <2>4. scan.target \notin live'
    BY <1>9, <2>3 DEF RemoveWorktree, NoReplayAssumption
  <2>5. ~ Standing(scan.target)'
    BY <1>2, <2>2, <2>4 DEF Standing, HitsNow
  <2>6. QED  BY <1>5, <2>1, <2>2, <2>5
<1>10. CASE ClearWorktree \/ ClearFails
  <2>1. scan' = [scan EXCEPT !.phase = "forget"] /\ scan.phase = "clear"
        /\ UNCHANGED <<cache, owner, req>>
    BY <1>10 DEF ClearWorktree, ClearFails, Goto, At
  <2>2. scan'.phase = "forget" /\ scan'.target = scan.target
    BY <1>1, <2>1 DEF Frame
  <2>3. ~ Standing(scan.target)'
    BY <1>2, <2>1, <2>2 DEF HitInv, Standing
  <2>4. QED  BY <1>5, <2>1, <2>2, <2>3
<1>11. QED
  BY <1>3, <1>4, <1>6, <1>7, <1>8, <1>9, <1>10 DEF ApproveStep

LEMMA NextHit ==
  ASSUME TInv, HomeInv, HitInv, NoReplayAssumption, [Next]_vars
  PROVE  HitInv'
<1>1. CASE UNCHANGED vars
  BY <1>1, HitAlone DEF vars, git, memory, history, HitInv, HitsNow
<1>2. CASE Agent
  <2>1. GitMoves
    BY <1>2 DEF Agent, AgentEdit, AgentCommit, Checkout, AddWorktree,
                DropWorktree
  <2>2. QED  BY <2>1, HitAlone DEF GitMoves, memory
<1>3. CASE User
  <2>1. UNCHANGED <<git, cache, scan, owner, firstScanDone, standing, alerted>>
    BY <1>3 DEF User, CallRefresh, CallRefreshOne, CallApprove, Call, View,
                Post, PostFails, history
  <2>2. owner # None => req'[owner] = req[owner]
    <3>1. owner # None => req[owner] # None
      BY DEF TInv, ScanShape
    <3>2. ASSUME NEW p \in Caller, NEW op, NEW v, Call(p, op, v)
          PROVE  owner # None => req'[owner] = req[owner]
      BY <3>1, <3>2 DEF Call, TInv, TypeOK
    <3>3. QED
      BY <1>3, <3>2 DEF User, CallRefresh, CallRefreshOne, CallApprove, View,
                        Post, PostFails
  <2>3. QED  BY <2>1, <2>2, HitAlone DEF git, HitInv, HitsNow
<1>4. CASE \E p \in Caller : Acquire(p)
  <2>1. PICK p \in Caller : Acquire(p)
    BY <1>4
  <2>2. scan = NoFrame /\ owner = None
        /\ UNCHANGED <<git, cache, firstScanDone, standing, alerted>>
    BY <2>1 DEF Acquire, TInv, ScanShape, history
  <2>3. \/ scan'.phase = "discover"
        \/ /\ scan'.phase = "branch" /\ owner' = p
           /\ req' = req /\ req[p].op # "full"
        \/ scan'.phase = "free" /\ owner' = None
    <3>1. CASE Goto("discover")
      BY <2>2, <3>1 DEF Goto, NoFrame
    <3>2. CASE /\ scan' = [scan EXCEPT !.phase = "branch", !.target = req[p].wt]
               /\ owner' = p /\ req' = req /\ req[p].op # "full"
      BY <2>2, <3>2 DEF NoFrame
    <3>3. CASE UNCHANGED <<owner, scan>>
      BY <2>2, <3>3 DEF NoFrame
    <3>4. QED  BY <2>1, <3>1, <3>2, <3>3 DEF Acquire
  <2>4. QED
    BY <2>2, <2>3 DEF HitInv, Standing, Shows, NoReplay, Hits, git, HitsNow
<1>5. CASE RefreshStep
  BY <1>5, RefreshHit
<1>6. CASE ApproveStep
  BY <1>6, ApproveHit
<1>7. CASE \E r \in Reviewer : ReviewStep(r)
  BY <1>7, HitAlone
     DEF ReviewStep, StoreMark, GetRow, PutRow, git, history, HitInv, HitsNow
<1>8. CASE Restart
  <2>1. /\ \A w \in Worktree : cache'[w] = None
        /\ scan'.phase = "free" /\ owner' = None /\ firstScanDone' = FALSE
        /\ standing' = HitsNow(live', work') /\ alerted' = {}
    BY <1>8 DEF Restart, NoFrame, git, HitsNow
  <2>2. QED  BY <2>1 DEF HitInv, NoReplay
<1>9. QED  BY <1>1, <1>2, <1>3, <1>4, <1>5, <1>6, <1>7, <1>8 DEF Next

(* A hit that has been there since before the daemon started is never      *)
(* published as new, whatever scans are cut short, restarted or overtaken  *)
(* by targeted refreshes and approves.  Each fault left out refutes it: an *)
(* empty diff read in an error's place, a repository that the sweep        *)
(* forgets because it could not be listed, and a worktree that an approve  *)
(* forgets without having removed it, make an old hit look new.  That main *)
(* worktrees stay on base keeps them from being approved.                  *)
THEOREM NoReplaySound ==
  ASSUME NoReplayAssumption
  PROVE  Spec => []NoReplay
<1> DEFINE RInv == TInv /\ HomeInv /\ HitInv
<1>1. Init => RInv
  <2>1. Init => HomeInv
    BY EngineAssumption DEF Init, GitInit, HomeInv
  <2>2. Init => HitInv
    BY DEF Init, NoFrame, HitInv, NoReplay
  <2>3. QED  BY <2>1, <2>2, InitTInv
<1>2. RInv /\ [Next]_vars => RInv'
  BY NextTInv, NextHome, NextHit
<1>3. RInv => NoReplay
  BY DEF HitInv
<1>4. QED  BY <1>1, <1>2, <1>3, PTL DEF Spec
=============================================================================
