--------------------------- MODULE WatcherProofs ---------------------------
(***************************************************************************)
(* Proofs about Watcher, for every set of worktrees, every tree of         *)
(* directories and every cap: the types, the count of the watches, and     *)
(* that a watcher with nothing left to handle watches every directory.     *)
(***************************************************************************)
EXTENDS Watcher, FiniteSetTheorems, TLAPS

\* d and what d lies in.
Above(d) == {a \in Dir : \A S \in SUBSET Dir :
                d \in S /\ (\A e \in S \cap Sub : Parent[e] \in S) => a \in S}

Made(e, d) == e.op = "create" /\ e.name = d
Lost(e, d) == e.op = "remove" /\ e.name = d

-----------------------------------------------------------------------------
(* The types.                                                              *)

\* Events with a name are about a directory, and come from the one it is in.
Events ==
    /\ queue \in Seq(Event)
    /\ \A n \in DOMAIN queue : queue[n].name # None =>
          /\ queue[n].op \in {"create", "remove"}
          /\ queue[n].in = Work(Parent[queue[n].name])

Tree == \A d \in dirs : Parent[d] \in live \cup dirs

Unknown == {w \in Worktree : dirCount[w] = None}

\* Only the walk has directories ahead of it, all of one worktree.
LoopOK ==
    /\ loop.at # "walk" \/ loop.walk = None => loop.seen = {} /\ loop.reading = None
    /\ loop.at = "walk" => loop.walk # None \/ loop.key # None
    /\ loop.at # "walk" => loop.walk = None
    /\ loop.at = "list" => loop.key # None
    /\ \A d \in loop.seen : Owner[d] = loop.walk
    /\ loop.reading # None => Owner[loop.reading] = loop.walk
    /\ loop.at = "walk" => loop.new \subseteq Unknown

WTypes ==
    /\ TypeOK /\ Events /\ Tree /\ LoopOK
    /\ IsFiniteSet(watched)
    /\ \A w \in Unknown : watched \cap Places(w) = {}

LEMMA ConstantTypes ==
    /\ Worktree \cap Sub = {} /\ Dir = Worktree \cup Sub
    /\ Parent \in [Sub -> Dir] /\ Owner \in [Dir -> Worktree]
    /\ \A w \in Worktree : w \in Dir /\ Owner[w] = w
    /\ \A d \in Sub : d \in Dir /\ Owner[d] = Owner[Parent[d]]
    /\ None \notin Dir /\ None \notin Nat /\ None \notin Worktree /\ None \notin Sub
    /\ Global \in Key /\ Worktree \subseteq Key /\ None \notin Key
    /\ Cap \in Nat /\ MaxChanges \in Nat /\ MaxTroubles \in Nat
    BY WatcherAssumption DEF Dir, Key

\* What the names of the places tell apart.
LEMMA PlaceFacts ==
    /\ Admin \in Place
    /\ \A w \in Worktree : Git(w) \in Places(w) /\ Git(w) \in Place /\ Git(w) # Admin
    /\ \A d \in Dir : Work(d) \in Places(Owner[d]) /\ Work(d) \in Place /\ Work(d) # Admin
    /\ \A d, e \in Dir : Work(d) = Work(e) => d = e
    /\ \A v, w \in Worktree : Git(v) = Git(w) => v = w
    /\ \A d \in Dir, w \in Worktree : Work(d) # Git(w)
    /\ \A v, w \in Worktree : v # w => Places(v) \cap Places(w) = {}
    /\ \A w \in Worktree : Admin \notin Places(w)
    /\ \A w \in Worktree : \A p \in Places(w) :
          p \in Place /\ (p = Git(w) \/ \E d \in Dir : Owner[d] = w /\ p = Work(d))
<1> USE ConstantTypes
<1>1. \A x, y : Work(x) = Work(y) => x = y
  BY DEF Work
<1>2. \A x, y : Git(x) = Git(y) => x = y
  BY DEF Git
<1>3. \A x, y : Work(x) # Git(y) /\ Work(x) # Admin /\ Git(y) # Admin
  BY DEF Work, Git, Admin
<1>4. \A w \in Worktree : \A p : p \in Places(w) <=>
          p = Git(w) \/ \E d \in Dir : Owner[d] = w /\ p = Work(d)
  BY DEF Places
<1>5. Admin \in Place /\ \A w \in Worktree : \A p \in Places(w) : p \in Place
  BY DEF Place
<1>6. \A d \in Dir : Owner[d] \in Worktree
  OBVIOUS
<1>7. \A v, w \in Worktree : v # w => Places(v) \cap Places(w) = {}
  <2> SUFFICES ASSUME NEW v \in Worktree, NEW w \in Worktree, v # w,
                      NEW p \in Places(v), p \in Places(w)
               PROVE  FALSE
    OBVIOUS
  <2>1. CASE p = Git(v)
    BY <1>2, <1>3, <1>4, <2>1
  <2>2. CASE \E d \in Dir : Owner[d] = v /\ p = Work(d)
    BY <1>1, <1>3, <1>4, <2>2
  <2> QED BY <1>4, <2>1, <2>2
<1>8. \A w \in Worktree : Admin \notin Places(w)
  BY <1>3, <1>4
<1>9. \A d \in Dir : Work(d) \in Places(Owner[d])
  BY <1>4, <1>6
<1>10. \A w \in Worktree : Git(w) \in Places(w)
  BY <1>4
<1> HIDE DEF Admin
<1> QED BY <1>1, <1>2, <1>3, <1>4, <1>5, <1>6, <1>7, <1>8, <1>9, <1>10

LEMMA OwnerFacts ==
    /\ \A d \in Dir : OwnerOf(Work(d)) = Owner[d]
    BY PlaceFacts, ConstantTypes DEF OwnerOf, Work

LEMMA ExistsFacts ==
    /\ Exists(Admin) <=> admin
    /\ \A w : Exists(Git(w)) <=> w \in live
    /\ \A d : Exists(Work(d)) <=> d \in live \cup dirs
    BY DEF Exists, Admin, Git, Work

\* The same of the next state.
LEMMA ExistsNext ==
    /\ Exists(Admin)' <=> admin'
    /\ \A w : Exists(Git(w))' <=> w \in live'
    /\ \A d : Exists(Work(d))' <=> d \in live' \cup dirs'
    BY DEF Exists, Admin, Git, Work

-----------------------------------------------------------------------------
(* The queue and the loop.                                                 *)

\* q is queue with one event more at its end.
Heard(q, op, p, n) ==
    /\ DOMAIN queue = 1 .. Len(queue) /\ Len(queue) \in Nat
    /\ DOMAIN q = 1 .. Len(queue) + 1
    /\ \A m \in DOMAIN queue : q[m] = queue[m]
    /\ q[Len(queue) + 1] = [op |-> op, in |-> p, name |-> n]

LEMMA HearFacts ==
    ASSUME Events, NEW op \in {"create", "remove", "write"}, NEW p \in Place,
           NEW n \in Sub \cup {None},
           n # None => op \in {"create", "remove"} /\ p = Work(Parent[n]),
           queue' = Hear(op, p, n)
    PROVE  /\ Events' /\ (\A m \in DOMAIN queue' : queue'[m] \in Event)
           /\ p \notin kernel => queue' = queue
           /\ p \in kernel => Heard(queue', op, p, n)
<1>1. queue \in Seq(Event) /\ \A m \in DOMAIN queue : queue[m] \in Event
  BY DEF Events
<1>2. CASE p \notin kernel
  BY <1>1, <1>2 DEF Hear, Events
<1>3. CASE p \in kernel
  <2> DEFINE e == [op |-> op, in |-> p, name |-> n]
  <2>1. e \in Event /\ e.op = op /\ e.in = p /\ e.name = n
    BY DEF Event
  <2> HIDE DEF e
  <2>2. queue' = Append(queue, e)
    BY <1>3 DEF Hear, e
  <2>3. /\ queue' \in Seq(Event)
        /\ DOMAIN queue = 1 .. Len(queue) /\ Len(queue) \in Nat
        /\ DOMAIN queue' = 1 .. Len(queue) + 1
        /\ \A m \in DOMAIN queue : queue'[m] = queue[m]
        /\ queue'[Len(queue) + 1] = e
    BY <1>1, <2>1, <2>2
  <2>4. \A m \in DOMAIN queue' : m \in DOMAIN queue \/ m = Len(queue) + 1
    BY <2>3
  <2>5. Events'
    BY <2>1, <2>3, <2>4 DEF Events
  <2>6. Heard(queue', op, p, n)
    BY <2>3 DEF Heard, e
  <2> QED BY <1>3, <2>3, <2>5, <2>6
<1> QED BY <1>2, <1>3

\* The head of the queue, and the events behind it.
LEMMA TailFacts ==
    ASSUME Events, queue # <<>>, queue' = Tail(queue)
    PROVE  /\ Events' /\ (\A m \in DOMAIN queue' : queue'[m] \in Event)
           /\ 1 \in DOMAIN queue /\ queue[1] = Head(queue) /\ Head(queue) \in Event
           /\ DOMAIN queue \subseteq Nat \ {0}
           /\ \A m \in DOMAIN queue' : m + 1 \in DOMAIN queue /\ queue'[m] = queue[m + 1]
           /\ \A m \in DOMAIN queue : m # 1 => m - 1 \in DOMAIN queue' /\ queue'[m - 1] = queue[m]
<1>1. queue \in Seq(Event)
  BY DEF Events
<1>2. /\ queue' \in Seq(Event) /\ Len(queue) \in Nat /\ Len(queue) >= 1
      /\ DOMAIN queue = 1 .. Len(queue) /\ DOMAIN queue' = 1 .. Len(queue) - 1
      /\ Head(queue) = queue[1] /\ Head(queue) \in Event
      /\ \A m \in 1 .. Len(queue) - 1 : queue'[m] = queue[m + 1]
  BY <1>1
<1>3. \A m \in DOMAIN queue' : m + 1 \in DOMAIN queue /\ queue'[m] = queue[m + 1]
  BY <1>2
<1>4. \A m \in DOMAIN queue : m # 1 => m - 1 \in DOMAIN queue' /\ queue'[m - 1] = queue[m]
  BY <1>2
<1>5. Events'
  BY <1>2, <1>3 DEF Events
<1>6. \A m \in DOMAIN queue' : queue'[m] \in Event
  BY <1>2
<1> QED BY <1>2, <1>3, <1>4, <1>5, <1>6

LEMMA IdleFacts ==
    /\ Idle \in Loop /\ Reconcile \in Loop
    /\ Idle.at = "select" /\ Reconcile.at = "list"
    /\ Idle.key = None /\ Reconcile.key = Global
    /\ Idle.walk = None /\ Idle.seen = {} /\ Idle.reading = None /\ Idle.new = {}
    /\ Reconcile.walk = None /\ Reconcile.seen = {} /\ Reconcile.reading = None
    /\ Reconcile.new = {}
    /\ \A k \in Key : LET c == [Idle EXCEPT !.at = "call", !.key = k] IN
          /\ c \in Loop /\ c.at = "call" /\ c.key = k
          /\ c.walk = None /\ c.seen = {} /\ c.reading = None /\ c.new = {}
    /\ \A w \in Worktree, d \in Dir :
          LET c == [Idle EXCEPT !.at = "walk", !.walk = w, !.seen = {d}] IN
          /\ c \in Loop /\ c.at = "walk" /\ c.key = None
          /\ c.walk = w /\ c.seen = {d} /\ c.reading = None /\ c.new = {}
    BY ConstantTypes DEF Idle, Reconcile, Loop

\* The loop does not walk.
LEMMA LoopRests ==
    ASSUME loop' \in Loop, loop'.at # "walk", loop'.seen = {}, loop'.reading = None,
           loop'.walk = None, loop'.at = "list" => loop'.key # None
    PROVE  LoopOK'
    BY DEF LoopOK

-----------------------------------------------------------------------------
(* Every step keeps the types.                                             *)

\* The watcher does nothing.
LEMMA AgentTypes ==
    ASSUME WTypes, UNCHANGED <<session, debounce, loop>>,
           Events', \A m \in DOMAIN queue' : queue'[m] \in Event, Tree',
           live' \subseteq Worktree, dirs' \subseteq Sub, admin' \in BOOLEAN,
           kernel' \subseteq kernel, \A p \in kernel' : Exists(p)',
           dirty' \subseteq Worktree, owed' \subseteq Worktree, excused' \subseteq Worktree,
           Changing, UNCHANGED troubles
    PROVE  WTypes'
<1>1. changes' \in 0 .. MaxChanges /\ troubles' \in 0 .. MaxTroubles
  BY ConstantTypes DEF WTypes, TypeOK, Changing, Within
<1>2. TypeOK'
  BY <1>1 DEF WTypes, TypeOK, session, debounce
<1>3. LoopOK' /\ Unknown' = Unknown
  BY DEF WTypes, LoopOK, Unknown, session
<1> QED BY <1>2, <1>3 DEF WTypes, session, Places

LEMMA MkdirTypes ==
    ASSUME WTypes, NEW d \in Sub, Mkdir(d)
    PROVE  /\ WTypes'
           /\ Work(Parent[d]) \notin kernel => queue' = queue
           /\ Work(Parent[d]) \in kernel => Heard(queue', "create", Work(Parent[d]), d)
<1>1. /\ Changing /\ d \in Sub \ dirs /\ Parent[d] \in live \cup dirs
      /\ dirs' = dirs \cup {d} /\ queue' = Hear("create", Work(Parent[d]), d)
      /\ UNCHANGED <<live, admin, kernel, session, debounce, loop, history, troubles>>
  BY DEF Mkdir
<1>2. Work(Parent[d]) \in Place
  BY PlaceFacts, ConstantTypes
<1>3. /\ Events' /\ (\A m \in DOMAIN queue' : queue'[m] \in Event)
      /\ Work(Parent[d]) \notin kernel => queue' = queue
      /\ Work(Parent[d]) \in kernel => Heard(queue', "create", Work(Parent[d]), d)
  BY <1>1, <1>2, HearFacts, ConstantTypes DEF WTypes
<1>4. Tree'
  BY <1>1 DEF WTypes, Tree
<1>5. \A p \in kernel : Exists(p)'
  BY <1>1 DEF WTypes, TypeOK, Exists
<1> QED BY <1>1, <1>3, <1>4, <1>5, AgentTypes DEF WTypes, TypeOK, history

LEMMA RmdirTypes ==
    ASSUME WTypes, NEW d \in Sub, Rmdir(d)
    PROVE  /\ WTypes'
           /\ Work(Parent[d]) \notin kernel => queue' = queue
           /\ Work(Parent[d]) \in kernel => Heard(queue', "remove", Work(Parent[d]), d)
<1>1. /\ Changing /\ d \in dirs /\ (\A e \in dirs : Parent[e] # d)
      /\ dirs' = dirs \ {d} /\ queue' = Hear("remove", Work(Parent[d]), d)
      /\ kernel' = kernel \ {Work(d)}
      /\ excused' = IF Work(d) \in kernel /\ Work(Parent[d]) \notin kernel
                    THEN excused \cup {Owner[d]} ELSE excused
      /\ UNCHANGED <<live, admin, session, debounce, loop, dirty, owed, troubles>>
  BY DEF Rmdir
<1>2. Work(Parent[d]) \in Place
  BY PlaceFacts, ConstantTypes
<1>3. /\ Events' /\ (\A m \in DOMAIN queue' : queue'[m] \in Event)
      /\ Work(Parent[d]) \notin kernel => queue' = queue
      /\ Work(Parent[d]) \in kernel => Heard(queue', "remove", Work(Parent[d]), d)
  BY <1>1, <1>2, HearFacts, ConstantTypes DEF WTypes
<1>4. Tree'
  BY <1>1 DEF WTypes, Tree
<1>5. \A p \in kernel' : Exists(p)'
  <2> SUFFICES ASSUME NEW p \in kernel' PROVE Exists(p)'
    OBVIOUS
  <2>1. p \in kernel /\ p # Work(d) /\ Exists(p) /\ p \in Place
    BY <1>1 DEF WTypes, TypeOK
  <2>2. CASE p = Admin
    BY <1>1, <2>1, <2>2, ExistsFacts, ExistsNext
  <2>3. ASSUME NEW v \in Worktree, p = Git(v) PROVE Exists(p)'
    BY <1>1, <2>1, <2>3, ExistsFacts, ExistsNext
  <2>4. ASSUME NEW e \in Dir, p = Work(e) PROVE Exists(p)'
    BY <1>1, <2>1, <2>4, ExistsFacts, ExistsNext
  <2>5. p = Admin \/ \E v \in Worktree : p \in Places(v)
    BY <2>1 DEF Place
  <2> QED BY <2>2, <2>3, <2>4, <2>5, PlaceFacts
<1>6. excused' \subseteq Worktree
  BY <1>1, ConstantTypes DEF WTypes, TypeOK
<1> QED BY <1>1, <1>3, <1>4, <1>5, <1>6, AgentTypes DEF WTypes, TypeOK

LEMMA ChangeTypes ==
    ASSUME WTypes, NEW w \in Worktree, NEW p \in Places(w), Change(p, w)
    PROVE  /\ WTypes'
           /\ p \notin kernel => queue' = queue
           /\ p \in kernel => Heard(queue', "write", p, None)
<1>1. /\ Changing
      /\ dirty' = dirty \cup {w} /\ owed' = owed \cup Listening(p, w)
      /\ queue' = Hear("write", p, None)
      /\ UNCHANGED <<disk, kernel, session, debounce, loop, excused, troubles>>
  BY DEF Change
<1>2. p \in Place
  BY PlaceFacts
<1>3. /\ Events' /\ (\A m \in DOMAIN queue' : queue'[m] \in Event)
      /\ p \notin kernel => queue' = queue
      /\ p \in kernel => Heard(queue', "write", p, None)
  BY <1>1, <1>2, HearFacts DEF WTypes
<1>4. Tree' /\ \A x \in kernel : Exists(x)'
  BY <1>1 DEF WTypes, TypeOK, Tree, Exists, disk
<1>5. dirty' \subseteq Worktree /\ owed' \subseteq Worktree
  BY <1>1 DEF WTypes, TypeOK, Listening
<1> QED BY <1>1, <1>3, <1>4, <1>5, AgentTypes DEF WTypes, TypeOK, disk

LEMMA AddWorktreeTypes ==
    ASSUME WTypes, NEW w \in Worktree, AddWorktree(w)
    PROVE  /\ WTypes'
           /\ Admin \notin kernel => queue' = queue
           /\ Admin \in kernel => Heard(queue', "create", Admin, None)
<1>1. /\ Changing /\ w \notin live /\ live' = live \cup {w} /\ admin' = TRUE
      /\ queue' = Hear("create", Admin, None)
      /\ dirty' = dirty \cup {w}
      /\ excused' = IF dirCount[w] # None \/ Stale(w) \/ loop.walk = w
                    THEN excused \cup {w} ELSE excused
      /\ UNCHANGED <<dirs, kernel, session, debounce, loop, owed, troubles>>
  BY DEF AddWorktree
<1>2. /\ Events' /\ (\A m \in DOMAIN queue' : queue'[m] \in Event)
      /\ Admin \notin kernel => queue' = queue
      /\ Admin \in kernel => Heard(queue', "create", Admin, None)
  BY <1>1, HearFacts, PlaceFacts DEF WTypes
<1>3. Tree' /\ \A x \in kernel : Exists(x)'
  BY <1>1 DEF WTypes, TypeOK, Tree, Exists
<1>4. dirty' \subseteq Worktree /\ excused' \subseteq Worktree /\ live' \subseteq Worktree
  BY <1>1 DEF WTypes, TypeOK
<1> QED BY <1>1, <1>2, <1>3, <1>4, AgentTypes DEF WTypes, TypeOK

LEMMA RemoveWorktreeTypes ==
    ASSUME WTypes, NEW w \in Worktree, RemoveWorktree(w)
    PROVE  /\ WTypes'
           /\ Admin \notin kernel => queue' = queue
           /\ Admin \in kernel => Heard(queue', "remove", Admin, None)
<1>1. /\ Changing /\ w \in live /\ (\A d \in dirs : Owner[d] # w)
      /\ live' = live \ {w} /\ admin' = (live' # {})
      /\ queue' = Hear("remove", Admin, None)
      /\ kernel' = kernel \ ({Git(w), Work(w)} \cup (IF admin' THEN {} ELSE {Admin}))
      /\ dirty' = dirty \ {w} /\ owed' = owed \ {w}
      /\ UNCHANGED <<dirs, session, debounce, loop, excused, troubles>>
  BY DEF RemoveWorktree
<1>2. /\ Events' /\ (\A m \in DOMAIN queue' : queue'[m] \in Event)
      /\ Admin \notin kernel => queue' = queue
      /\ Admin \in kernel => Heard(queue', "remove", Admin, None)
  BY <1>1, HearFacts, PlaceFacts DEF WTypes
<1>3. Tree'
  <2> SUFFICES ASSUME NEW d \in dirs PROVE Parent[d] # w
    BY <1>1 DEF WTypes, Tree
  <2> QED BY <1>1, ConstantTypes DEF WTypes, TypeOK
<1>4. \A p \in kernel' : Exists(p)'
  <2> SUFFICES ASSUME NEW p \in kernel' PROVE Exists(p)'
    OBVIOUS
  <2>1. p \in kernel /\ p # Git(w) /\ p # Work(w) /\ Exists(p) /\ p \in Place
    BY <1>1 DEF WTypes, TypeOK
  <2>2. CASE p = Admin
    BY <1>1, <2>2, ExistsNext
  <2>3. ASSUME NEW v \in Worktree, p = Git(v) PROVE Exists(p)'
    BY <1>1, <2>1, <2>3, ExistsFacts, ExistsNext
  <2>4. ASSUME NEW d \in Dir, p = Work(d) PROVE Exists(p)'
    BY <1>1, <2>1, <2>4, ExistsFacts, ExistsNext
  <2>5. p = Admin \/ \E v \in Worktree : p \in Places(v)
    BY <2>1 DEF Place
  <2> QED BY <2>2, <2>3, <2>4, <2>5, PlaceFacts
<1>5. /\ kernel' \subseteq kernel /\ dirty' \subseteq Worktree /\ owed' \subseteq Worktree
      /\ live' \subseteq Worktree /\ admin' \in BOOLEAN
  BY <1>1 DEF WTypes, TypeOK
<1> QED BY <1>1, <1>2, <1>3, <1>4, <1>5, AgentTypes DEF WTypes, TypeOK

\* The watcher's goroutine moves, with nothing of the disk and no queue touched.
LEMMA LoopTypes ==
    ASSUME WTypes, UNCHANGED <<disk, queue>>,
           kernel' \subseteq Place, \A p \in kernel' : Exists(p),
           watched' \subseteq Place, IsFiniteSet(watched'),
           dirCount' \in [Worktree -> Nat \cup {None}],
           \A w \in Worktree : dirCount'[w] = None => watched' \cap Places(w) = {},
           timer' \subseteq Key, fired' \in [Key -> Nat],
           loop' \in Loop, loop'.at = "call" => loop'.key # None,
           loop'.at = "walk" /\ loop'.walk # None => dirCount'[loop'.walk] # None,
           LoopOK',
           dirty' \subseteq Worktree, owed' \subseteq Worktree, excused' \subseteq Worktree,
           UNCHANGED changes,
           UNCHANGED troubles \/ Trouble
    PROVE  WTypes'
<1>1. troubles' \in 0 .. MaxTroubles
  BY ConstantTypes DEF WTypes, TypeOK, Trouble
<1>2. \A p \in kernel' : Exists(p)'
  BY DEF Exists, disk
<1>3. TypeOK'
  BY <1>1, <1>2 DEF WTypes, TypeOK, disk
<1>4. Events' /\ Tree'
  BY DEF WTypes, Events, Tree, disk
<1> QED BY <1>3, <1>4 DEF WTypes, Unknown, Places

\* What a worktree that is known owns is known.
LEMMA KnownPlaces ==
    ASSUME WTypes, NEW w \in Worktree, NEW p \in watched \cap Places(w)
    PROVE  dirCount[w] # None /\ dirCount[w] \in Nat
    BY DEF WTypes, TypeOK, Unknown

\* What the walk is at.
LEMMA VisitingFacts ==
    ASSUME WTypes, NEW d \in Dir, Visiting(d)
    PROVE  /\ loop.walk \in Worktree /\ Owner[d] = loop.walk
           /\ dirCount[loop.walk] \in Nat /\ dirCount[loop.walk] # None
           /\ \A next \in Dir \cup {None} : Visited(d, next) /\ (next # None => next = d) =>
                 /\ loop' \in Loop /\ loop'.at = "walk" /\ loop'.walk = loop.walk
                 /\ loop'.key = loop.key /\ loop'.new = loop.new
                 /\ loop'.known = loop.known
                 /\ loop'.seen = loop.seen \ {d} /\ loop'.reading = next
<1>1. loop \in Loop /\ loop.at = "walk" /\ d \in loop.seen /\ Owner[d] = loop.walk
  BY DEF WTypes, TypeOK, LoopOK, Visiting
<1>2. loop.walk \in Worktree
  BY <1>1, ConstantTypes
<1>3. dirCount[loop.walk] \in Nat /\ dirCount[loop.walk] # None
  BY <1>1, <1>2, ConstantTypes DEF WTypes, TypeOK
<1>4. ASSUME NEW next \in Dir \cup {None}, Visited(d, next)
      PROVE  /\ loop' \in Loop /\ loop'.at = "walk" /\ loop'.walk = loop.walk
             /\ loop'.key = loop.key /\ loop'.new = loop.new
             /\ loop'.known = loop.known
             /\ loop'.seen = loop.seen \ {d} /\ loop'.reading = next
  BY <1>1, <1>4 DEF Visited, Loop
<1> QED BY <1>1, <1>2, <1>3, <1>4

\* Broken-down Visit: the directory is there and is watched, or it is gone.
LEMMA VisitFacts ==
    ASSUME WTypes, NEW d \in Dir, Visit(d)
    PROVE  /\ Visiting(d) /\ dirCount[loop.walk] < Cap
           /\ UNCHANGED <<disk, queue, debounce, history, changes, troubles>>
           /\ loop' \in Loop /\ loop'.at = "walk" /\ loop'.walk = loop.walk
           /\ loop'.key = loop.key /\ loop'.new = loop.new /\ loop'.known = loop.known
           /\ loop'.seen = loop.seen \ {d} /\ loop'.reading = d
           /\ Exists(Work(d)) =>
                 /\ kernel' = kernel \cup {Work(d)} /\ watched' = watched \cup {Work(d)}
                 /\ dirCount' = [dirCount EXCEPT ![loop.walk] = @ + 1]
           /\ ~ Exists(Work(d)) => UNCHANGED <<kernel, session>>
<1>1. Visiting(d) /\ Visited(d, d)
  BY DEF Visit
<1>2. d \in Dir \cup {None} /\ (d # None => d = d)
  OBVIOUS
<1>3. /\ loop' \in Loop /\ loop'.at = "walk" /\ loop'.walk = loop.walk
      /\ loop'.key = loop.key /\ loop'.new = loop.new /\ loop'.known = loop.known
      /\ loop'.seen = loop.seen \ {d} /\ loop'.reading = d
  BY <1>1, <1>2, VisitingFacts
<1>4. /\ dirCount[loop.walk] < Cap
      /\ UNCHANGED <<disk, queue, debounce, history, changes, troubles>>
      /\ Exists(Work(d)) =>
                 /\ kernel' = kernel \cup {Work(d)} /\ watched' = watched \cup {Work(d)}
                 /\ dirCount' = [dirCount EXCEPT ![loop.walk] = @ + 1]
      /\ ~ Exists(Work(d)) => UNCHANGED <<kernel, session>>
  BY DEF Visit
<1> QED BY <1>1, <1>3, <1>4

\* The walk goes on, for the same worktree.
LEMMA WalkOn ==
    ASSUME WTypes, loop.at = "walk", loop.walk # None,
           loop' \in Loop, loop'.at = "walk", loop'.walk = loop.walk,
           loop'.new = loop.new,
           \A d \in loop'.seen : Owner[d] = loop.walk,
           loop'.reading # None => Owner[loop'.reading] = loop.walk,
           \A w \in Worktree : dirCount[w] = None => dirCount'[w] = None
    PROVE  LoopOK'
    BY DEF WTypes, LoopOK, Unknown

LEMMA VisitTypes ==
    ASSUME WTypes, NEW d \in Dir, Visit(d)
    PROVE  WTypes'
<1> DEFINE w == loop.walk
<1>1. w \in Worktree /\ Owner[d] = w /\ dirCount[w] \in Nat /\ dirCount[w] # None
      /\ Visiting(d)
  BY VisitFacts, VisitingFacts
<1>2. \A v \in loop'.seen : Owner[v] = w
  BY VisitFacts DEF WTypes, LoopOK
<1>3. CASE Exists(Work(d))
  <2>1. /\ kernel' = kernel \cup {Work(d)} /\ watched' = watched \cup {Work(d)}
        /\ dirCount' = [dirCount EXCEPT ![w] = @ + 1]
    BY <1>3, VisitFacts
  <2>2. kernel' \subseteq Place /\ watched' \subseteq Place /\ \A p \in kernel' : Exists(p)
    BY <1>3, <2>1, PlaceFacts DEF WTypes, TypeOK
  <2>3. IsFiniteSet(watched')
    BY <2>1, FS_AddElement DEF WTypes
  <2>4. /\ dirCount' \in [Worktree -> Nat \cup {None}] /\ dirCount'[w] # None
        /\ \A v \in Worktree : dirCount[v] = None <=> dirCount'[v] = None
    BY <1>1, <2>1, ConstantTypes DEF WTypes, TypeOK
  <2>5. ASSUME NEW v \in Worktree, dirCount'[v] = None PROVE watched' \cap Places(v) = {}
    <3>1. v # w /\ watched \cap Places(v) = {}
      BY <2>4, <2>5 DEF WTypes, Unknown
    <3> QED BY <1>1, <2>1, <3>1, PlaceFacts
  <2>6. LoopOK'
    BY <1>1, <1>2, <2>4, VisitFacts, WalkOn, ConstantTypes DEF Visiting
  <2>7. /\ UNCHANGED <<disk, queue, debounce, history, changes, troubles>>
        /\ loop' \in Loop /\ loop'.at = "walk" /\ loop'.walk = w
    BY VisitFacts
  <2> HIDE DEF w
  <2> QED BY <2>2, <2>3, <2>4, <2>5, <2>6, <2>7, LoopTypes
        DEF WTypes, TypeOK, debounce, history
<1>4. CASE ~ Exists(Work(d))
  <2>1. UNCHANGED <<kernel, session>>
    BY <1>4, VisitFacts
  <2>2. LoopOK'
    BY <1>1, <1>2, <2>1, VisitFacts, WalkOn, ConstantTypes DEF Visiting, session
  <2>3. /\ UNCHANGED <<disk, queue, debounce, history, changes, troubles>>
        /\ loop' \in Loop /\ loop'.at = "walk" /\ loop'.walk = w
    BY VisitFacts
  <2> QED BY <1>1, <2>1, <2>2, <2>3, LoopTypes
        DEF WTypes, TypeOK, Unknown, debounce, history, session
<1> QED BY <1>3, <1>4

\* At the cap, or when the watch cannot be had.
LEMMA PassTypes ==
    ASSUME WTypes, NEW d \in Dir, VisitSkips(d) \/ VisitFails(d)
    PROVE  /\ WTypes'
           /\ Visiting(d) /\ excused' = excused \cup {loop.walk}
           /\ loop'.at = "walk" /\ loop'.walk = loop.walk /\ loop'.seen = loop.seen \ {d}
           /\ loop'.reading = d \/ loop'.reading = None
           /\ UNCHANGED <<disk, queue, kernel, session>>
<1>1. /\ Visiting(d) /\ excused' = excused \cup {loop.walk}
      /\ Visited(d, d) \/ Visited(d, None)
      /\ UNCHANGED <<disk, kernel, queue, session, debounce, dirty, owed, changes>>
      /\ UNCHANGED troubles \/ Trouble
  BY DEF VisitSkips, VisitFails
<1>2. loop.walk \in Worktree /\ Owner[d] = loop.walk
      /\ dirCount[loop.walk] # None
  BY <1>1, VisitingFacts
<1>3. /\ loop' \in Loop /\ loop'.at = "walk" /\ loop'.walk = loop.walk
      /\ loop'.new = loop.new /\ loop'.seen = loop.seen \ {d}
      /\ loop'.reading = d \/ loop'.reading = None
  BY <1>1, VisitingFacts, ConstantTypes
<1>4. LoopOK'
  BY <1>1, <1>2, <1>3, WalkOn, ConstantTypes DEF WTypes, LoopOK, Visiting, session
<1>5. excused' \subseteq Worktree
  BY <1>1, <1>2 DEF WTypes, TypeOK
<1>6. WTypes'
  BY <1>1, <1>2, <1>3, <1>4, <1>5, LoopTypes DEF WTypes, TypeOK, Unknown, debounce, session
<1> QED BY <1>1, <1>3, <1>6

LEMMA ReadDirTypes ==
    ASSUME WTypes, ReadDir
    PROVE  /\ WTypes'
           /\ loop.at = "walk" /\ loop.reading # None
           /\ loop'.at = "walk" /\ loop'.walk = loop.walk /\ loop'.reading = None
           /\ loop'.seen = loop.seen \cup {e \in dirs : Parent[e] = loop.reading}
           /\ UNCHANGED <<disk, kernel, queue, session, debounce, history, changes, troubles>>
<1>1. /\ loop.at = "walk" /\ loop.reading # None /\ loop \in Loop
      /\ loop' = [loop EXCEPT !.reading = None,
                              !.seen = @ \cup {e \in dirs : Parent[e] = loop.reading}]
      /\ UNCHANGED <<disk, kernel, queue, session, debounce, history, changes, troubles>>
  BY DEF ReadDir, WTypes, TypeOK
<1>2. \A e \in dirs : e \in Dir /\ e \in Sub
  BY ConstantTypes DEF WTypes, TypeOK
<1>3. /\ loop' \in Loop /\ loop'.at = "walk" /\ loop'.walk = loop.walk
      /\ loop'.new = loop.new /\ loop'.reading = None /\ loop'.key = loop.key
      /\ loop'.seen = loop.seen \cup {e \in dirs : Parent[e] = loop.reading}
  BY <1>1, <1>2 DEF Loop
<1>4. loop.walk # None /\ Owner[loop.reading] = loop.walk
  BY <1>1 DEF WTypes, LoopOK
<1>5. \A d \in loop'.seen : Owner[d] = loop.walk
  BY <1>2, <1>3, <1>4, ConstantTypes DEF WTypes, LoopOK
<1>6. LoopOK'
  BY <1>1, <1>3, <1>4, <1>5, WalkOn DEF session
<1>7. WTypes'
  BY <1>1, <1>3, <1>4, <1>6, LoopTypes DEF WTypes, TypeOK, Unknown, debounce, session, history
<1> QED BY <1>1, <1>3, <1>7

\* The walk is over: on to the hint, to the bookkeeping, or to the next worktree.
LEMMA WalkEndsFacts ==
    ASSUME WTypes, WalkEnds
    PROVE  /\ loop.at = "walk" /\ loop.seen = {} /\ loop.reading = None
           /\ UNCHANGED <<disk, queue, fired, history, changes, troubles>>
           /\ loop' \in Loop /\ loop'.reading = None
           /\ \/ /\ loop.key = None /\ loop.walk # None
                 /\ timer' = timer \cup {loop.walk} /\ loop' = Idle
                 /\ UNCHANGED <<kernel, session>>
              \/ /\ loop.key # None
                 /\ loop'.at = "drop" /\ loop'.walk = None /\ loop'.seen = {}
                 /\ loop'.known = loop.known
                 /\ UNCHANGED <<kernel, session, timer>>
              \/ \E w \in loop.new :
                 /\ loop.key # None /\ w \in Worktree /\ WatchGit(w)
                 /\ dirCount' = [dirCount EXCEPT ![w] = 0] /\ UNCHANGED timer
                 /\ loop'.at = "walk" /\ loop'.key = loop.key /\ loop'.walk = w
                 /\ loop'.seen = {w} /\ loop'.new = loop.new \ {w}
                 /\ loop'.known = loop.known
<1>1. /\ loop \in Loop /\ loop.at = "walk" /\ loop.seen = {} /\ loop.reading = None
      /\ UNCHANGED <<disk, queue, fired, history, changes, troubles>>
  BY DEF WalkEnds, WTypes, TypeOK
<1>2. CASE loop.key = None
  <2>1. loop.walk # None
    BY <1>1, <1>2 DEF WTypes, LoopOK
  <2>2. Trigger(loop.walk) /\ loop' = Idle /\ UNCHANGED <<kernel, session>>
    BY <1>2 DEF WalkEnds
  <2> QED BY <1>1, <1>2, <2>1, <2>2, IdleFacts DEF Trigger
<1>3. CASE loop.key # None /\ loop.new = {}
  <2>1. /\ loop' = [loop EXCEPT !.at = "drop", !.walk = None]
        /\ UNCHANGED <<kernel, session, timer>>
    BY <1>3 DEF WalkEnds
  <2>2. /\ loop' \in Loop /\ loop'.at = "drop" /\ loop'.walk = None /\ loop'.seen = {}
        /\ loop'.reading = None /\ loop'.known = loop.known
    BY <1>1, <2>1 DEF Loop
  <2> QED BY <1>1, <1>3, <2>1, <2>2
<1>4. CASE loop.key # None /\ loop.new # {}
  <2>1. PICK w \in loop.new :
            /\ WatchGit(w)
            /\ dirCount' = [dirCount EXCEPT ![w] = 0]
            /\ loop' = [loop EXCEPT !.new = @ \ {w}, !.walk = w, !.seen = {w}]
            /\ UNCHANGED timer
    BY <1>4 DEF WalkEnds
  <2>2. w \in Worktree /\ w \in Dir
    BY <1>1, ConstantTypes DEF Loop
  <2>3. /\ loop' \in Loop /\ loop'.at = "walk" /\ loop'.key = loop.key /\ loop'.walk = w
        /\ loop'.seen = {w} /\ loop'.new = loop.new \ {w} /\ loop'.reading = None
        /\ loop'.known = loop.known
    BY <1>1, <2>1, <2>2 DEF Loop
  <2> QED BY <1>1, <1>4, <2>1, <2>2, <2>3
<1> QED BY <1>2, <1>3, <1>4

LEMMA WatchGitTypes ==
    ASSUME WTypes, NEW w \in Worktree, WatchGit(w)
    PROVE  /\ kernel' \subseteq Place /\ watched' \subseteq Place /\ IsFiniteSet(watched')
           /\ \A p \in kernel' : Exists(p)
           /\ kernel \subseteq kernel' /\ watched \subseteq watched'
           /\ kernel' \subseteq kernel \cup {Git(w)} /\ watched' \subseteq watched \cup {Git(w)}
           /\ w \in live => Git(w) \in kernel' \cap watched'
<1>1. CASE w \in live
  <2>1. kernel' = kernel \cup {Git(w)} /\ watched' = watched \cup {Git(w)}
    BY <1>1 DEF WatchGit
  <2>2. IsFiniteSet(watched')
    BY <2>1, FS_AddElement DEF WTypes
  <2> QED BY <1>1, <2>1, <2>2, PlaceFacts, ExistsFacts DEF WTypes, TypeOK
<1>2. CASE w \notin live
  BY <1>2 DEF WatchGit, WTypes, TypeOK
<1> QED BY <1>1, <1>2

LEMMA WalkEndsTypes ==
    ASSUME WTypes, WalkEnds
    PROVE  WTypes'
<1>1. /\ loop.at = "walk" /\ loop.seen = {} /\ loop.reading = None
      /\ UNCHANGED <<disk, queue, fired, history, changes, troubles>>
      /\ loop' \in Loop /\ loop'.reading = None /\ loop \in Loop
  BY WalkEndsFacts DEF WTypes, TypeOK
<1>2. CASE /\ loop.key = None /\ loop.walk # None
           /\ timer' = timer \cup {loop.walk} /\ loop' = Idle
           /\ UNCHANGED <<kernel, session>>
  <2>1. loop.walk \in Key
    BY <1>1, <1>2, ConstantTypes DEF Loop
  <2>2. timer' \subseteq Key
    BY <1>2, <2>1 DEF WTypes, TypeOK
  <2> QED BY <1>1, <1>2, <2>2, IdleFacts, LoopRests, LoopTypes
        DEF WTypes, TypeOK, Unknown, history, session
<1>3. CASE /\ loop'.at = "drop" /\ loop'.walk = None /\ loop'.seen = {}
           /\ UNCHANGED <<kernel, session, timer>>
  BY <1>1, <1>3, LoopRests, LoopTypes DEF WTypes, TypeOK, Unknown, history, session
<1>4. ASSUME NEW w \in loop.new,
             loop.key # None /\ w \in Worktree /\ WatchGit(w),
             dirCount' = [dirCount EXCEPT ![w] = 0] /\ UNCHANGED timer,
             loop'.at = "walk" /\ loop'.key = loop.key /\ loop'.walk = w,
             loop'.seen = {w} /\ loop'.new = loop.new \ {w}
      PROVE  WTypes'
  <2>1. /\ dirCount' \in [Worktree -> Nat \cup {None}] /\ dirCount'[w] = 0 /\ 0 # None
        /\ \A v \in Worktree \ {w} : dirCount'[v] = dirCount[v]
    BY <1>4, ConstantTypes DEF WTypes, TypeOK
  <2>2. LoopOK'
    BY <1>1, <1>4, <2>1, ConstantTypes DEF WTypes, LoopOK, Unknown
  <2>3. ASSUME NEW v \in Worktree, dirCount'[v] = None PROVE watched' \cap Places(v) = {}
    <3>1. v # w /\ watched \cap Places(v) = {}
      BY <2>1, <2>3 DEF WTypes, Unknown
    <3> QED BY <1>4, <3>1, WatchGitTypes, PlaceFacts
  <2> QED BY <1>1, <1>4, <2>1, <2>2, <2>3, WatchGitTypes, LoopTypes
        DEF WTypes, TypeOK, history
<1> QED BY <1>2, <1>3, <1>4, WalkEndsFacts

\* Reconciling begins, or does not get to it.
LEMMA ListFacts ==
    ASSUME WTypes, List \/ ListFails \/ DiscoverFails
    PROVE  /\ loop.at = "list" /\ loop.seen = {} /\ loop.reading = None
           /\ UNCHANGED <<disk, queue, dirCount, debounce, history, changes>>
           /\ kernel \subseteq kernel' /\ kernel' \subseteq kernel \cup {Admin}
           /\ watched \subseteq watched' /\ watched' \subseteq watched \cup {Admin}
           /\ admin \/ kernel' = kernel
           /\ loop' \in Loop /\ loop'.seen = {} /\ loop'.reading = None
           /\ loop'.at \in {"walk", "drop", "call"}
           /\ loop'.walk = None
           /\ loop'.at = "call" => loop'.key = Global
           /\ loop'.at = "walk" => loop'.new \subseteq Unknown /\ loop'.key # None
                                   /\ loop'.known = live
           /\ UNCHANGED troubles \/ Trouble
<1>1. /\ loop.at = "list" /\ loop \in Loop /\ loop.seen = {} /\ loop.reading = None
      /\ loop.walk = None /\ loop.key # None
      /\ UNCHANGED <<disk, queue, dirCount, debounce, history, changes>>
      /\ UNCHANGED troubles \/ Trouble
  BY DEF List, ListFails, DiscoverFails, WTypes, TypeOK, LoopOK, session
<1>2. /\ kernel' = IF WatchAdmin THEN kernel \cup {Admin} ELSE kernel
      /\ watched' = IF WatchAdmin THEN watched \cup {Admin} ELSE watched
      \/ UNCHANGED <<kernel, watched>>
  BY DEF List, ListFails, DiscoverFails, session
<1>3. /\ kernel \subseteq kernel' /\ kernel' \subseteq kernel \cup {Admin}
      /\ watched \subseteq watched' /\ watched' \subseteq watched \cup {Admin}
      /\ admin \/ kernel' = kernel
  BY <1>2 DEF WatchAdmin
<1>4. CASE List
  <2>1. loop' = [loop EXCEPT !.at = "walk", !.known = live,
                             !.new = {w \in live : dirCount[w] = None}]
    BY <1>4 DEF List
  <2>2. live \subseteq Worktree /\ {w \in live : dirCount[w] = None} \subseteq Unknown
    BY DEF WTypes, TypeOK, Unknown
  <2>3. Unknown \subseteq Worktree
    BY DEF Unknown
  <2> QED BY <1>1, <1>3, <2>1, <2>2, <2>3 DEF Loop
<1>5. CASE ListFails
  <2>1. loop' = [loop EXCEPT !.at = "drop", !.known = {}]
    BY <1>5 DEF ListFails
  <2> QED BY <1>1, <1>3, <2>1 DEF Loop
<1>6. CASE DiscoverFails
  <2>1. loop' = [Idle EXCEPT !.at = "call", !.key = Global]
    BY <1>6 DEF DiscoverFails
  <2> QED BY <1>1, <1>3, <2>1, IdleFacts, ConstantTypes
<1> QED BY <1>4, <1>5, <1>6

LEMMA ListTypes ==
    ASSUME WTypes, List \/ ListFails \/ DiscoverFails
    PROVE  WTypes'
<1>1. kernel' \subseteq Place /\ watched' \subseteq Place /\ \A p \in kernel' : Exists(p)
  BY ListFacts, PlaceFacts, ExistsFacts DEF WTypes, TypeOK
<1>2. IsFiniteSet(watched')
  <2>1. IsFiniteSet(watched \cup {Admin})
    BY FS_AddElement DEF WTypes
  <2> QED BY <2>1, ListFacts, FS_Subset
<1>3. \A w \in Worktree : dirCount'[w] = None => watched' \cap Places(w) = {}
  BY ListFacts, PlaceFacts DEF WTypes, Unknown
<1>4. LoopOK'
  BY ListFacts DEF WTypes, LoopOK, Unknown
<1>5. UNCHANGED <<disk, queue, dirCount, debounce, history, changes>>
      /\ loop' \in Loop /\ (loop'.at = "call" => loop'.key # None) /\ loop'.walk = None
      /\ (UNCHANGED troubles \/ Trouble)
  BY ListFacts, ConstantTypes
<1> QED BY <1>1, <1>2, <1>3, <1>4, <1>5, LoopTypes DEF WTypes, TypeOK, debounce, history

LEMMA DropFacts ==
    ASSUME WTypes, Drop
    PROVE  /\ loop.at = "drop"
           /\ \A w \in Worktree \ loop.known :
                 /\ dirCount'[w] = None /\ watched' \cap Places(w) = {}
                 /\ w \in excused /\ w \notin excused' => ~ Stale(w)
           /\ \A w \in Worktree \cap loop.known :
                 /\ dirCount'[w] = dirCount[w]
                 /\ watched' \cap Places(w) = watched \cap Places(w)
                 /\ w \in excused <=> w \in excused'
           /\ excused' \subseteq excused /\ owed' \subseteq owed /\ watched' \subseteq watched
           /\ loop' \in Loop /\ loop'.at = "call" /\ loop'.key = Global
           /\ loop'.walk = None /\ loop'.seen = {} /\ loop'.reading = None
           /\ dirCount' \in [Worktree -> Nat \cup {None}]
           /\ UNCHANGED <<disk, kernel, queue, debounce, dirty, changes, troubles>>
<1> DEFINE gone == Worktree \ loop.known
<1>1. /\ loop.at = "drop"
      /\ watched' = watched \ UNION {Places(w) : w \in gone}
      /\ dirCount' = [w \in Worktree |-> IF w \in gone THEN None ELSE dirCount[w]]
      /\ excused' = excused \ {w \in gone : ~ Stale(w)}
      /\ owed' = owed \ gone
      /\ loop' = [Idle EXCEPT !.at = "call", !.key = Global]
      /\ UNCHANGED <<disk, kernel, queue, debounce, dirty, changes, troubles>>
  BY DEF Drop
<1>2. \A w \in gone : dirCount'[w] = None /\ watched' \cap Places(w) = {}
  BY <1>1
<1>3. ASSUME NEW w \in Worktree \cap loop.known
      PROVE  dirCount'[w] = dirCount[w] /\ watched' \cap Places(w) = watched \cap Places(w)
  <2>1. \A v \in gone : Places(v) \cap Places(w) = {}
    BY PlaceFacts
  <2> QED BY <1>1, <2>1
<1>4. /\ loop' \in Loop /\ loop'.at = "call" /\ loop'.key = Global
      /\ loop'.walk = None /\ loop'.seen = {} /\ loop'.reading = None
  BY <1>1, IdleFacts, ConstantTypes
<1>5. dirCount' \in [Worktree -> Nat \cup {None}]
  BY <1>1 DEF WTypes, TypeOK
<1> QED BY <1>1, <1>2, <1>3, <1>4, <1>5

LEMMA DropTypes ==
    ASSUME WTypes, Drop
    PROVE  WTypes'
<1>1. IsFiniteSet(watched')
  BY DropFacts, FS_Subset DEF WTypes
<1>2. ASSUME NEW w \in Worktree, dirCount'[w] = None PROVE watched' \cap Places(w) = {}
  BY <1>2, DropFacts DEF WTypes, Unknown
<1>3. LoopOK'
  BY DropFacts, LoopRests
<1>4. /\ watched' \subseteq Place /\ owed' \subseteq Worktree /\ excused' \subseteq Worktree
      /\ dirCount' \in [Worktree -> Nat \cup {None}]
      /\ loop' \in Loop /\ (loop'.at = "call" => loop'.key # None) /\ loop'.walk = None
      /\ UNCHANGED <<disk, kernel, queue, debounce, dirty, changes, troubles>>
  BY DropFacts, ConstantTypes DEF WTypes, TypeOK
<1> QED BY <1>1, <1>2, <1>3, <1>4, LoopTypes DEF WTypes, TypeOK, debounce

LEMMA CallTypes ==
    ASSUME WTypes, Call
    PROVE  WTypes'
<1>1. /\ dirty' \subseteq dirty /\ owed' \subseteq owed /\ loop' = Idle
      /\ UNCHANGED <<disk, kernel, queue, session, debounce, excused, changes, troubles>>
  BY DEF Call
<1> QED BY <1>1, IdleFacts, LoopRests, LoopTypes DEF WTypes, TypeOK, Unknown, debounce, session

LEMMA TimerTypes ==
    ASSUME WTypes, NEW k \in Key, TimerFires(k) \/ TakeFired(k) \/ Tick
    PROVE  WTypes'
<1>1. CASE TimerFires(k)
  <2>1. timer' \subseteq Key /\ fired' \in [Key -> Nat] /\ LoopOK'
        /\ UNCHANGED <<disk, kernel, queue, session, loop, history, changes, troubles>>
    BY <1>1 DEF TimerFires, WTypes, TypeOK, LoopOK, Unknown, session
  <2> QED BY <2>1, LoopTypes DEF WTypes, TypeOK, Unknown, history, session
<1>2. CASE TakeFired(k)
  <2>1. /\ fired' \in [Key -> Nat]
        /\ loop' \in {Reconcile, [Idle EXCEPT !.at = "call", !.key = k]}
        /\ UNCHANGED <<disk, kernel, queue, session, timer, history, changes, troubles>>
    BY <1>2 DEF TakeFired, WTypes, TypeOK
  <2>2. /\ loop' \in Loop /\ loop'.at # "walk" /\ loop'.walk = None /\ loop'.seen = {}
        /\ loop'.reading = None /\ (loop'.at \in {"list", "call"} => loop'.key # None)
    <3>1. CASE loop' = Reconcile
      BY <3>1, IdleFacts, ConstantTypes
    <3>2. CASE loop' = [Idle EXCEPT !.at = "call", !.key = k]
      <4>1. /\ loop' \in Loop /\ loop'.at = "call" /\ loop'.key = k
            /\ loop'.walk = None /\ loop'.seen = {} /\ loop'.reading = None
        BY <3>2, IdleFacts
      <4> QED BY <4>1, ConstantTypes
    <3> QED BY <2>1, <3>1, <3>2
  <2> QED BY <2>1, <2>2, LoopRests, LoopTypes DEF WTypes, TypeOK, Unknown, history, session
<1>3. CASE Tick
  <2>1. /\ loop' = Reconcile
        /\ UNCHANGED <<disk, kernel, queue, session, debounce, history, changes, troubles>>
    BY <1>3 DEF Tick
  <2> QED BY <2>1, IdleFacts, ConstantTypes, LoopRests, LoopTypes
        DEF WTypes, TypeOK, Unknown, history, session, debounce
<1> QED BY <1>1, <1>2, <1>3

\* The four ways an event is handled.
LEMMA HandleFacts ==
    ASSUME WTypes, Handle
    PROVE  LET e == Head(queue) IN
           /\ queue # <<>> /\ queue' = Tail(queue) /\ e \in Event
           /\ loop.at = "select" /\ loop.seen = {} /\ loop.reading = None
           /\ UNCHANGED <<disk, kernel, fired, history, changes, troubles>>
           /\ \/ /\ e.in \notin watched \/ e.in = Admin
                 /\ timer' \subseteq Key /\ UNCHANGED <<session, loop>>
              \/ \E d \in dirs :
                 /\ e.op = "create" /\ e.name = d /\ e.in = Work(Parent[d])
                 /\ e.in \in watched /\ UNCHANGED <<session, timer>>
                 /\ loop' = [Idle EXCEPT !.at = "walk", !.walk = Owner[d], !.seen = {d}]
              \/ /\ e.in \in watched /\ e.in # Admin /\ UNCHANGED <<session, loop>>
                 /\ timer' \subseteq Key
                 /\ e.op = "remove" => Work(e.name) \notin watched
                 /\ e.op = "create" => e.name \notin dirs
              \/ \E d \in Sub :
                 /\ e.op = "remove" /\ e.name = d /\ e.in = Work(Parent[d])
                 /\ e.in \in watched /\ Work(d) \in watched /\ timer' \subseteq Key
                 /\ watched' = watched \ {Work(d)}
                 /\ dirCount' = [dirCount EXCEPT ![Owner[d]] = @ - 1]
                 /\ UNCHANGED loop
<1> DEFINE e == Head(queue)
           w == OwnerOf(e.in)
<1>1. /\ queue # <<>> /\ queue' = Tail(queue) /\ loop.at = "select"
      /\ UNCHANGED <<disk, kernel, fired, history, changes, troubles>>
  BY DEF Handle, Selecting
<1>2. e \in Event /\ 1 \in DOMAIN queue /\ queue[1] = e
  BY <1>1, TailFacts DEF WTypes
<1>3. loop.seen = {} /\ loop.reading = None
  BY <1>1 DEF WTypes, LoopOK
<1>4. ASSUME e.name # None
      PROVE  /\ e.name \in Sub /\ e.in = Work(Parent[e.name])
             /\ w = Owner[e.name] /\ w \in Worktree
  <2>1. e.name \in Sub /\ e.in = Work(Parent[e.name])
    BY <1>2, <1>4 DEF WTypes, Events, Event
  <2> QED BY <2>1, OwnerFacts, ConstantTypes
<1>5. e.in \in watched /\ e.in # Admin => w \in Key
  <2> SUFFICES ASSUME e.in \in watched, e.in # Admin PROVE w \in Key
    OBVIOUS
  <2>1. PICK v \in Worktree : e.in \in Places(v)
    BY DEF WTypes, TypeOK, Place
  <2>2. w = Owner[e.in[2]]
    BY DEF OwnerOf
  <2>3. e.in = Git(v) \/ \E d \in Dir : e.in = Work(d)
    BY <2>1, PlaceFacts
  <2>4. e.in[2] \in Dir
    BY <2>3, ConstantTypes DEF Git, Work
  <2> QED BY <2>2, <2>4, ConstantTypes
<1>6. \/ /\ e.in \notin watched
         /\ UNCHANGED <<session, timer, loop>>
      \/ /\ e.in \in watched /\ e.in = Admin
         /\ Trigger(Global)
         /\ UNCHANGED <<session, loop>>
      \/ /\ e.in \in watched /\ e.op = "create" /\ e.name \in dirs
         /\ loop' = [Idle EXCEPT !.at = "walk", !.walk = w, !.seen = {e.name}]
         /\ UNCHANGED <<session, timer>>
      \/ /\ e.in \in watched /\ e.in # Admin
         /\ e.op = "create" => e.name \notin dirs
         /\ watched' = IF Tracked(e) THEN watched \ {Work(e.name)} ELSE watched
         /\ dirCount' = IF Tracked(e) THEN [dirCount EXCEPT ![w] = @ - 1] ELSE dirCount
         /\ Trigger(w)
         /\ UNCHANGED loop
  BY DEF Handle
<1>7. None \notin dirs /\ timer \subseteq Key
  BY ConstantTypes DEF WTypes, TypeOK
<1> HIDE DEF e, w
<1>8. CASE e.in \notin watched /\ UNCHANGED <<session, timer, loop>>
  BY <1>1, <1>2, <1>3, <1>7, <1>8 DEF e
<1>9. CASE e.in \in watched /\ e.in = Admin /\ Trigger(Global) /\ UNCHANGED <<session, loop>>
  BY <1>1, <1>2, <1>3, <1>7, <1>9, ConstantTypes DEF e, Trigger
<1>10. CASE /\ e.in \in watched /\ e.op = "create" /\ e.name \in dirs
            /\ loop' = [Idle EXCEPT !.at = "walk", !.walk = w, !.seen = {e.name}]
            /\ UNCHANGED <<session, timer>>
  <2>1. e.name # None
    BY <1>7, <1>10
  <2> QED BY <1>1, <1>2, <1>3, <1>4, <1>10, <2>1 DEF e
<1>11. CASE /\ e.in \in watched /\ e.in # Admin
            /\ e.op = "create" => e.name \notin dirs
            /\ watched' = IF Tracked(e) THEN watched \ {Work(e.name)} ELSE watched
            /\ dirCount' = IF Tracked(e) THEN [dirCount EXCEPT ![w] = @ - 1] ELSE dirCount
            /\ Trigger(w)
            /\ UNCHANGED loop
  <2>1. timer' \subseteq Key
    BY <1>5, <1>7, <1>11 DEF Trigger
  <2>2. CASE ~ Tracked(e)
    BY <1>1, <1>2, <1>3, <1>11, <2>1, <2>2 DEF e, Tracked, session
  <2>3. CASE Tracked(e)
    <3>1. e.name # None
      <4>1. \A p \in watched : p = Admin \/ \E v \in Worktree : p \in Places(v)
        BY DEF WTypes, TypeOK, Place
      <4>2. Work(None) \notin Place
        <5>1. \A v \in Worktree : Work(None) # Git(v)
          BY DEF Work, Git
        <5>2. \A d \in Dir : Work(None) # Work(d)
          BY ConstantTypes DEF Work
        <5>3. Work(None) # Admin
          BY DEF Work, Admin
        <5> QED BY <5>1, <5>2, <5>3, PlaceFacts DEF Place
      <4> QED BY <2>3, <4>2 DEF Tracked, WTypes, TypeOK
    <3> QED BY <1>1, <1>2, <1>3, <1>4, <1>11, <2>1, <2>3, <3>1 DEF e, Tracked
  <2> QED BY <2>2, <2>3
<1> QED BY <1>6, <1>8, <1>9, <1>10, <1>11

-----------------------------------------------------------------------------
(* The count of the watches.                                               *)

\* The directories of w that W holds.
Paths(W, w) == {p \in W \cap Places(w) : p # Git(w)}

\* What Counted says beside the types.
Bounded == \A w \in Worktree : dirCount[w] # None =>
               Cardinality(Paths(watched, w)) <= dirCount[w] /\ dirCount[w] <= Cap

\* w has a directory more, one less, or at most one more, and the others have not.
LEMMA PathsFacts ==
    ASSUME NEW W, IsFiniteSet(W), NEW w \in Worktree
    PROVE  /\ IsFiniteSet(Paths(W, w)) /\ Cardinality(Paths(W, w)) \in Nat
           /\ \A d \in Dir : Cardinality(Paths(W \cup {Work(d)}, w)) <=
                             Cardinality(Paths(W, w)) + (IF Owner[d] = w THEN 1 ELSE 0)
           /\ \A d \in Dir : Work(d) \in W /\ Owner[d] = w =>
                 /\ Cardinality(Paths(W, w)) >= 1
                 /\ Cardinality(Paths(W \ {Work(d)}, w)) = Cardinality(Paths(W, w)) - 1
           /\ \A d \in Dir : Owner[d] # w => Paths(W \ {Work(d)}, w) = Paths(W, w)
<1>1. \A V : IsFiniteSet(V) => IsFiniteSet(Paths(V, w)) /\ Cardinality(Paths(V, w)) \in Nat
  BY FS_Subset, FS_CardinalityType DEF Paths
<1>2. ASSUME NEW d \in Dir
      PROVE  Cardinality(Paths(W \cup {Work(d)}, w)) <=
             Cardinality(Paths(W, w)) + (IF Owner[d] = w THEN 1 ELSE 0)
  <2>1. CASE Owner[d] = w
    <3>1. Paths(W \cup {Work(d)}, w) = Paths(W, w) \cup {Work(d)}
      BY <2>1, PlaceFacts DEF Paths
    <3>2. Cardinality(Paths(W, w) \cup {Work(d)}) \in
              {Cardinality(Paths(W, w)), Cardinality(Paths(W, w)) + 1}
      BY <1>1, FS_AddElement
    <3>3. Cardinality(Paths(W, w)) \in Nat
      BY <1>1
    <3>4. Cardinality(Paths(W \cup {Work(d)}, w)) \in
              {Cardinality(Paths(W, w)), Cardinality(Paths(W, w)) + 1}
      BY <3>1, <3>2
    <3> HIDE DEF Paths
    <3> QED BY <2>1, <3>3, <3>4
  <2>2. CASE Owner[d] # w
    <3>1. Paths(W \cup {Work(d)}, w) = Paths(W, w)
      BY <2>2, PlaceFacts, ConstantTypes DEF Paths
    <3> QED BY <1>1, <2>2, <3>1
  <2> QED BY <2>1, <2>2
<1>3. ASSUME NEW d \in Dir, Work(d) \in W, Owner[d] = w
      PROVE  /\ Cardinality(Paths(W, w)) >= 1
             /\ Cardinality(Paths(W \ {Work(d)}, w)) = Cardinality(Paths(W, w)) - 1
  <2>1. Work(d) \in Paths(W, w) /\ Paths(W \ {Work(d)}, w) = Paths(W, w) \ {Work(d)}
    BY <1>3, PlaceFacts DEF Paths
  <2>2. Cardinality(Paths(W, w) \ {Work(d)}) = Cardinality(Paths(W, w)) - 1
        /\ IsFiniteSet(Paths(W, w) \ {Work(d)})
    BY <1>1, <2>1, FS_RemoveElement
  <2>3. Cardinality(Paths(W, w) \ {Work(d)}) \in Nat
    BY <2>2, FS_CardinalityType
  <2>4. Cardinality(Paths(W, w)) \in Nat
    BY <1>1
  <2>5. Cardinality(Paths(W, w)) >= 1
    BY <2>2, <2>3, <2>4
  <2> QED BY <2>1, <2>2, <2>5
<1>4. ASSUME NEW d \in Dir, Owner[d] # w PROVE Paths(W \ {Work(d)}, w) = Paths(W, w)
  BY <1>4, PlaceFacts, ConstantTypes DEF Paths
<1> QED BY <1>1, <1>2, <1>3, <1>4

\* Nothing is counted, and no directory of a worktree that is counted comes or goes.
LEMMA BoundedStays ==
    ASSUME Bounded,
           \A w \in Worktree : dirCount'[w] # None =>
               dirCount'[w] = dirCount[w] /\ Paths(watched', w) = Paths(watched, w)
    PROVE  Bounded'
    BY DEF Bounded

LEMMA VisitBounded ==
    ASSUME WTypes, Bounded, NEW d \in Dir, Visit(d)
    PROVE  Bounded'
<1> DEFINE w == loop.walk
<1>1. w \in Worktree /\ Owner[d] = w /\ dirCount[w] \in Nat /\ dirCount[w] # None
      /\ dirCount[w] < Cap /\ Cap \in Nat
  BY VisitFacts, VisitingFacts, ConstantTypes
<1>2. CASE Exists(Work(d))
  <2>1. watched' = watched \cup {Work(d)} /\ dirCount' = [dirCount EXCEPT ![w] = @ + 1]
    BY <1>2, VisitFacts
  <2> HIDE DEF w
  <2> SUFFICES ASSUME NEW v \in Worktree, dirCount'[v] # None
               PROVE  Cardinality(Paths(watched', v)) <= dirCount'[v] /\ dirCount'[v] <= Cap
    BY DEF Bounded
  <2>2. dirCount[v] # None /\ dirCount[v] \in Nat
        /\ dirCount'[v] = dirCount[v] + (IF v = w THEN 1 ELSE 0)
    BY <1>1, <2>1 DEF WTypes, TypeOK
  <2>3. Cardinality(Paths(watched, v)) <= dirCount[v] /\ dirCount[v] <= Cap
    BY <2>2 DEF Bounded
  <2>4. /\ Cardinality(Paths(watched, v)) \in Nat
        /\ Cardinality(Paths(watched', v)) \in Nat
        /\ Cardinality(Paths(watched', v)) <=
              Cardinality(Paths(watched, v)) + (IF Owner[d] = v THEN 1 ELSE 0)
    <3>1. IsFiniteSet(watched) /\ IsFiniteSet(watched')
      BY <2>1, FS_AddElement DEF WTypes
    <3> QED BY <2>1, <3>1, PathsFacts
  <2> HIDE DEF Paths
  <2> QED BY <1>1, <2>2, <2>3, <2>4
<1>3. CASE ~ Exists(Work(d))
  BY <1>3, VisitFacts, BoundedStays DEF session
<1> QED BY <1>2, <1>3

LEMMA WalkEndsBounded ==
    ASSUME WTypes, Bounded, WalkEnds
    PROVE  Bounded'
<1>1. CASE UNCHANGED session
  BY <1>1, BoundedStays DEF session
<1>2. ASSUME NEW w \in loop.new, w \in Worktree, WatchGit(w),
             dirCount' = [dirCount EXCEPT ![w] = 0], loop.new \subseteq Unknown
      PROVE  Bounded'
  <2>1. w \in Unknown /\ watched \cap Places(w) = {}
    BY <1>2 DEF WTypes
  <2>2. watched \subseteq watched' /\ watched' \subseteq watched \cup {Git(w)}
    BY <1>2, WatchGitTypes
  <2>3. Paths(watched', w) = {}
    BY <2>1, <2>2 DEF Paths
  <2>4. \A v \in Worktree \ {w} : Paths(watched', v) = Paths(watched, v)
    BY <1>2, <2>2, PlaceFacts DEF Paths
  <2>5. dirCount'[w] = 0 /\ \A v \in Worktree \ {w} : dirCount'[v] = dirCount[v]
    BY <1>2 DEF WTypes, TypeOK
  <2>6. Cardinality(Paths(watched', w)) = 0
    BY <2>3, FS_EmptySet
  <2> HIDE DEF Paths
  <2> QED BY <2>4, <2>5, <2>6, ConstantTypes DEF Bounded
<1>3. loop.new \subseteq Unknown
  BY WalkEndsFacts DEF WTypes, LoopOK
<1> QED BY <1>1, <1>2, <1>3, WalkEndsFacts

LEMMA HandleTypes ==
    ASSUME WTypes, Bounded, Handle
    PROVE  WTypes' /\ Bounded'
<1> DEFINE e == Head(queue)
<1>1. /\ queue # <<>> /\ queue' = Tail(queue) /\ loop.at = "select"
      /\ loop.seen = {} /\ loop.reading = None
      /\ UNCHANGED <<disk, kernel, fired, history, changes, troubles>>
  BY HandleFacts
<1>2. /\ Events' /\ (\A m \in DOMAIN queue' : queue'[m] \in Event)
      /\ Tree' /\ \A p \in kernel' : Exists(p)'
  BY <1>1, TailFacts DEF WTypes, TypeOK, Tree, Exists, disk
<1>3. CASE timer' \subseteq Key /\ UNCHANGED <<session, loop>>
  <2>1. WTypes'
    BY <1>1, <1>2, <1>3 DEF WTypes, TypeOK, LoopOK, Unknown, disk, session, history, Places
  <2> QED BY <1>3, <2>1, BoundedStays DEF session
<1>4. ASSUME NEW d \in dirs, UNCHANGED <<session, timer>>, e.in \in watched,
             e.in = Work(Parent[d]),
             loop' = [Idle EXCEPT !.at = "walk", !.walk = Owner[d], !.seen = {d}]
      PROVE  WTypes' /\ Bounded'
  <2>1. d \in Sub /\ d \in Dir /\ Owner[d] \in Worktree /\ Owner[Parent[d]] = Owner[d]
        /\ Parent[d] \in Dir
    BY ConstantTypes DEF WTypes, TypeOK
  <2>2. /\ loop' \in Loop /\ loop'.at = "walk" /\ loop'.walk = Owner[d] /\ loop'.seen = {d}
        /\ loop'.reading = None /\ loop'.new = {}
    BY <1>4, <2>1, ConstantTypes DEF Idle, Loop
  <2>3. dirCount[Owner[d]] # None
    BY <1>4, <2>1, PlaceFacts, KnownPlaces
  <2>4. LoopOK'
    BY <2>1, <2>2, ConstantTypes DEF LoopOK
  <2>5. WTypes'
    BY <1>1, <1>2, <1>4, <2>2, <2>3, <2>4
      DEF WTypes, TypeOK, Unknown, disk, session, history, Places
  <2> QED BY <1>4, <2>5, BoundedStays DEF session
<1>5. ASSUME NEW d \in Sub, Work(d) \in watched, timer' \subseteq Key,
             watched' = watched \ {Work(d)},
             dirCount' = [dirCount EXCEPT ![Owner[d]] = @ - 1], UNCHANGED loop
      PROVE  WTypes' /\ Bounded'
  <2> DEFINE w == Owner[d]
  <2>1. d \in Dir /\ w \in Worktree
    BY ConstantTypes
  <2>2. dirCount[w] # None /\ dirCount[w] \in Nat
    BY <1>5, <2>1, PlaceFacts, KnownPlaces
  <2>3. /\ Cardinality(Paths(watched, w)) \in Nat /\ Cardinality(Paths(watched, w)) >= 1
        /\ Cardinality(Paths(watched', w)) = Cardinality(Paths(watched, w)) - 1
        /\ \A v \in Worktree \ {w} : Paths(watched', v) = Paths(watched, v)
    BY <1>5, <2>1, PathsFacts DEF WTypes
  <2>4. Cardinality(Paths(watched, w)) <= dirCount[w] /\ dirCount[w] <= Cap
    BY <2>1, <2>2 DEF Bounded
  <2>5. /\ dirCount' \in [Worktree -> Nat \cup {None}]
        /\ dirCount'[w] = dirCount[w] - 1 /\ dirCount'[w] \in Nat
        /\ \A v \in Worktree \ {w} : dirCount'[v] = dirCount[v]
    BY <1>5, <2>1, <2>2, <2>3, <2>4 DEF WTypes, TypeOK
  <2>6. dirCount'[w] # None /\ Unknown' = Unknown
    BY <2>2, <2>5, ConstantTypes DEF Unknown
  <2> HIDE DEF w
  <2>7. Bounded'
    <3> SUFFICES ASSUME NEW v \in Worktree, dirCount'[v] # None
                 PROVE  /\ Cardinality(Paths(watched', v)) <= dirCount'[v]
                        /\ dirCount'[v] <= Cap
      BY DEF Bounded
    <3>1. CASE v = w
      BY <2>2, <2>3, <2>4, <2>5, <3>1, ConstantTypes
    <3>2. CASE v # w
      BY <2>3, <2>5, <3>2 DEF Bounded
    <3> QED BY <3>1, <3>2
  <2>8. IsFiniteSet(watched') /\ watched' \subseteq Place
    BY <1>5, FS_RemoveElement DEF WTypes, TypeOK
  <2>9. \A v \in Unknown' : watched' \cap Places(v) = {}
    BY <1>5, <2>6 DEF WTypes
  <2>10. LoopOK'
    BY <1>5, <2>6 DEF WTypes, LoopOK
  <2>11. TypeOK'
    BY <1>1, <1>2, <1>5, <2>5, <2>8 DEF WTypes, TypeOK, disk, history
  <2> QED BY <1>2, <2>7, <2>8, <2>9, <2>10, <2>11 DEF WTypes, Places
<1> QED BY <1>3, <1>4, <1>5, HandleFacts

WInv == WTypes /\ Bounded

LEMMA InitTypes ==
    ASSUME Init
    PROVE  WInv
<1>1. /\ live \in SUBSET Worktree /\ dirs = {} /\ admin = (live # {})
      /\ kernel = {} /\ queue = <<>> /\ watched = {}
      /\ dirCount = [w \in Worktree |-> None]
      /\ timer = {} /\ fired = [k \in Key |-> 0] /\ loop = Reconcile
      /\ dirty = live /\ owed = {} /\ excused = {}
      /\ changes = 0 /\ troubles = 0
  BY DEF Init
<1>2. loop \in Loop /\ loop.at = "list" /\ loop.key = Global /\ loop.walk = None
      /\ loop.seen = {} /\ loop.reading = None
  BY <1>1, IdleFacts
<1>3. 0 \in 0 .. MaxChanges /\ 0 \in 0 .. MaxTroubles
  BY ConstantTypes
<1>4. TypeOK
  BY <1>1, <1>2, <1>3, ConstantTypes DEF TypeOK
<1>5. Events
  <2>1. <<>> \in Seq(Event) /\ \A n \in DOMAIN << >> : FALSE
    OBVIOUS
  <2> QED BY <1>1, <2>1 DEF Events
<1>6. LoopOK
  BY <1>2, ConstantTypes DEF LoopOK
<1>7. IsFiniteSet(watched) /\ \A w \in Unknown : watched \cap Places(w) = {}
  BY <1>1, FS_EmptySet
<1>8. Tree
  BY <1>1 DEF Tree
<1>9. \A w \in Worktree : dirCount[w] = None
  BY <1>1
<1> QED BY <1>4, <1>5, <1>6, <1>7, <1>8, <1>9 DEF WInv, WTypes, Bounded

\* One case per action.
LEMMA NextTypes ==
    ASSUME WInv, [Next]_vars
    PROVE  WInv'
<1> USE DEF WInv
<1>1. ASSUME NEW w \in Worktree, AddWorktree(w) PROVE WInv'
  <2>1. UNCHANGED session
    BY <1>1 DEF AddWorktree
  <2> QED BY <1>1, <2>1, AddWorktreeTypes, BoundedStays DEF session
<1>2. ASSUME NEW w \in Worktree, RemoveWorktree(w) PROVE WInv'
  <2>1. UNCHANGED session
    BY <1>2 DEF RemoveWorktree
  <2> QED BY <1>2, <2>1, RemoveWorktreeTypes, BoundedStays DEF session
<1>3. ASSUME NEW w \in Worktree, NEW p \in Places(w), Change(p, w) PROVE WInv'
  <2>1. UNCHANGED session
    BY <1>3 DEF Change
  <2> QED BY <1>3, <2>1, ChangeTypes, BoundedStays DEF session
<1>4. ASSUME NEW d \in Sub, Mkdir(d) PROVE WInv'
  <2>1. UNCHANGED session
    BY <1>4 DEF Mkdir
  <2> QED BY <1>4, <2>1, MkdirTypes, BoundedStays DEF session
<1>5. ASSUME NEW d \in Sub, Rmdir(d) PROVE WInv'
  <2>1. UNCHANGED session
    BY <1>5 DEF Rmdir
  <2> QED BY <1>5, <2>1, RmdirTypes, BoundedStays DEF session
<1>6. CASE Agents
  BY <1>1, <1>2, <1>3, <1>4, <1>5, <1>6 DEF Agents
<1>7. ASSUME NEW d \in Dir, Visit(d) PROVE WInv'
  BY <1>7, VisitTypes, VisitBounded
<1>8. ASSUME NEW d \in Dir, VisitSkips(d) \/ VisitFails(d) PROVE WInv'
  BY <1>8, PassTypes, BoundedStays DEF session
<1>9. CASE ReadDir
  BY <1>9, ReadDirTypes, BoundedStays DEF session
<1>10. CASE WalkEnds
  BY <1>10, WalkEndsTypes, WalkEndsBounded
<1>11. CASE List \/ ListFails \/ DiscoverFails
  <2>1. \A w \in Worktree : Paths(watched', w) = Paths(watched, w)
    BY <1>11, ListFacts, PlaceFacts DEF Paths
  <2>2. dirCount' = dirCount
    BY <1>11, ListFacts
  <2> HIDE DEF Paths
  <2> QED BY <1>11, <2>1, <2>2, ListTypes, BoundedStays
<1>12. CASE Drop
  <2>1. \A w \in Worktree : dirCount'[w] # None =>
           dirCount'[w] = dirCount[w] /\ Paths(watched', w) = Paths(watched, w)
    BY <1>12, DropFacts DEF Paths
  <2> HIDE DEF Paths
  <2> QED BY <1>12, <2>1, DropTypes, BoundedStays
<1>13. CASE Call
  <2>1. UNCHANGED session
    BY <1>13 DEF Call
  <2> QED BY <1>13, <2>1, CallTypes, BoundedStays DEF session
<1>14. CASE Handle
  BY <1>14, HandleTypes
<1>15. ASSUME NEW k \in Key, TimerFires(k) \/ TakeFired(k) \/ Tick PROVE WInv'
  <2>1. UNCHANGED session
    BY <1>15 DEF TimerFires, TakeFired, Tick
  <2> QED BY <1>15, <2>1, TimerTypes, BoundedStays DEF session
<1>16. CASE UNCHANGED vars
  <2>1. Bounded'
    BY <1>16, BoundedStays DEF vars, session
  <2> QED BY <1>16, <2>1
        DEF vars, disk, session, debounce, history, WTypes, TypeOK, Events, Tree, LoopOK,
            Unknown, Exists, Places
<1>17. CASE Tick
  BY <1>15, <1>17, ConstantTypes
<1> QED BY <1>6, <1>7, <1>8, <1>9, <1>10, <1>11, <1>12, <1>13, <1>14, <1>15, <1>16, <1>17
      DEF Next, Step, Walk

(* The count of a worktree is never below the number of directories watched  *)
(* for it, nor above the cap, for every tree of directories and every order  *)
(* in which they come and go while the walk and the events find them         *)
(* (fswatcher.go:193-236, 264-332).                                          *)
THEOREM CountedSound == Spec => []Counted
<1>1. WInv => Counted
  BY DEF WInv, WTypes, Bounded, Counted, Paths
<1>2. Spec => []WInv
  BY InitTypes, NextTypes, PTL DEF Spec
<1> QED BY <1>1, <1>2, PTL

-----------------------------------------------------------------------------
(* What lies above a directory.                                            *)

LEMMA AboveFacts ==
    ASSUME NEW d \in Dir
    PROVE  /\ d \in Above(d) /\ Above(d) \subseteq Dir
           /\ \A x \in Above(d) \cap Sub : Parent[x] \in Above(d)
           /\ \A S \in SUBSET Dir :
                 d \in S /\ (\A e \in S \cap Sub : Parent[e] \in S) => Above(d) \subseteq S
    BY ConstantTypes DEF Above

LEMMA AboveOwner ==
    ASSUME NEW d \in Dir
    PROVE  \A a \in Above(d) : a \in Dir /\ Owner[a] = Owner[d]
<1> DEFINE S == {e \in Dir : Owner[e] = Owner[d]}
<1>1. S \in SUBSET Dir /\ d \in S
  OBVIOUS
<1>2. \A e \in S \cap Sub : Parent[e] \in S
  BY ConstantTypes
<1>3. Above(d) \subseteq S
  BY <1>1, <1>2, AboveFacts
<1> QED BY <1>3

\* A worktree has nothing above it, and a directory what its parent has.
LEMMA AboveStep ==
    /\ \A w \in Worktree : Above(w) = {w}
    /\ \A d \in Sub : Above(d) \subseteq {d} \cup Above(Parent[d])
<1>1. ASSUME NEW w \in Worktree PROVE Above(w) = {w}
  <2>1. w \in Dir /\ {w} \in SUBSET Dir /\ w \in {w} /\ \A e \in {w} \cap Sub : Parent[e] \in {w}
    BY ConstantTypes
  <2>2. Above(w) \subseteq {w} /\ w \in Above(w)
    BY <2>1, AboveFacts
  <2> QED BY <2>2
<1>2. ASSUME NEW d \in Sub PROVE Above(d) \subseteq {d} \cup Above(Parent[d])
  <2> DEFINE S == {d} \cup Above(Parent[d])
  <2>1. d \in Dir /\ Parent[d] \in Dir
    BY ConstantTypes
  <2>2. S \in SUBSET Dir /\ d \in S /\ \A e \in S \cap Sub : Parent[e] \in S
    BY <2>1, AboveFacts
  <2> HIDE DEF S
  <2>3. Above(d) \subseteq S
    BY <2>1, <2>2, AboveFacts
  <2> QED BY <2>3 DEF S
<1> QED BY <1>1, <1>2

\* What lies strictly above d is the parent of something that does, or is d.
LEMMA AboveBelow ==
    ASSUME NEW d \in Dir, NEW x \in Above(d), x # d
    PROVE  \E y \in Above(d) \cap Sub : Parent[y] = x
<1> DEFINE S == {d} \cup {Parent[y] : y \in Above(d) \cap Sub}
<1>1. d \in Above(d) /\ Above(d) \subseteq Dir
      /\ \A y \in Above(d) \cap Sub : Parent[y] \in Above(d)
  BY AboveFacts
<1>2. S \subseteq Above(d)
  BY <1>1
<1>3. S \in SUBSET Dir /\ d \in S /\ \A e \in S \cap Sub : Parent[e] \in S
  BY <1>1, <1>2
<1> HIDE DEF S
<1>4. Above(d) \subseteq S
  BY <1>3, AboveFacts
<1> QED BY <1>4 DEF S

\* The root of a directory's worktree lies above it: no directory is below itself.
LEMMA AboveRoot ==
    ASSUME NEW d \in Dir
    PROVE  Owner[d] \in Above(d)
<1> DEFINE S == Above(d) \cap Sub
<1>1. d \in Above(d) /\ Above(d) \subseteq Dir
      /\ \A y \in Above(d) \cap Sub : Parent[y] \in Above(d)
  BY AboveFacts
<1>2. \E v \in Worktree : v \in Above(d)
  <2>1. CASE S = {}
    BY <1>1, <2>1, ConstantTypes
  <2>2. CASE S # {}
    <3>1. PICK e \in S : Parent[e] \notin S
      BY <2>2, WatcherAssumption
    <3> QED BY <1>1, <3>1, ConstantTypes
  <2> QED BY <2>1, <2>2
<1> QED BY <1>2, AboveOwner, ConstantTypes

LEMMA AboveExists ==
    ASSUME WTypes, NEW d \in live \cup dirs
    PROVE  Above(d) \subseteq live \cup dirs
<1>1. /\ live \cup dirs \in SUBSET Dir /\ d \in Dir
      /\ \A e \in (live \cup dirs) \cap Sub : Parent[e] \in live \cup dirs
  BY ConstantTypes DEF WTypes, TypeOK, Tree
<1> QED BY <1>1, AboveFacts

-----------------------------------------------------------------------------
(* Complete, while there is something left to handle.                      *)

Sound == live \ excused
Good(w) == w \in Sound /\ dirCount[w] # None

On(d) == Work(d) \in watched \cap kernel
Leaves(d) == \E n \in DOMAIN queue : Lost(queue[n], d)
Comes(d) == \E n \in DOMAIN queue : Made(queue[n], d)
Ahead(d) == d \in loop.seen \/ (d \in Sub /\ loop.reading = Parent[d])

\* The watch of d is there to stay, and the walk has passed it.
Settled(d) == On(d) /\ ~ Leaves(d) /\ ~ Ahead(d)

\* d is watched, or it or something above it is about to be told or walked.
Covered(d) == \/ Leaves(d) \/ Comes(d) \/ On(d) \/ Ahead(d)
              \/ \E a \in Above(Parent[d]) : ~ Settled(a)

\* Who is told that d goes is told when d comes back, or that its parent goes.
GoneOrdered == \A n \in DOMAIN queue, d \in Sub :
    Owner[d] \in Sound /\ Lost(queue[n], d) =>
        \/ Work(Parent[d]) \in kernel
        \/ \E m \in DOMAIN queue : m > n /\ Lost(queue[m], Parent[d])
BackOrdered == \A n \in DOMAIN queue, d \in dirs :
    Owner[d] \in Sound /\ Lost(queue[n], d) =>
        \E m \in DOMAIN queue : m > n /\ (Made(queue[m], d) \/ Lost(queue[m], Parent[d]))

AllCovered == \A d \in dirs : Good(Owner[d]) => Covered(d)
Roots == \A w \in Worktree : Good(w) => On(w) \/ w \in loop.seen
Gits == \A w \in Worktree : Good(w) => Git(w) \in watched \cap kernel

Ordered == GoneOrdered /\ BackOrdered
Covering == AllCovered /\ Roots /\ Gits

\* With nothing left to handle, all of this is Complete: of what is not watched,
\* something has everything above it watched, and is not covered.
LEMMA CoveringComplete ==
    ASSUME WTypes, Covering
    PROVE  Complete
<1> SUFFICES ASSUME Selecting, queue = <<>>, NEW w \in live \ excused, dirCount[w] # None,
                    NEW p \in Places(w), Exists(p)
             PROVE  p \in watched \cap kernel
  BY DEF Complete
<1>1. w \in Worktree /\ Good(w)
  BY DEF WTypes, TypeOK, Good, Sound
<1>2. \A d \in Dir : ~ Leaves(d) /\ ~ Comes(d) /\ ~ Ahead(d)
  <2>1. DOMAIN queue = {}
    OBVIOUS
  <2>2. loop.seen = {} /\ loop.reading = None
    BY DEF Selecting, WTypes, LoopOK
  <2> QED BY <2>1, <2>2, ConstantTypes DEF Leaves, Comes, Ahead
<1>3. On(w) /\ Git(w) \in watched \cap kernel
  BY <1>1, <1>2, ConstantTypes DEF Covering, Roots, Gits, Ahead
<1>4. ASSUME NEW c \in dirs, Owner[c] = w PROVE On(c)
  <2> SUFFICES ASSUME ~ On(c) PROVE FALSE
    OBVIOUS
  <2> DEFINE T == {x \in dirs : Owner[x] = w /\ \E a \in Above(x) : ~ On(a)}
  <2>1. T \in SUBSET Sub /\ T # {} /\ \A x \in dirs : x \in Sub /\ x \in Dir /\ Parent[x] \in Dir
    BY <1>4, AboveFacts, ConstantTypes DEF WTypes, TypeOK
  <2>2. PICK d \in T : Parent[d] \notin T
    BY <2>1, WatcherAssumption
  <2>3. /\ d \in dirs /\ d \in Sub /\ Parent[d] \in Dir /\ Owner[d] = w /\ Owner[Parent[d]] = w
        /\ Parent[d] \in live \cup dirs
    BY <2>1, <2>2, ConstantTypes DEF WTypes, Tree
  <2>4. \A a \in Above(Parent[d]) : On(a)
    <3>1. CASE Parent[d] \in dirs
      BY <2>2, <2>3, <3>1
    <3>2. CASE Parent[d] \in live
      <4>1. Parent[d] = w /\ Parent[d] \in Worktree
        BY <2>3, <3>2, ConstantTypes DEF WTypes, TypeOK
      <4> QED BY <1>3, <4>1, AboveStep
    <3> QED BY <2>3, <3>1, <3>2
  <2>5. ~ On(d)
    <3>1. PICK a \in Above(d) : ~ On(a)
      BY <2>2
    <3>2. a = d \/ a \in Above(Parent[d])
      BY <2>3, AboveStep
    <3> QED BY <2>4, <3>1, <3>2
  <2>6. Covered(d)
    BY <1>1, <2>3 DEF Covering, AllCovered
  <2>7. \A a \in Above(Parent[d]) : Settled(a)
    BY <1>2, <2>3, <2>4, AboveFacts DEF Settled
  <2> QED BY <1>2, <2>1, <2>3, <2>5, <2>6, <2>7 DEF Covered
<1>5. ASSUME NEW c \in Dir, Owner[c] = w, p = Work(c) PROVE p \in watched \cap kernel
  <2>1. c \in live \cup dirs
    BY <1>5, ExistsFacts
  <2>2. c \in live => c = w
    BY <1>5, ConstantTypes DEF WTypes, TypeOK
  <2> QED BY <1>3, <1>4, <1>5, <2>1, <2>2 DEF On
<1> QED BY <1>1, <1>3, <1>5, PlaceFacts

\* The queue is as it was, or has one event more.
Grown(op, p, n) == queue' = queue \/ Heard(queue', op, p, n)

LEMMA GrownFacts ==
    ASSUME WTypes, NEW op, NEW p, NEW n, Grown(op, p, n)
    PROVE  /\ \A m \in DOMAIN queue : m \in DOMAIN queue' /\ queue'[m] = queue[m]
           /\ \A m \in DOMAIN queue' : m \in DOMAIN queue \/
                 (queue'[m].op = op /\ queue'[m].name = n)
           /\ Heard(queue', op, p, n) =>
                 \E k \in DOMAIN queue' : /\ queue'[k].op = op /\ queue'[k].name = n
                                          /\ \A m \in DOMAIN queue : m < k
           /\ \A d : Leaves(d) => Leaves(d)'
           /\ \A d : Comes(d) => Comes(d)'
           /\ \A d : op # "remove" \/ n # d => (Leaves(d)' => Leaves(d))
<1>1. /\ \A m \in DOMAIN queue : m \in DOMAIN queue' /\ queue'[m] = queue[m]
      /\ \A m \in DOMAIN queue' : m \in DOMAIN queue \/
            (queue'[m].op = op /\ queue'[m].name = n)
      /\ Heard(queue', op, p, n) =>
            \E k \in DOMAIN queue' : /\ queue'[k].op = op /\ queue'[k].name = n
                                     /\ \A m \in DOMAIN queue : m < k
  <2>1. CASE queue' = queue /\ ~ Heard(queue', op, p, n)
    BY <2>1
  <2>2. CASE Heard(queue', op, p, n)
    <3> DEFINE k == Len(queue) + 1
               e == [op |-> op, in |-> p, name |-> n]
    <3>1. /\ DOMAIN queue = 1 .. Len(queue) /\ Len(queue) \in Nat
          /\ DOMAIN queue' = 1 .. k
          /\ \A m \in DOMAIN queue : queue'[m] = queue[m]
          /\ queue'[k] = e
      BY <2>2 DEF Heard
    <3>2. e.op = op /\ e.name = n
      OBVIOUS
    <3>3. /\ k \in DOMAIN queue' /\ \A m \in DOMAIN queue : m < k /\ m \in DOMAIN queue'
          /\ \A m \in DOMAIN queue' : m \in DOMAIN queue \/ m = k
      BY <3>1
    <3> HIDE DEF e, k
    <3> QED BY <3>1, <3>2, <3>3
  <2> QED BY <2>1, <2>2 DEF Grown
<1>2. \A d : Leaves(d) => Leaves(d)'
  BY <1>1 DEF Leaves, Lost
<1>3. \A d : Comes(d) => Comes(d)'
  BY <1>1 DEF Comes, Made
<1>4. \A d : op # "remove" \/ n # d => (Leaves(d)' => Leaves(d))
  BY <1>1 DEF Leaves, Lost
<1> QED BY <1>1, <1>2, <1>3, <1>4

\* An event about a directory comes from a place of its worktree.
LEMMA StaleFacts ==
    ASSUME WTypes, NEW n \in DOMAIN queue, NEW d \in Sub, Lost(queue[n], d)
    PROVE  Stale(Owner[d])
<1>1. d # None /\ Parent[d] \in Dir /\ Owner[Parent[d]] = Owner[d]
  BY ConstantTypes
<1>2. queue[n].in = Work(Parent[d])
  BY <1>1 DEF WTypes, Events, Lost
<1> QED BY <1>1, <1>2, PlaceFacts DEF Stale

\* Everything but handling an event keeps the order.
LEMMA OrderStays ==
    ASSUME WTypes, Ordered, NEW op, NEW p, NEW n, Grown(op, p, n), dirs' \subseteq Sub,
           \A w \in Sound' : w \in Sound \/ ~ Stale(w),
           \A d \in Dir : Owner[d] \in Sound' /\ Work(d) \in kernel =>
               Work(d) \in kernel' \/ (Heard(queue', op, p, n) /\ op = "remove" /\ n = d),
           op = "remove" /\ n \in Sub => Work(Parent[n]) \in kernel' \/ queue' = queue
                                         \/ Owner[n] \notin Sound',
           op = "remove" => n \notin dirs',
           \A d \in dirs' \ dirs : /\ op = "create" /\ n = d
                                   /\ Work(Parent[d]) \in kernel => Heard(queue', op, p, n)
    PROVE  Ordered'
<1>1. \A m \in DOMAIN queue : m \in DOMAIN queue' /\ queue'[m] = queue[m]
  BY GrownFacts
<1>2. \A m \in DOMAIN queue' : m \in DOMAIN queue \/
          (queue'[m].op = op /\ queue'[m].name = n)
  BY GrownFacts
<1>3. Heard(queue', op, p, n) =>
          \E k \in DOMAIN queue' : /\ queue'[k].op = op /\ queue'[k].name = n
                                   /\ \A m \in DOMAIN queue : m < k
  BY GrownFacts
<1>4. ASSUME NEW i \in DOMAIN queue, NEW d \in Sub, Owner[d] \in Sound', Lost(queue[i], d)
      PROVE  Owner[d] \in Sound
  BY <1>4, StaleFacts
<1>5. \A d \in Sub : Parent[d] \in Dir /\ Owner[Parent[d]] = Owner[d]
  BY ConstantTypes
<1>6. ASSUME NEW i \in DOMAIN queue', NEW d \in Sub, Owner[d] \in Sound',
             Lost(queue'[i], d)
      PROVE  \/ Work(Parent[d]) \in kernel'
             \/ \E m \in DOMAIN queue' : m > i /\ Lost(queue'[m], Parent[d])
  <2>1. CASE i \in DOMAIN queue
    <3>1. Lost(queue[i], d) /\ Owner[d] \in Sound
      BY <1>1, <1>4, <1>6, <2>1
    <3>2. CASE Work(Parent[d]) \in kernel
      <4>1. Work(Parent[d]) \in kernel'
            \/ (Heard(queue', op, p, n) /\ op = "remove" /\ n = Parent[d])
        BY <1>5, <1>6, <3>2
      <4>2. CASE Heard(queue', op, p, n) /\ op = "remove" /\ n = Parent[d]
        <5>1. PICK k \in DOMAIN queue' : /\ queue'[k].op = op /\ queue'[k].name = n
                                         /\ \A m \in DOMAIN queue : m < k
          BY <1>3, <4>2
        <5>2. i \in Nat /\ k \in Nat
          BY <2>1, <4>2 DEF Heard
        <5>3. k > i
          BY <2>1, <5>1, <5>2
        <5> QED BY <4>2, <5>1, <5>3 DEF Lost
      <4> QED BY <4>1, <4>2
    <3>3. CASE \E m \in DOMAIN queue : m > i /\ Lost(queue[m], Parent[d])
      BY <1>1, <3>3
    <3> QED BY <2>1, <3>1, <3>2, <3>3 DEF Ordered, GoneOrdered
  <2>2. CASE i \notin DOMAIN queue
    <3>1. op = "remove" /\ n = d /\ queue' # queue
      BY <1>2, <1>6, <2>2 DEF Lost
    <3> QED BY <1>6, <3>1
  <2> QED BY <2>1, <2>2
<1>7. ASSUME NEW i \in DOMAIN queue', NEW d \in dirs', Owner[d] \in Sound',
             Lost(queue'[i], d)
      PROVE  \E m \in DOMAIN queue' :
                m > i /\ (Made(queue'[m], d) \/ Lost(queue'[m], Parent[d]))
  <2>1. i \in DOMAIN queue
    BY <1>2, <1>7 DEF Lost
  <2>2. d \in Sub /\ Lost(queue[i], d) /\ Owner[d] \in Sound
    BY <1>1, <1>4, <1>7, <2>1
  <2>3. CASE d \in dirs
    <3>1. PICK m \in DOMAIN queue :
               m > i /\ (Made(queue[m], d) \/ Lost(queue[m], Parent[d]))
      BY <2>1, <2>2, <2>3 DEF Ordered, BackOrdered
    <3> QED BY <1>1, <3>1
  <2>4. CASE d \notin dirs
    <3>1. CASE \E m \in DOMAIN queue : m > i /\ Lost(queue[m], Parent[d])
      BY <1>1, <3>1
    <3>2. CASE Work(Parent[d]) \in kernel
      <4>1. Heard(queue', op, p, n) /\ op = "create" /\ n = d
        BY <2>4, <3>2
      <4>2. PICK k \in DOMAIN queue' : /\ queue'[k].op = op /\ queue'[k].name = n
                                       /\ \A m \in DOMAIN queue : m < k
        BY <1>3, <4>1
      <4>3. i \in Nat /\ k \in Nat
        BY <2>1, <4>1 DEF Heard
      <4>4. k > i
        BY <2>1, <4>2, <4>3
      <4> QED BY <4>1, <4>2, <4>4 DEF Made
    <3> QED BY <2>1, <2>2, <3>1, <3>2 DEF Ordered, GoneOrdered
  <2> QED BY <2>3, <2>4
<1> QED BY <1>6, <1>7 DEF Ordered, GoneOrdered, BackOrdered

\* The watcher's own steps tell nothing, and watch no less.
LEMMA LoopOrder ==
    ASSUME WTypes, WTypes', Ordered, UNCHANGED <<disk, queue>>, kernel \subseteq kernel',
           \A w \in Sound' : w \in Sound \/ ~ Stale(w)
    PROVE  Ordered'
<1>1. Grown("write", Admin, None) /\ dirs' \subseteq Sub /\ dirs' = dirs
  BY DEF Grown, WTypes, TypeOK, disk
<1>2. "write" # "remove"
  OBVIOUS
<1> HIDE DEF Admin
<1> QED BY <1>1, <1>2, OrderStays

\* The head of the queue is handled.
LEMMA HandleOrder ==
    ASSUME WTypes, Ordered, queue # <<>>, queue' = Tail(queue),
           UNCHANGED <<disk, kernel, excused>>
    PROVE  /\ Ordered'
           /\ \A d : Leaves(d)' => Leaves(d)
           /\ \A d : Leaves(d) => Leaves(d)' \/ Lost(Head(queue), d)
           /\ \A d : Comes(d) => Comes(d)' \/ Made(Head(queue), d)
           /\ \A d \in dirs : Owner[d] \in Sound /\ Lost(Head(queue), d) =>
                 Comes(d)' \/ Leaves(Parent[d])'
<1>1. /\ 1 \in DOMAIN queue /\ queue[1] = Head(queue)
      /\ DOMAIN queue \subseteq Nat \ {0} /\ DOMAIN queue' \subseteq Nat
  BY TailFacts DEF WTypes
<1>2. \A m \in DOMAIN queue' : m + 1 \in DOMAIN queue /\ queue'[m] = queue[m + 1]
  BY TailFacts DEF WTypes
<1>3. \A m \in DOMAIN queue : m # 1 => m - 1 \in DOMAIN queue' /\ queue'[m - 1] = queue[m]
  BY TailFacts DEF WTypes
<1>4. Sound' = Sound /\ dirs' = dirs /\ kernel' = kernel
  BY DEF Sound, disk
<1>5. ASSUME NEW i \in DOMAIN queue', NEW m \in DOMAIN queue, m > i + 1
      PROVE  \E k \in DOMAIN queue' : k > i /\ queue'[k] = queue[m]
  <2>1. i \in Nat /\ m \in Nat
    BY <1>1
  <2>2. m # 1 /\ m - 1 > i
    BY <1>5, <2>1
  <2> QED BY <1>3, <2>2
<1>6. \A d : Leaves(d)' => Leaves(d)
  BY <1>2 DEF Leaves
<1>7. \A d : Leaves(d) => Leaves(d)' \/ Lost(Head(queue), d)
  BY <1>1, <1>3 DEF Leaves
<1>8. \A d : Comes(d) => Comes(d)' \/ Made(Head(queue), d)
  BY <1>1, <1>3 DEF Comes
<1>9. GoneOrdered'
  <2> SUFFICES ASSUME NEW i \in DOMAIN queue', NEW d \in Sub, Owner[d] \in Sound,
                      Lost(queue'[i], d), Work(Parent[d]) \notin kernel
               PROVE  \E k \in DOMAIN queue' : k > i /\ Lost(queue'[k], Parent[d])
    BY <1>4 DEF GoneOrdered
  <2>1. i + 1 \in DOMAIN queue /\ Lost(queue[i + 1], d)
    BY <1>2
  <2>2. PICK m \in DOMAIN queue : m > i + 1 /\ Lost(queue[m], Parent[d])
    BY <2>1 DEF Ordered, GoneOrdered
  <2> QED BY <1>5, <2>2
<1>10. BackOrdered'
  <2> SUFFICES ASSUME NEW i \in DOMAIN queue', NEW d \in dirs, Owner[d] \in Sound,
                      Lost(queue'[i], d)
               PROVE  \E k \in DOMAIN queue' :
                         k > i /\ (Made(queue'[k], d) \/ Lost(queue'[k], Parent[d]))
    BY <1>4 DEF BackOrdered
  <2>1. i + 1 \in DOMAIN queue /\ Lost(queue[i + 1], d)
    BY <1>2
  <2>2. PICK m \in DOMAIN queue :
             m > i + 1 /\ (Made(queue[m], d) \/ Lost(queue[m], Parent[d]))
    BY <2>1 DEF Ordered, BackOrdered
  <2> QED BY <1>5, <2>2
<1>11. ASSUME NEW d \in dirs, Owner[d] \in Sound, Lost(Head(queue), d)
       PROVE  Comes(d)' \/ Leaves(Parent[d])'
  <2>1. PICK m \in DOMAIN queue :
             m > 1 /\ (Made(queue[m], d) \/ Lost(queue[m], Parent[d]))
    BY <1>1, <1>11 DEF Ordered, BackOrdered
  <2>2. m - 1 \in DOMAIN queue' /\ queue'[m - 1] = queue[m]
    BY <1>1, <1>3, <2>1
  <2> QED BY <2>1, <2>2 DEF Comes, Leaves
<1> QED BY <1>6, <1>7, <1>8, <1>9, <1>10, <1>11 DEF Ordered

-----------------------------------------------------------------------------
(* Agents: the order of the events, and what is covered.                   *)

\* The queue grows, and the watches that are there to stay are no more.
LEMMA CoveringStays ==
    ASSUME WTypes, Covering, NEW op, NEW p, NEW n, Grown(op, p, n), UNCHANGED loop,
           \A d \in Dir : Settled(d)' => Settled(d),
           \A w \in Worktree : Good(w)' => Good(w) /\ Git(w) \in watched' \cap kernel',
           \A d \in dirs' \cup Worktree : Good(Owner[d])' /\ On(d) => On(d)',
           \A d \in dirs' \ dirs : Comes(d)' \/ ~ On(Parent[d])',
           dirs' \subseteq Sub
    PROVE  Covering'
<1>1. \A d : (Leaves(d) => Leaves(d)') /\ (Comes(d) => Comes(d)')
  BY GrownFacts
<1>2. \A d : Ahead(d) => Ahead(d)'
  BY DEF Ahead
<1>3. \A d \in dirs' : d \in Sub /\ d \in Dir /\ Parent[d] \in Dir /\ Owner[d] \in Worktree
  BY ConstantTypes
<1>4. ASSUME NEW d \in dirs', Good(Owner[d])' PROVE Covered(d)'
  <2>1. CASE d \in dirs
    <3>1. Covered(d)
      BY <1>3, <1>4, <2>1 DEF Covering, AllCovered
    <3>2. On(d) => On(d)'
      BY <1>4
    <3>3. \A a \in Above(Parent[d]) : ~ Settled(a) => ~ Settled(a)'
      BY <1>3, AboveFacts
    <3> QED BY <1>1, <1>2, <3>1, <3>2, <3>3 DEF Covered
  <2>2. CASE d \notin dirs
    <3>1. Parent[d] \in Above(Parent[d])
      BY <1>3, AboveFacts
    <3> QED BY <2>2, <3>1 DEF Covered, Settled
  <2> QED BY <2>1, <2>2
<1>5. ASSUME NEW w \in Worktree, Good(w)' PROVE On(w)' \/ w \in loop'.seen
  <2>1. On(w) \/ w \in loop.seen
    BY <1>5 DEF Covering, Roots
  <2>2. On(w) => On(w)'
    BY <1>5, ConstantTypes
  <2> QED BY <2>1, <2>2
<1> QED BY <1>4, <1>5 DEF Covering, AllCovered, Roots, Gits

LEMMA GoodFacts ==
    ASSUME WTypes, Covering, NEW w \in Worktree, Good(w)
    PROVE  w \in live /\ w \notin excused /\ dirCount[w] # None
           /\ Git(w) \in watched \cap kernel
    BY DEF Good, Sound, Covering, Gits

LEMMA MkdirCovers ==
    ASSUME WTypes, Ordered, Covering, NEW d \in Sub, Mkdir(d)
    PROVE  Ordered' /\ Covering'
<1>1. /\ d \in Sub \ dirs /\ dirs' = dirs \cup {d}
      /\ UNCHANGED <<live, kernel, watched, dirCount, loop, excused>>
  BY DEF Mkdir, session, history
<1> DEFINE p == Work(Parent[d])
<1>2. /\ p \notin kernel => queue' = queue
      /\ p \in kernel => Heard(queue', "create", p, d)
  BY MkdirTypes
<1>3. Grown("create", p, d)
  BY <1>2 DEF Grown
<1>4. Sound' = Sound /\ dirs' \subseteq Sub /\ "create" # "remove"
  BY <1>1 DEF Sound, WTypes, TypeOK
<1>5. Ordered'
  BY <1>1, <1>2, <1>3, <1>4, OrderStays
<1>6. \A x : On(x)' = On(x)
  BY <1>1 DEF On
<1>7. \A x : Settled(x)' => Settled(x)
  BY <1>1, <1>3, <1>6, GrownFacts DEF Settled, Ahead
<1>8. \A w \in Worktree : Good(w)' => Good(w) /\ Git(w) \in watched' \cap kernel'
  BY <1>1, GoodFacts DEF Good, Sound
<1>9. Comes(d)' \/ ~ On(Parent[d])'
  <2>1. CASE p \in kernel
    <3>1. \E k \in DOMAIN queue' : queue'[k].op = "create" /\ queue'[k].name = d
      BY <1>2, <1>3, <2>1, GrownFacts
    <3> QED BY <3>1 DEF Comes, Made
  <2>2. CASE p \notin kernel
    BY <1>1, <2>2 DEF On
  <2> QED BY <2>1, <2>2
<1>10. Covering'
  BY <1>1, <1>3, <1>4, <1>6, <1>7, <1>8, <1>9, CoveringStays
<1> QED BY <1>5, <1>10

LEMMA RmdirCovers ==
    ASSUME WTypes, Ordered, Covering, NEW d \in Sub, Rmdir(d)
    PROVE  Ordered' /\ Covering'
<1>1. /\ d \in dirs /\ dirs' = dirs \ {d} /\ kernel' = kernel \ {Work(d)}
      /\ excused' = IF Work(d) \in kernel /\ Work(Parent[d]) \notin kernel
                    THEN excused \cup {Owner[d]} ELSE excused
      /\ UNCHANGED <<live, watched, dirCount, loop>>
  BY DEF Rmdir, session
<1> DEFINE p == Work(Parent[d])
<1>2. /\ p \notin kernel => queue' = queue
      /\ p \in kernel => Heard(queue', "remove", p, d)
  BY RmdirTypes
<1>3. Grown("remove", p, d)
  BY <1>2 DEF Grown
<1>4. Sound' \subseteq Sound /\ dirs' \subseteq Sub /\ "remove" # "create"
  BY <1>1 DEF Sound, WTypes, TypeOK
<1>5. ASSUME NEW x \in Dir, Owner[x] \in Sound', Work(x) \in kernel
      PROVE  Work(x) \in kernel' \/ (Heard(queue', "remove", p, d) /\ d = x)
  BY <1>1, <1>2, <1>5, PlaceFacts, ConstantTypes DEF Sound
<1>6. p \in kernel => p \in kernel'
  <2>1. \E e \in {d} : Parent[e] \notin {d}
    BY WatcherAssumption
  <2>2. Parent[d] # d /\ Parent[d] \in Dir /\ d \in Dir
    BY <2>1, ConstantTypes
  <2> QED BY <1>1, <2>2, PlaceFacts
<1>7. Ordered'
  <2>1. p \in kernel' \/ queue' = queue
    BY <1>2, <1>6
  <2>2. d \notin dirs' /\ dirs' \ dirs = {}
    BY <1>1
  <2>3. \A w \in Sound' : w \in Sound
    BY <1>4
  <2> QED BY <1>3, <1>4, <1>5, <2>1, <2>2, <2>3, OrderStays
<1>8. \A x \in Dir \ {d} : On(x)' = On(x)
  BY <1>1, PlaceFacts, ConstantTypes DEF On
<1>9. \A x : Settled(x)' => Settled(x)
  BY <1>1, <1>3, GrownFacts DEF Settled, Ahead, On
<1>10. \A w \in Worktree : Good(w)' => Good(w) /\ Git(w) \in watched' \cap kernel'
  BY <1>1, GoodFacts, PlaceFacts, ConstantTypes DEF Good, Sound
<1>11. \A x \in dirs' \cup Worktree : On(x) => On(x)'
  BY <1>1, <1>4, <1>8, ConstantTypes
<1>12. Covering'
  BY <1>1, <1>3, <1>4, <1>9, <1>10, <1>11, CoveringStays
<1> QED BY <1>7, <1>12

LEMMA ChangeCovers ==
    ASSUME WTypes, Ordered, Covering, NEW w \in Worktree, NEW p \in Places(w), Change(p, w)
    PROVE  Ordered' /\ Covering'
<1>1. UNCHANGED <<live, dirs, kernel, watched, dirCount, loop, excused>>
  BY DEF Change, disk, session
<1>2. Grown("write", p, None)
  BY ChangeTypes DEF Grown
<1>3. Sound' = Sound /\ dirs' \subseteq Sub /\ "write" # "remove"
  BY <1>1 DEF Sound, WTypes, TypeOK
<1>4. Ordered'
  BY <1>1, <1>2, <1>3, OrderStays
<1>5. \A x : On(x)' = On(x)
  BY <1>1 DEF On
<1>6. \A x : Settled(x)' => Settled(x)
  BY <1>1, <1>2, <1>3, <1>5, GrownFacts DEF Settled, Ahead
<1>7. \A v \in Worktree : Good(v)' => Good(v) /\ Git(v) \in watched' \cap kernel'
  BY <1>1, GoodFacts DEF Good, Sound
<1>8. Covering'
  BY <1>1, <1>2, <1>3, <1>5, <1>6, <1>7, CoveringStays
<1> QED BY <1>4, <1>8

LEMMA AddWorktreeCovers ==
    ASSUME WTypes, Ordered, Covering, NEW w \in Worktree, AddWorktree(w)
    PROVE  Ordered' /\ Covering'
<1>1. /\ w \notin live /\ live' = live \cup {w}
      /\ excused' = IF dirCount[w] # None \/ Stale(w) \/ loop.walk = w
                    THEN excused \cup {w} ELSE excused
      /\ UNCHANGED <<dirs, kernel, watched, dirCount, loop>>
  BY DEF AddWorktree, session
<1>2. Grown("create", Admin, None)
  BY AddWorktreeTypes DEF Grown
<1>3. dirs' \subseteq Sub /\ dirs' = dirs /\ "create" # "remove"
  BY <1>1 DEF WTypes, TypeOK
<1>4. \A v \in Sound' : v \in Sound \/ ~ Stale(v)
  BY <1>1 DEF Sound
<1> HIDE DEF Admin
<1>5. Ordered'
  BY <1>1, <1>2, <1>3, <1>4, OrderStays
<1>6. \A x : On(x)' = On(x)
  BY <1>1 DEF On
<1>7. \A x : Settled(x)' => Settled(x)
  BY <1>1, <1>2, <1>3, <1>6, GrownFacts DEF Settled, Ahead
<1>8. \A v \in Worktree : Good(v)' => Good(v)
  BY <1>1 DEF Good, Sound
<1>9. \A v \in Worktree : Good(v)' => Good(v) /\ Git(v) \in watched' \cap kernel'
  BY <1>1, <1>8, GoodFacts
<1>10. Covering'
  BY <1>1, <1>2, <1>3, <1>6, <1>7, <1>9, CoveringStays
<1> QED BY <1>5, <1>10

LEMMA RemoveWorktreeCovers ==
    ASSUME WTypes, Ordered, Covering, NEW w \in Worktree, RemoveWorktree(w)
    PROVE  Ordered' /\ Covering'
<1>1. /\ live' = live \ {w} /\ (\A d \in dirs : Owner[d] # w)
      /\ kernel' \subseteq kernel /\ kernel \subseteq kernel' \cup {Git(w), Work(w), Admin}
      /\ UNCHANGED <<dirs, watched, dirCount, loop, excused>>
  BY DEF RemoveWorktree, session
<1>2. Grown("remove", Admin, None)
  BY RemoveWorktreeTypes DEF Grown
<1>3. /\ dirs' \subseteq Sub /\ dirs' = dirs /\ None \notin Dir /\ None \notin Sub
      /\ Sound' \subseteq Sound /\ w \notin Sound'
  BY <1>1, ConstantTypes DEF WTypes, TypeOK, Sound
<1> HIDE DEF Admin
<1>4. \A x \in Dir : Owner[x] # w /\ Work(x) \in kernel => Work(x) \in kernel'
  BY <1>1, PlaceFacts, ConstantTypes
<1>5. Ordered'
  <2>1. \A x \in Dir : Owner[x] \in Sound' /\ Work(x) \in kernel => Work(x) \in kernel'
    BY <1>3, <1>4
  <2>2. \A v \in Sound' : v \in Sound
    BY <1>3
  <2> QED BY <1>2, <1>3, <2>1, <2>2, OrderStays
<1>6. \A x \in Dir : Owner[x] # w => (On(x) => On(x)')
  BY <1>1, <1>4 DEF On
<1>7. \A x \in Dir : Settled(x)' => Settled(x)
  BY <1>1, <1>2, <1>3, GrownFacts DEF Settled, Ahead, On
<1>8. \A v \in Worktree : Good(v)' => Good(v) /\ v # w
  BY <1>1, <1>3 DEF Good
<1>9. \A v \in Worktree : Good(v)' => Good(v) /\ Git(v) \in watched' \cap kernel'
  BY <1>1, <1>8, GoodFacts, PlaceFacts, ConstantTypes
<1>10. \A x \in dirs' \cup Worktree : Good(Owner[x])' /\ On(x) => On(x)'
  BY <1>1, <1>3, <1>6, <1>8, ConstantTypes
<1>11. Covering'
  BY <1>1, <1>2, <1>3, <1>7, <1>9, <1>10, CoveringStays
<1> QED BY <1>5, <1>11

-----------------------------------------------------------------------------
(* The walk, and the rest of the loop.                                     *)

\* The loop goes on, and what was ahead of it still is, or is watched.
LEMMA CoveringGoesOn ==
    ASSUME WTypes, Covering, UNCHANGED <<disk, queue>>, kernel \subseteq kernel',
           \A w \in Worktree : Good(w)' => Good(w),
           \A d \in dirs : Good(Owner[d])' =>
               /\ On(d) \/ Ahead(d) => On(d)' \/ Ahead(d)'
               /\ \A a \in Above(Parent[d]) : ~ Settled(a) =>
                     Ahead(d)' \/ \E b \in Above(Parent[d]) : ~ Settled(b)',
           \A w \in Worktree : Good(w)' =>
               /\ On(w) \/ w \in loop.seen => On(w)' \/ w \in loop'.seen
               /\ Git(w) \in watched => Git(w) \in watched'
    PROVE  Covering'
<1>1. \A d : (Leaves(d)' <=> Leaves(d)) /\ (Comes(d)' <=> Comes(d))
  BY DEF Leaves, Comes
<1>2. dirs' = dirs /\ \A d \in dirs : Owner[d] \in Worktree
  BY ConstantTypes DEF WTypes, TypeOK, disk
<1>3. ASSUME NEW d \in dirs, Good(Owner[d])' PROVE Covered(d)'
  <2>1. Covered(d)
    BY <1>2, <1>3 DEF Covering, AllCovered
  <2> QED BY <1>1, <1>3, <2>1 DEF Covered
<1>4. AllCovered'
  BY <1>2, <1>3 DEF AllCovered
<1>5. Roots' /\ Gits'
  BY DEF Covering, Roots, Gits
<1> QED BY <1>4, <1>5 DEF Covering

\* d, not read yet, is passed: what is below it is ahead.
LEMMA PassedCovers ==
    ASSUME WTypes, WTypes', NEW d \in Dir, Visiting(d), loop'.reading = d,
           loop'.seen = loop.seen \ {d}, UNCHANGED queue,
           \A x \in Dir \ {d} : On(x)' => On(x),
           NEW c \in dirs, NEW a \in Above(Parent[c]), ~ Settled(a)
    PROVE  Ahead(c)' \/ \E b \in Above(Parent[c]) : ~ Settled(b)'
<1>1. c \in Sub /\ Parent[c] \in Dir /\ a \in Dir /\ loop.reading = None /\ None \notin Dir
  BY ConstantTypes, AboveFacts DEF WTypes, TypeOK, Visiting
<1>2. CASE a # d
  <2>1. Leaves(a)' <=> Leaves(a)
    BY DEF Leaves
  <2>2. Ahead(a) => Ahead(a)'
    BY <1>1, <1>2, ConstantTypes DEF Ahead
  <2> QED BY <1>1, <1>2, <2>1, <2>2 DEF Settled
<1>3. CASE a = d /\ Parent[c] = d
  BY <1>1, <1>3 DEF Ahead
<1>4. CASE a = d /\ Parent[c] # d
  <2>1. PICK y \in Above(Parent[c]) \cap Sub : Parent[y] = d
    BY <1>1, <1>4, AboveBelow
  <2>2. Ahead(y)'
    BY <2>1 DEF Ahead
  <2> QED BY <2>1, <2>2 DEF Settled
<1> QED BY <1>2, <1>3, <1>4

LEMMA VisitCovers ==
    ASSUME WTypes, WTypes', Ordered, Covering, NEW d \in Dir, Visit(d)
    PROVE  Ordered' /\ Covering'
<1>1. /\ Visiting(d) /\ loop'.seen = loop.seen \ {d} /\ loop'.reading = d
      /\ UNCHANGED <<disk, queue, history>>
      /\ loop.walk \in Worktree /\ dirCount[loop.walk] # None
  BY VisitFacts, VisitingFacts
<1>2. /\ kernel \subseteq kernel' /\ watched \subseteq watched'
      /\ kernel' \subseteq kernel \cup {Work(d)} /\ watched' \subseteq watched \cup {Work(d)}
      /\ Exists(Work(d)) => On(d)'
      /\ \A w \in Worktree : dirCount'[w] # None => dirCount[w] # None
  <2>1. CASE Exists(Work(d))
    BY <1>1, <2>1, VisitFacts DEF On, WTypes, TypeOK
  <2>2. CASE ~ Exists(Work(d))
    BY <2>2, VisitFacts DEF session
  <2> QED BY <2>1, <2>2
<1>3. Sound' = Sound
  BY <1>1 DEF Sound, disk, history
<1>4. Ordered'
  BY <1>1, <1>2, <1>3, LoopOrder
<1>5. \A x : On(x) => On(x)'
  BY <1>2 DEF On
<1>6. \A x \in Dir \ {d} : On(x)' => On(x)
  BY <1>2, PlaceFacts DEF On
<1>7. ASSUME NEW c \in dirs PROVE On(c) \/ Ahead(c) => On(c)' \/ Ahead(c)'
  <2>1. Exists(Work(c)) /\ loop.reading = None /\ (c \in Sub => Parent[c] # None)
        /\ c \in Sub
    BY <1>1, ExistsFacts, ConstantTypes DEF Visiting, WTypes, TypeOK
  <2> QED BY <1>1, <1>2, <1>5, <2>1 DEF Ahead
<1>8. \A w \in Worktree : Good(w)' => Good(w)
  BY <1>2, <1>3 DEF Good
<1>9. ASSUME NEW w \in Worktree, Good(w)'
      PROVE  /\ On(w) \/ w \in loop.seen => On(w)' \/ w \in loop'.seen
             /\ Git(w) \in watched => Git(w) \in watched'
  <2>1. Exists(Work(w))
    BY <1>3, <1>9, ExistsFacts DEF Good, Sound
  <2> QED BY <1>1, <1>2, <1>5, <2>1
<1>10. Covering'
  BY <1>1, <1>2, <1>6, <1>7, <1>8, <1>9, PassedCovers, CoveringGoesOn
<1> QED BY <1>4, <1>10

LEMMA PassCovers ==
    ASSUME WTypes, WTypes', Ordered, Covering, NEW d \in Dir, VisitSkips(d) \/ VisitFails(d)
    PROVE  Ordered' /\ Covering'
<1> DEFINE w == loop.walk
<1>1. /\ Visiting(d) /\ excused' = excused \cup {w}
      /\ loop'.seen = loop.seen \ {d} /\ (loop'.reading = d \/ loop'.reading = None)
      /\ UNCHANGED <<disk, queue, kernel, watched, dirCount>>
      /\ w \in Worktree /\ Owner[d] = w
  BY PassTypes, VisitingFacts DEF session
<1>2. live' = live /\ Sound' = Sound \ {w}
  BY <1>1 DEF Sound, disk
<1>3. \A v \in Worktree : Good(v)' => Good(v) /\ v # w
  BY <1>1, <1>2 DEF Good
<1> HIDE DEF w
<1>4. Ordered'
  BY <1>1, <1>2, LoopOrder
<1>5. /\ \A x : On(x)' <=> On(x)
      /\ \A x : Leaves(x)' <=> Leaves(x)
  BY <1>1 DEF On, Leaves
<1>6. ASSUME NEW x \in Dir, Owner[x] # w PROVE Ahead(x) => Ahead(x)'
  <2>1. loop.reading = None /\ x # d
    BY <1>1, <1>6 DEF Visiting
  <2> QED BY <1>1, <1>6, <2>1, ConstantTypes DEF Ahead
<1>7. ASSUME NEW c \in dirs, Good(Owner[c])'
      PROVE  /\ On(c) \/ Ahead(c) => On(c)' \/ Ahead(c)'
             /\ \A a \in Above(Parent[c]) : ~ Settled(a) => ~ Settled(a)'
  <2>1. c \in Dir /\ c \in Sub /\ Owner[c] # w /\ Parent[c] \in Dir /\ Owner[Parent[c]] = Owner[c]
    BY <1>3, <1>7, ConstantTypes DEF WTypes, TypeOK
  <2>2. \A a \in Above(Parent[c]) : a \in Dir /\ Owner[a] # w
    BY <2>1, AboveOwner
  <2> QED BY <1>5, <1>6, <2>1, <2>2 DEF Settled
<1>8. ASSUME NEW v \in Worktree, Good(v)'
      PROVE  /\ On(v) \/ v \in loop.seen => On(v)' \/ v \in loop'.seen
             /\ Git(v) \in watched => Git(v) \in watched'
  <2>1. v # d
    BY <1>1, <1>3, <1>8, ConstantTypes
  <2> QED BY <1>1, <1>5, <2>1
<1>9. Covering'
  BY <1>1, <1>3, <1>7, <1>8, CoveringGoesOn
<1> QED BY <1>4, <1>9

LEMMA ReadDirCovers ==
    ASSUME WTypes, WTypes', Ordered, Covering, ReadDir
    PROVE  Ordered' /\ Covering'
<1>1. /\ loop.reading # None /\ loop'.reading = None
      /\ loop'.seen = loop.seen \cup {e \in dirs : Parent[e] = loop.reading}
      /\ UNCHANGED <<disk, queue, kernel, watched, dirCount, excused>>
  BY ReadDirTypes DEF session, history
<1>2. Sound' = Sound /\ \A w : Good(w)' <=> Good(w)
  BY <1>1 DEF Sound, Good, disk
<1>3. Ordered'
  BY <1>1, <1>2, LoopOrder
<1>4. /\ \A x : On(x)' <=> On(x)
      /\ \A x : Leaves(x)' <=> Leaves(x)
  BY <1>1 DEF On, Leaves
<1>5. ASSUME NEW x \in live \cup dirs PROVE Ahead(x) => Ahead(x)'
  <2>1. x \in Sub => x \in dirs
    BY ConstantTypes DEF WTypes, TypeOK
  <2> QED BY <1>1, <2>1 DEF Ahead
<1>6. ASSUME NEW c \in dirs
      PROVE  /\ On(c) \/ Ahead(c) => On(c)' \/ Ahead(c)'
             /\ \A a \in Above(Parent[c]) : ~ Settled(a) => ~ Settled(a)'
  <2>1. \A a \in Above(Parent[c]) : a \in live \cup dirs
    BY AboveExists DEF WTypes, Tree
  <2> QED BY <1>4, <1>5, <2>1 DEF Settled
<1>7. Covering'
  BY <1>1, <1>2, <1>4, <1>6, CoveringGoesOn
<1> QED BY <1>3, <1>7

\* Nothing was ahead of the loop.
LEMMA RestCovers ==
    ASSUME WTypes, Covering, UNCHANGED <<disk, queue>>, kernel \subseteq kernel',
           loop.seen = {}, loop.reading = None,
           \A w \in Worktree : Good(w)' => Good(w) /\
               /\ \A p \in Places(w) : p \in watched \cap kernel <=> p \in watched' \cap kernel'
    PROVE  Covering'
<1>1. \A x \in Dir : ~ Ahead(x)
  BY ConstantTypes DEF Ahead
<1>2. \A x : Leaves(x)' <=> Leaves(x)
  BY DEF Leaves
<1>3. \A x \in Dir : Good(Owner[x])' => (On(x)' <=> On(x))
  BY PlaceFacts, ConstantTypes DEF On
<1>4. ASSUME NEW c \in dirs, Good(Owner[c])'
      PROVE  /\ On(c) \/ Ahead(c) => On(c)' \/ Ahead(c)'
             /\ \A a \in Above(Parent[c]) : ~ Settled(a) => ~ Settled(a)'
  <2>1. c \in Dir /\ Parent[c] \in Dir /\ Owner[Parent[c]] = Owner[c]
    BY ConstantTypes DEF WTypes, TypeOK
  <2>2. \A a \in Above(Parent[c]) : a \in Dir /\ Owner[a] = Owner[c]
    BY <2>1, AboveOwner
  <2> QED BY <1>1, <1>2, <1>3, <1>4, <2>1, <2>2 DEF Settled
<1>5. ASSUME NEW w \in Worktree, Good(w)'
      PROVE  /\ On(w) \/ w \in loop.seen => On(w)' \/ w \in loop'.seen
             /\ Git(w) \in watched => Git(w) \in watched'
  <2>1. w \in Dir /\ Owner[w] = w
    BY ConstantTypes
  <2>2. Git(w) \in watched \cap kernel
    BY <1>5, GoodFacts
  <2>3. Git(w) \in watched'
    BY <1>5, <2>2, PlaceFacts
  <2> QED BY <1>3, <1>5, <2>1, <2>3
<1> QED BY <1>4, <1>5, CoveringGoesOn

LEMMA WalkEndsCovers ==
    ASSUME WTypes, WTypes', Ordered, Covering, WalkEnds
    PROVE  Ordered' /\ Covering'
<1>1. /\ loop.seen = {} /\ loop.reading = None
      /\ UNCHANGED <<disk, queue, history>>
  BY WalkEndsFacts
<1>2. Sound' = Sound
  BY <1>1 DEF Sound, disk, history
<1>3. CASE UNCHANGED <<kernel, session>>
  <2>1. Ordered'
    BY <1>1, <1>2, <1>3, LoopOrder
  <2>2. \A w \in Worktree : (Good(w)' => Good(w)) /\ watched' = watched /\ kernel' = kernel
    BY <1>2, <1>3 DEF Good, session
  <2>3. Covering'
    BY <1>1, <1>3, <2>2, RestCovers
  <2> QED BY <2>1, <2>3
<1>4. ASSUME NEW w \in Worktree, WatchGit(w), dirCount' = [dirCount EXCEPT ![w] = 0],
             loop'.seen = {w}
      PROVE  Ordered' /\ Covering'
  <2>1. /\ kernel \subseteq kernel' /\ watched \subseteq watched'
        /\ kernel' \subseteq kernel \cup {Git(w)} /\ watched' \subseteq watched \cup {Git(w)}
        /\ w \in live => Git(w) \in kernel' \cap watched'
    BY <1>4, WatchGitTypes
  <2>2. Ordered'
    BY <1>1, <1>2, <2>1, LoopOrder
  <2>3. \A v \in Worktree \ {w} : Good(v)' => Good(v)
    BY <1>2, <1>4 DEF Good, WTypes, TypeOK
  <2>4. \A x \in Dir : On(x)' <=> On(x)
    BY <2>1, PlaceFacts DEF On
  <2>5. /\ \A x \in Dir : ~ Ahead(x)
        /\ \A x : Leaves(x)' <=> Leaves(x)
        /\ \A x : Comes(x)' <=> Comes(x)
        /\ dirs' = dirs
    BY <1>1, ConstantTypes DEF Ahead, Leaves, Comes, disk
  <2>6. ASSUME NEW c \in dirs, Good(Owner[c])' PROVE Covered(c)'
    <3>1. /\ c \in Dir /\ Parent[c] \in Dir /\ Owner[Parent[c]] = Owner[c]
          /\ Owner[c] \in Worktree
      BY ConstantTypes DEF WTypes, TypeOK
    <3>2. CASE Owner[c] = w
      <4>1. w \in Above(Parent[c])
        BY <3>1, <3>2, AboveRoot
      <4>2. Ahead(w)'
        BY <1>4 DEF Ahead
      <4> QED BY <4>1, <4>2 DEF Covered, Settled
    <3>3. CASE Owner[c] # w
      <4>1. Covered(c)
        BY <2>3, <2>6, <3>1, <3>3 DEF Covering, AllCovered
      <4>2. \A a \in Above(Parent[c]) : a \in Dir
        BY <3>1, AboveFacts
      <4> QED BY <2>4, <2>5, <3>1, <4>1, <4>2 DEF Covered, Settled
    <3> QED BY <3>2, <3>3
  <2>7. AllCovered'
    BY <2>5, <2>6 DEF AllCovered
  <2>8. Roots'
    <3> SUFFICES ASSUME NEW v \in Worktree, Good(v)', v # w PROVE On(v)'
      BY <1>4 DEF Roots
    <3>1. On(v) /\ v \in Dir
      BY <1>1, <2>3, ConstantTypes DEF Covering, Roots
    <3> QED BY <2>4, <3>1
  <2>9. Gits'
    <3> SUFFICES ASSUME NEW v \in Worktree, Good(v)' PROVE Git(v) \in watched' \cap kernel'
      BY DEF Gits
    <3>1. CASE v = w
      <4>1. w \in live
        BY <1>2, <3>1 DEF Good, Sound
      <4> QED BY <2>1, <3>1, <4>1
    <3>2. CASE v # w
      <4>1. Git(v) \in watched \cap kernel
        BY <2>3, <3>2, GoodFacts
      <4> QED BY <2>1, <4>1
    <3> QED BY <3>1, <3>2
  <2> QED BY <2>2, <2>7, <2>8, <2>9 DEF Covering
<1> QED BY <1>3, <1>4, WalkEndsFacts

LEMMA ListCovers ==
    ASSUME WTypes, WTypes', Ordered, Covering, List \/ ListFails \/ DiscoverFails
    PROVE  Ordered' /\ Covering'
<1>1. /\ loop.seen = {} /\ loop.reading = None
      /\ UNCHANGED <<disk, queue, dirCount, history>>
      /\ kernel \subseteq kernel' /\ kernel' \subseteq kernel \cup {Admin}
      /\ watched \subseteq watched' /\ watched' \subseteq watched \cup {Admin}
  BY ListFacts
<1>2. Sound' = Sound /\ \A w : Good(w)' <=> Good(w)
  BY <1>1 DEF Sound, Good, disk, history
<1>3. Ordered'
  BY <1>1, <1>2, LoopOrder
<1>4. \A w \in Worktree, p \in Place :
         p \in Places(w) => (p \in watched \cap kernel <=> p \in watched' \cap kernel')
  BY <1>1, PlaceFacts
<1>5. Covering'
  BY <1>1, <1>2, <1>4, PlaceFacts, RestCovers
<1> QED BY <1>3, <1>5

LEMMA DropCovers ==
    ASSUME WTypes, WTypes', Ordered, Covering, Drop
    PROVE  Ordered' /\ Covering'
<1>1. /\ loop.seen = {} /\ loop.reading = None
      /\ UNCHANGED <<disk, queue, kernel>>
      /\ \A w \in Worktree \ loop.known :
            /\ dirCount'[w] = None
            /\ w \in excused /\ w \notin excused' => ~ Stale(w)
      /\ \A w \in Worktree \cap loop.known :
            /\ dirCount'[w] = dirCount[w]
            /\ watched' \cap Places(w) = watched \cap Places(w)
            /\ w \in excused <=> w \in excused'
  BY DropFacts DEF WTypes, LoopOK
<1>2. live' = live /\ live \subseteq Worktree /\ kernel' = kernel
  BY <1>1 DEF disk, WTypes, TypeOK
<1>3. \A w \in Sound' : w \in Sound \/ ~ Stale(w)
  BY <1>1, <1>2 DEF Sound
<1>4. Ordered'
  BY <1>1, <1>2, <1>3, LoopOrder
<1>5. \A w \in Worktree : Good(w)' => Good(w) /\ w \in loop.known
  BY <1>1, <1>2 DEF Good, Sound
<1>6. Covering'
  BY <1>1, <1>2, <1>5, RestCovers
<1> QED BY <1>4, <1>6

\* The loop hands on a hint, or turns to one, to a tick or to nothing.
LEMMA TurnCovers ==
    ASSUME WTypes, WTypes', Ordered, Covering, NEW k \in Key,
           TimerFires(k) \/ TakeFired(k) \/ Tick \/ Call
    PROVE  Ordered' /\ Covering'
<1>1. CASE TimerFires(k)
  <2>1. UNCHANGED <<disk, kernel, queue, session, loop, history>>
    BY <1>1 DEF TimerFires
  <2>2. Ordered'
    BY <2>1, LoopOrder DEF Sound, disk, history
  <2>3. /\ \A w : Good(w)' <=> Good(w)
        /\ \A x : Covered(x)' <=> Covered(x)
        /\ \A x : On(x)' <=> On(x)
    BY <2>1 DEF Good, Sound, Covered, On, Leaves, Comes, Ahead, Settled, Above,
                disk, session, history
  <2>4. Covering'
    BY <2>1, <2>3 DEF Covering, AllCovered, Roots, Gits, disk, session
  <2> QED BY <2>2, <2>4
<1>2. CASE TakeFired(k) \/ Tick \/ Call
  <2>1. /\ loop.at # "walk" /\ UNCHANGED <<disk, kernel, queue, session, excused>>
    BY <1>2 DEF TakeFired, Tick, Call, Selecting, history
  <2>2. loop.seen = {} /\ loop.reading = None
    BY <2>1 DEF WTypes, LoopOK
  <2>3. Sound' = Sound /\ \A w : Good(w)' <=> Good(w)
    BY <2>1 DEF Sound, Good, disk, session
  <2>4. Ordered'
    BY <2>1, <2>3, LoopOrder
  <2>5. Covering'
    BY <2>1, <2>2, <2>3, RestCovers DEF session
  <2> QED BY <2>4, <2>5
<1> QED BY <1>1, <1>2

-----------------------------------------------------------------------------
(* Handling an event.                                                      *)

LEMMA HandleCovers ==
    ASSUME WTypes, Ordered, Covering, Handle
    PROVE  Ordered' /\ Covering'
<1> DEFINE e == Head(queue)
<1>1. /\ queue # <<>> /\ queue' = Tail(queue) /\ e \in Event
      /\ loop.seen = {} /\ loop.reading = None
      /\ UNCHANGED <<disk, kernel, excused>>
  BY HandleFacts DEF history
<1>2. /\ Ordered'
      /\ \A d : Leaves(d)' => Leaves(d)
      /\ \A d : Leaves(d) => Leaves(d)' \/ Lost(e, d)
      /\ \A d : Comes(d) => Comes(d)' \/ Made(e, d)
      /\ \A d \in dirs : Owner[d] \in Sound /\ Lost(e, d) =>
            Comes(d)' \/ Leaves(Parent[d])'
  BY <1>1, HandleOrder
<1>3. Sound' = Sound /\ dirs' = dirs /\ kernel' = kernel /\ \A x \in Dir : ~ Ahead(x)
  BY <1>1, ConstantTypes DEF Sound, disk, Ahead
<1>4. \A d \in Sub : Lost(e, d) \/ Made(e, d) => e.in = Work(Parent[d])
  <2>1. 1 \in DOMAIN queue /\ queue[1] = e
    BY <1>1, TailFacts DEF WTypes
  <2> QED BY <2>1, ConstantTypes DEF WTypes, Events, Lost, Made
<1>5. ASSUME NEW c \in dirs
      PROVE  /\ c \in Sub /\ c \in Dir /\ Parent[c] \in Dir /\ Parent[c] \in Above(Parent[c])
             /\ \A a \in Above(Parent[c]) : a \in Dir
             /\ \A a \in Above(Parent[c]) \cap Sub : Parent[a] \in Above(Parent[c])
  BY AboveFacts, ConstantTypes DEF WTypes, TypeOK
<1> HIDE DEF e
<1>6. \A d \in Dir : (Lost(e, d) \/ Made(e, d)) /\ d \notin Sub => FALSE
  <2>1. e.name \in Sub \cup {None}
    BY <1>1 DEF Event
  <2> QED BY <2>1, ConstantTypes DEF Lost, Made
\* Nobody listens where the event comes from.
<1>7. CASE (e.in \notin watched \/ e.in = Admin) /\ UNCHANGED <<session, loop>>
  <2>1. /\ \A x : On(x)' <=> On(x)
        /\ \A w : Good(w)' <=> Good(w)
    BY <1>3, <1>7 DEF On, Good, session
  <2>2. \A d \in Sub : Lost(e, d) \/ Made(e, d) => ~ On(Parent[d])'
    BY <1>4, <1>7, <2>1, PlaceFacts, ConstantTypes DEF On
  <2>3. ASSUME NEW c \in dirs, Good(Owner[c]) PROVE Covered(c)'
    <3>1. Covered(c)
      BY <2>3 DEF Covering, AllCovered
    <3>2. Lost(e, c) \/ Made(e, c) => ~ Settled(Parent[c])'
      BY <1>5, <2>2 DEF Settled
    <3>3. ASSUME NEW a \in Above(Parent[c]), ~ Settled(a)
          PROVE  \E b \in Above(Parent[c]) : ~ Settled(b)'
      <4>1. CASE Lost(e, a)
        <5>1. a \in Sub /\ Parent[a] \in Above(Parent[c])
          BY <1>5, <1>6, <3>3, <4>1
        <5> QED BY <2>2, <4>1, <5>1 DEF Settled
      <4>2. CASE ~ Lost(e, a)
        BY <1>2, <1>3, <1>5, <2>1, <3>3, <4>2 DEF Settled
      <4> QED BY <4>1, <4>2
    <3> QED BY <1>2, <1>3, <1>5, <2>1, <3>1, <3>2, <3>3 DEF Covered
  <2>4. Covering'
    BY <1>1, <1>3, <1>7, <2>1, <2>3 DEF Covering, AllCovered, Roots, Gits, session
  <2> QED BY <1>2, <2>4
\* A new directory is walked.
<1>8. ASSUME NEW d \in dirs, e.op = "create", e.name = d, UNCHANGED session,
             loop'.seen = {d}
      PROVE  Ordered' /\ Covering'
  <2>1. /\ \A x : On(x)' <=> On(x)
        /\ \A w : Good(w)' <=> Good(w)
        /\ \A x : ~ Lost(e, x)
        /\ \A x : Made(e, x) => Ahead(x)'
    BY <1>3, <1>8 DEF On, Good, session, Lost, Made, Ahead
  <2>2. ASSUME NEW c \in dirs, Good(Owner[c]) PROVE Covered(c)'
    <3>1. Covered(c)
      BY <2>2 DEF Covering, AllCovered
    <3>2. \A a \in Above(Parent[c]) : ~ Settled(a) => ~ Settled(a)'
      BY <1>2, <1>3, <1>5, <2>1 DEF Settled
    <3> QED BY <1>2, <1>3, <1>5, <2>1, <3>1, <3>2 DEF Covered
  <2>3. Covering'
    BY <1>1, <1>3, <1>8, <2>1, <2>2 DEF Covering, AllCovered, Roots, Gits, session
  <2> QED BY <1>2, <2>3
\* Of a directory that goes the watch is forgotten, here or before.
<1>9. ASSUME UNCHANGED loop, watched' \subseteq watched,
             e.op = "create" => e.name \notin dirs,
             e.op = "remove" => Work(e.name) \notin watched',
             \A x \in Dir : Work(x) \in watched /\ ~ Lost(e, x) => Work(x) \in watched',
             \A w \in Worktree : Git(w) \in watched => Git(w) \in watched',
             \A w \in Worktree : dirCount'[w] # None => dirCount[w] # None
      PROVE  Ordered' /\ Covering'
  <2>1. \A w \in Worktree : Good(w)' => Good(w)
    BY <1>3, <1>9 DEF Good
  <2>2. /\ \A x : On(x)' => On(x)
        /\ \A x \in Dir : On(x) /\ ~ Lost(e, x) => On(x)'
        /\ \A x : Lost(e, x) => ~ On(x)'
        /\ \A x \in dirs : ~ Made(e, x)
    BY <1>3, <1>9 DEF On, Lost, Made
  <2>3. ASSUME NEW c \in dirs, Good(Owner[c])' PROVE Covered(c)'
    <3>1. Covered(c) /\ Owner[c] \in Sound
      BY <1>5, <2>1, <2>3, ConstantTypes DEF Covering, AllCovered, Good
    <3>2. Lost(e, c) => Comes(c)' \/ ~ Settled(Parent[c])'
      BY <1>2, <3>1 DEF Settled
    <3>3. \A a \in Above(Parent[c]) : ~ Settled(a) => ~ Settled(a)'
      BY <1>2, <1>3, <1>5, <2>2 DEF Settled
    <3> QED BY <1>2, <1>3, <1>5, <2>2, <3>1, <3>2, <3>3 DEF Covered
  <2>4. Roots'
    <3> SUFFICES ASSUME NEW w \in Worktree, Good(w)' PROVE On(w)'
      BY DEF Roots
    <3>1. On(w) /\ w \in Dir /\ w \notin Sub
      BY <1>1, <2>1, ConstantTypes DEF Covering, Roots
    <3> QED BY <1>6, <2>2, <3>1
  <2>5. Gits'
    BY <1>3, <1>9, <2>1 DEF Covering, Gits
  <2>6. AllCovered'
    BY <1>3, <2>3 DEF AllCovered
  <2> QED BY <1>2, <2>4, <2>5, <2>6 DEF Covering
<1>10. CASE /\ UNCHANGED <<session, loop>>
            /\ e.op = "remove" => Work(e.name) \notin watched
            /\ e.op = "create" => e.name \notin dirs
  BY <1>9, <1>10 DEF session
<1>11. ASSUME NEW d \in Sub, e.op = "remove", e.name = d, Work(d) \in watched,
              watched' = watched \ {Work(d)},
              dirCount' = [dirCount EXCEPT ![Owner[d]] = @ - 1], UNCHANGED loop
       PROVE  Ordered' /\ Covering'
  <2>1. d \in Dir /\ Owner[d] \in Worktree
    BY ConstantTypes
  <2>2. dirCount[Owner[d]] # None
    BY <1>11, <2>1, PlaceFacts, KnownPlaces
  <2>3. \A w \in Worktree : dirCount'[w] # None => dirCount[w] # None
    BY <1>11, <2>1, <2>2 DEF WTypes, TypeOK
  <2>4. \A x \in Dir : Work(x) \in watched /\ ~ Lost(e, x) => Work(x) \in watched'
    BY <1>11, <2>1, PlaceFacts DEF Lost
  <2>5. \A w \in Worktree : Git(w) \in watched => Git(w) \in watched'
    BY <1>11, <2>1, PlaceFacts
  <2> QED BY <1>9, <1>11, <2>3, <2>4, <2>5
<1>12. \A d \in dirs : loop' = [Idle EXCEPT !.at = "walk", !.walk = Owner[d], !.seen = {d}]
          => loop'.seen = {d}
  BY DEF Idle
<1> QED BY <1>7, <1>8, <1>10, <1>11, <1>12, HandleFacts DEF e

CompleteInv == WInv /\ Ordered /\ Covering

LEMMA InitCovers ==
    ASSUME Init
    PROVE  CompleteInv
<1>1. /\ queue = <<>> /\ dirs = {} /\ dirCount = [w \in Worktree |-> None]
  BY DEF Init
<1>2. DOMAIN queue = {}
  BY <1>1
<1>3. Ordered
  BY <1>2 DEF Ordered, GoneOrdered, BackOrdered
<1>4. Covering
  BY <1>1 DEF Covering, AllCovered, Roots, Gits, Good
<1> QED BY <1>3, <1>4, InitTypes DEF CompleteInv

LEMMA NextCovers ==
    ASSUME CompleteInv, [Next]_vars
    PROVE  CompleteInv'
<1>1. WTypes /\ Ordered /\ Covering /\ WInv' /\ WTypes'
  BY NextTypes DEF CompleteInv, WInv
<1>2. CASE Agents
  BY <1>1, <1>2, AddWorktreeCovers, RemoveWorktreeCovers, ChangeCovers, MkdirCovers,
     RmdirCovers DEF Agents, CompleteInv
<1>3. ASSUME NEW d \in Dir, Visit(d) \/ VisitSkips(d) \/ VisitFails(d) PROVE CompleteInv'
  BY <1>1, <1>3, VisitCovers, PassCovers DEF CompleteInv
<1>4. CASE ReadDir \/ WalkEnds
  BY <1>1, <1>4, ReadDirCovers, WalkEndsCovers DEF CompleteInv
<1>5. CASE List \/ ListFails \/ DiscoverFails
  BY <1>1, <1>5, ListCovers DEF CompleteInv
<1>6. CASE Drop
  BY <1>1, <1>6, DropCovers DEF CompleteInv
<1>7. CASE Handle
  BY <1>1, <1>7, HandleCovers DEF CompleteInv
<1>8. ASSUME NEW k \in Key, TimerFires(k) \/ TakeFired(k) \/ Tick \/ Call
      PROVE  CompleteInv'
  BY <1>1, <1>8, TurnCovers DEF CompleteInv
<1>9. CASE UNCHANGED vars
  <2>1. Ordered' /\ Covering'
    BY <1>1, <1>9
      DEF vars, disk, session, history, Ordered, GoneOrdered, BackOrdered, Covering,
          AllCovered, Covered, Roots, Gits, Good, Sound, On, Leaves, Comes, Ahead, Settled
  <2> QED BY <1>1, <2>1 DEF CompleteInv
<1>10. CASE Tick \/ Call
  BY <1>8, <1>10, ConstantTypes
<1> QED BY <1>2, <1>3, <1>4, <1>5, <1>6, <1>7, <1>8, <1>9, <1>10 DEF Next, Step, Walk

(* When the watcher has nothing left to handle, it watches the gitdir and    *)
(* every directory of each worktree it knows, for every tree of directories, *)
(* every number of changes and every order in which they meet the walk and   *)
(* the events (fswatcher.go:193-289, 315-349).                               *)
THEOREM CompleteSound == Spec => []Complete
<1>1. CompleteInv => Complete
  BY CoveringComplete DEF CompleteInv, WInv
<1>2. Spec => []CompleteInv
  BY InitCovers, NextCovers, PTL DEF Spec
<1> QED BY <1>1, <1>2, PTL

=============================================================================
