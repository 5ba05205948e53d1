--------------------------- MODULE NotifierProofs ---------------------------
(***************************************************************************)
(* Proofs about Notifier: its type invariant, that no hit waits without a  *)
(* window, and that it implements Alerts.                                  *)
(*                                                                         *)
(* The inductive invariant says how the three places a hit can be in relate*)
(* to each other: order lists exactly the worktrees with pending hits, once*)
(* each; firing names exactly the worktrees of the batch, once each; and   *)
(* the loop never collects while it fires.                                 *)
(***************************************************************************)
EXTENDS Notifier, TLAPS

\* order is the groups of pending, each once.
Grouped ==
    /\ \A w \in Worktree : pending[w] > 0 <=> \E i \in DOMAIN order : order[i] = w
    /\ \A i, j \in DOMAIN order : order[i] = order[j] => i = j

\* firing is the worktrees of batch, each in one notification.
Batched ==
    /\ \A w \in Worktree : batch[w] > 0 <=> \E i \in DOMAIN firing : w \in firing[i]
    /\ \A i, j \in DOMAIN firing : i # j => firing[i] \cap firing[j] = {}
    /\ \A i \in DOMAIN firing : firing[i] # {}

\* Hits are collected or fired, never both.
OneAtATime == firing # <<>> => order = <<>>

Watched == order # <<>> => window # None

NInv == TypeOK /\ Grouped /\ Batched /\ OneAtATime /\ Watched

-----------------------------------------------------------------------------
\* The notifications of a flush are sets of worktrees.
LEMMA NotificationsType ==
    ASSUME order \in Seq(Worktree)
    PROVE  Notifications \in Seq(SUBSET Worktree)
<1>1. CASE Len(order) > StormThreshold
  <2>1. Named(order) \in SUBSET Worktree
    BY DEF Named
  <2> QED BY <1>1, <2>1 DEF Notifications
<1>2. CASE ~ (Len(order) > StormThreshold)
  <2>1. DOMAIN order = 1 .. Len(order) /\ Len(order) \in Nat
    OBVIOUS
  <2>2. \A i \in 1 .. Len(order) : {order[i]} \in SUBSET Worktree
    OBVIOUS
  <2>3. [i \in 1 .. Len(order) |-> {order[i]}] \in Seq(SUBSET Worktree)
    BY <2>1, <2>2
  <2> QED BY <1>2, <2>1, <2>3 DEF Notifications
<1> QED BY <1>1, <1>2

\* They name each waiting worktree, and none twice.
LEMMA NotificationsSplit ==
    ASSUME order \in Seq(Worktree), StormThreshold \in Nat,
           \A i, j \in DOMAIN order : order[i] = order[j] => i = j
    PROVE  /\ \A w : (\E i \in DOMAIN order : order[i] = w)
                     <=> \E i \in DOMAIN Notifications : w \in Notifications[i]
           /\ \A i, j \in DOMAIN Notifications :
                 i # j => Notifications[i] \cap Notifications[j] = {}
           /\ \A i \in DOMAIN Notifications : Notifications[i] # {}
<1>1. CASE Len(order) > StormThreshold
  <2>1. Notifications = <<Named(order)>>
    BY <1>1 DEF Notifications
  <2>2. DOMAIN Notifications = {1} /\ Notifications[1] = Named(order)
    BY <2>1
  <2>3. Named(order) # {}
    <3>1. 1 \in DOMAIN order
      BY <1>1
    <3> QED BY <3>1 DEF Named
  <2> QED BY <2>2, <2>3 DEF Named
<1>2. CASE ~ (Len(order) > StormThreshold)
  <2>1. Notifications = [i \in DOMAIN order |-> {order[i]}]
    BY <1>2 DEF Notifications
  <2>2. DOMAIN Notifications = DOMAIN order
    BY <2>1
  <2>3. \A i \in DOMAIN order : Notifications[i] = {order[i]}
    BY <2>1
  <2> DEFINE N == Notifications
  <2>4. DOMAIN N = DOMAIN order /\ \A i \in DOMAIN order : N[i] = {order[i]}
    BY <2>2, <2>3
  <2> HIDE DEF N
  <2>5. \A w : (\E i \in DOMAIN order : order[i] = w) <=> \E i \in DOMAIN N : w \in N[i]
    BY <2>4
  <2>6. \A i, j \in DOMAIN N : i # j => N[i] \cap N[j] = {}
    BY <2>4
  <2>7. \A i \in DOMAIN N : N[i] # {}
    BY <2>4
  <2> QED BY <2>5, <2>6, <2>7 DEF N
<1> QED BY <1>1, <1>2

\* Counting one more at one place.
LEMMA OneMore ==
    ASSUME NEW S, NEW f \in [S -> Nat], NEW x \in S
    PROVE  LET g == [f EXCEPT ![x] = @ + 1] IN
           g \in [S -> Nat] /\ g[x] = f[x] + 1 /\ \A y \in S \ {x} : g[y] = f[y]
OBVIOUS

-----------------------------------------------------------------------------
LEMMA Initially ==
    ASSUME NotifierAssumption, Init PROVE NInv
<1> USE DEF Init, Nothing
<1>1. TypeOK
  BY DEF TypeOK, NotifierAssumption
<1>2. Grouped /\ Batched /\ OneAtATime /\ Watched
  BY DEF Grouped, Batched, OneAtATime, Watched
<1> QED BY <1>1, <1>2 DEF NInv

\* Events come and go without a trace on the groups.
LEMMA PublishKeeps ==
    ASSUME NotifierAssumption, NInv, NEW w \in Worktree, NEW r \in Rule, Publish(w, r)
    PROVE  NInv'
<1> USE DEF NInv, Publish
<1>1. ch' \in Seq(Worktree \X Rule) /\ Len(ch') <= Buffer
  BY DEF TypeOK, NotifierAssumption
<1>2. TypeOK'
  BY <1>1 DEF TypeOK
<1>3. Grouped' /\ Batched' /\ OneAtATime' /\ Watched'
  BY DEF Grouped, Batched, OneAtATime, Watched
<1> QED BY <1>2, <1>3

LEMMA SkipKeeps ==
    ASSUME NotifierAssumption, NInv, Skip
    PROVE  NInv'
<1> USE DEF NInv, Skip
<1>1. ch' \in Seq(Worktree \X Rule) /\ Len(ch') <= Buffer
  BY DEF TypeOK, NotifierAssumption
<1>2. TypeOK'
  BY <1>1 DEF TypeOK
<1>3. Grouped' /\ Batched' /\ OneAtATime' /\ Watched'
  BY DEF Grouped, Batched, OneAtATime, Watched
<1> QED BY <1>2, <1>3

\* The head of the channel, when it is taken on, is a hit.
LEMMA HeadIsHit ==
    ASSUME TypeOK, ch # <<>>, Taken(Head(ch))
    PROVE  Head(ch) \in Hit /\ Head(ch)[1] \in Worktree
<1>1. Head(ch) \in Worktree \X Rule
  BY DEF TypeOK
<1>2. Head(ch)[2] \in Loud
  BY DEF Taken
<1> QED BY <1>1, <1>2 DEF Hit

LEMMA IngestKeeps ==
    ASSUME NotifierAssumption, NInv, Ingest
    PROVE  NInv'
<1> DEFINE h == Head(ch)
<1>1. TypeOK /\ Grouped /\ Batched /\ OneAtATime /\ Watched
  BY DEF NInv
<1>2. /\ ch # <<>> /\ firing = <<>>
      /\ Taken(h)
      /\ ch' = Tail(ch)
      /\ cool' = [cool EXCEPT ![h] = Cooldown]
      /\ pending' = [pending EXCEPT ![h[1]] = @ + 1]
      /\ order' = IF h[1] \in Named(order) THEN order ELSE Append(order, h[1])
      /\ window' = Armed(h)
      /\ told' = {}
      /\ UNCHANGED <<batch, firing, running>>
  BY DEF Ingest, Selecting
<1>3. h \in Hit /\ h[1] \in Worktree
  BY <1>1, <1>2, HeadIsHit
<1>4. ch' \in Seq(Worktree \X Rule) /\ Len(ch') <= Buffer
  BY <1>1, <1>2 DEF TypeOK, NotifierAssumption
<1> HIDE DEF h
<1>5. /\ pending' \in [Worktree -> Nat]
      /\ pending'[h[1]] = pending[h[1]] + 1
      /\ \A w \in Worktree \ {h[1]} : pending'[w] = pending[w]
  <2>1. pending \in [Worktree -> Nat] /\ h[1] \in Worktree
    BY <1>1, <1>3 DEF TypeOK
  <2>2. pending' = [pending EXCEPT ![h[1]] = @ + 1]
    BY <1>2
  <2> QED BY <2>1, <2>2, OneMore
<1>6. TypeOK'
  <2>1. cool' \in [Hit -> 0 .. Cooldown]
    BY <1>1, <1>2, <1>3 DEF TypeOK, NotifierAssumption
  <2>2. order' \in Seq(Worktree)
    BY <1>1, <1>2, <1>3 DEF TypeOK
  <2>3. window' \in 0 .. Window \cup {None}
    BY <1>1, <1>2 DEF TypeOK, Armed, NotifierAssumption
  <2> QED BY <1>1, <1>2, <1>4, <1>5, <2>1, <2>2, <2>3 DEF TypeOK
<1>7. Grouped'
  <2>1. CASE h[1] \in Named(order)
    <3>1. PICK i \in DOMAIN order : order[i] = h[1]
      BY <2>1 DEF Named
    <3>2. order' = order
      BY <1>2, <2>1
    <3>3. pending[h[1]] > 0
      BY <1>1, <1>3, <3>1 DEF Grouped
    <3>4. \A w \in Worktree : pending'[w] > 0 <=> pending[w] > 0
      <4>1. SUFFICES ASSUME NEW w \in Worktree PROVE pending'[w] > 0 <=> pending[w] > 0
        OBVIOUS
      <4>2. pending[w] \in Nat
        BY <1>1 DEF TypeOK
      <4>3. CASE w = h[1]
        BY <1>5, <3>3, <4>2, <4>3
      <4>4. CASE w # h[1]
        BY <1>5, <4>4
      <4> QED BY <4>3, <4>4
    <3>5. \A w \in Worktree : pending'[w] > 0 <=> \E j \in DOMAIN order' : order'[j] = w
      BY <1>1, <3>2, <3>4 DEF Grouped
    <3> QED BY <1>1, <3>2, <3>5 DEF Grouped
  <2>2. CASE h[1] \notin Named(order)
    <3>1. order \in Seq(Worktree) /\ Len(order) \in Nat /\ DOMAIN order = 1 .. Len(order)
      BY <1>1 DEF TypeOK
    <3>2. /\ DOMAIN order' = 1 .. Len(order) + 1
          /\ order'[Len(order) + 1] = h[1]
          /\ \A i \in 1 .. Len(order) : order'[i] = order[i]
      BY <1>2, <1>3, <2>2, <3>1
    <3>3. \A i \in 1 .. Len(order) : order[i] # h[1]
      BY <2>2, <3>1 DEF Named
    <3>4. \A i, j \in DOMAIN order' : order'[i] = order'[j] => i = j
      BY <1>1, <3>1, <3>2, <3>3 DEF Grouped
    <3>5. ASSUME NEW w \in Worktree
          PROVE  pending'[w] > 0 <=> \E i \in DOMAIN order' : order'[i] = w
      <4>1. CASE w = h[1]
        <5>1. pending'[w] > 0
          BY <1>1, <1>5, <4>1 DEF TypeOK
        <5>2. Len(order) + 1 \in DOMAIN order'
          BY <3>1, <3>2
        <5> QED BY <5>1, <5>2, <3>2, <4>1
      <4>2. CASE w # h[1]
        <5>1. pending'[w] = pending[w]
          BY <1>5, <4>2
        <5>2. (\E i \in DOMAIN order' : order'[i] = w) <=> \E i \in DOMAIN order : order[i] = w
          BY <3>1, <3>2, <4>2
        <5> QED BY <1>1, <5>1, <5>2 DEF Grouped
      <4> QED BY <4>1, <4>2
    <3> QED BY <3>4, <3>5 DEF Grouped
  <2> QED BY <2>1, <2>2
<1>8. Batched' /\ OneAtATime'
  BY <1>1, <1>2 DEF Batched, OneAtATime
<1>9. Watched'
  BY <1>1, <1>2 DEF Watched, Armed, NotifierAssumption
<1> QED BY <1>6, <1>7, <1>8, <1>9 DEF NInv

LEMMA FlushKeeps ==
    ASSUME NotifierAssumption, NInv, Flush
    PROVE  NInv'
<1>1. TypeOK /\ Grouped
  BY DEF NInv
<1>2. /\ firing = <<>>
      /\ window' = None
      /\ firing' = Notifications
      /\ batch' = pending
      /\ pending' = Nothing
      /\ order' = <<>>
      /\ told' = {}
      /\ UNCHANGED <<ch, cool, running>>
  BY DEF Flush, Selecting
<1>3. Notifications \in Seq(SUBSET Worktree)
  BY <1>1, NotificationsType DEF TypeOK
<1>4. /\ \A w : (\E i \in DOMAIN order : order[i] = w)
                <=> \E i \in DOMAIN Notifications : w \in Notifications[i]
      /\ \A i, j \in DOMAIN Notifications :
            i # j => Notifications[i] \cap Notifications[j] = {}
      /\ \A i \in DOMAIN Notifications : Notifications[i] # {}
  <2>1. order \in Seq(Worktree) /\ StormThreshold \in Nat
    BY <1>1 DEF TypeOK, NotifierAssumption
  <2>2. \A i, j \in DOMAIN order : order[i] = order[j] => i = j
    BY <1>1 DEF Grouped
  <2> QED BY <2>1, <2>2, NotificationsSplit
<1>5. TypeOK'
  BY <1>1, <1>2, <1>3 DEF TypeOK, Nothing
<1>6. Grouped'
  BY <1>2 DEF Grouped, Nothing
<1>7. Batched'
  BY <1>1, <1>2, <1>4 DEF Batched, Grouped
<1>8. OneAtATime' /\ Watched'
  BY <1>2 DEF OneAtATime, Watched
<1> QED BY <1>5, <1>6, <1>7, <1>8 DEF NInv

LEMMA FireKeeps ==
    ASSUME NotifierAssumption, NInv, Fire
    PROVE  NInv'
<1>1. TypeOK /\ Grouped /\ Batched /\ OneAtATime /\ Watched
  BY DEF NInv
<1>2. /\ firing # <<>>
      /\ told' = Head(firing)
      /\ firing' = Tail(firing)
      /\ batch' = [w \in Worktree |-> IF w \in Head(firing) THEN 0 ELSE batch[w]]
      /\ UNCHANGED <<ch, cool, pending, order, window, running>>
  BY DEF Fire
<1>3. firing \in Seq(SUBSET Worktree)
  BY <1>1 DEF TypeOK
<1>4. /\ Len(firing) \in Nat /\ Len(firing) > 0
      /\ DOMAIN firing = 1 .. Len(firing)
      /\ Head(firing) = firing[1]
      /\ Head(firing) \in SUBSET Worktree
  BY <1>2, <1>3
<1>5. /\ firing' \in Seq(SUBSET Worktree)
      /\ DOMAIN firing' = 1 .. Len(firing) - 1
      /\ \A i \in 1 .. Len(firing) - 1 : firing'[i] = firing[i + 1]
  BY <1>2, <1>3, <1>4
<1>6. TypeOK'
  <2>1. batch' \in [Worktree -> Nat]
    BY <1>1, <1>2 DEF TypeOK
  <2> QED BY <1>1, <1>2, <1>4, <1>5, <2>1 DEF TypeOK
<1>7. Batched'
  <2>1. ASSUME NEW w \in Worktree
        PROVE  batch'[w] > 0 <=> \E i \in DOMAIN firing' : w \in firing'[i]
    <3>1. CASE w \in Head(firing)
      <4>1. ASSUME NEW i \in DOMAIN firing', w \in firing'[i] PROVE FALSE
        <5>1. i + 1 \in DOMAIN firing /\ 1 \in DOMAIN firing /\ i + 1 # 1
          BY <1>4, <1>5
        <5>2. w \in firing[i + 1] /\ w \in firing[1]
          BY <1>4, <1>5, <3>1, <4>1
        <5> QED BY <1>1, <5>1, <5>2 DEF Batched
      <4>2. batch'[w] = 0
        BY <1>2, <3>1
      <4> QED BY <4>1, <4>2
    <3>2. CASE w \notin Head(firing)
      <4>1. batch'[w] = batch[w]
        BY <1>2, <3>2
      <4>2. ASSUME NEW i \in DOMAIN firing, w \in firing[i]
            PROVE  \E j \in DOMAIN firing' : w \in firing'[j]
        <5>1. i # 1
          BY <1>4, <3>2, <4>2
        <5>2. i - 1 \in DOMAIN firing' /\ firing'[i - 1] = firing[i]
          BY <1>4, <1>5, <5>1
        <5> QED BY <4>2, <5>2
      <4>3. ASSUME NEW i \in DOMAIN firing', w \in firing'[i]
            PROVE  \E j \in DOMAIN firing : w \in firing[j]
        <5>1. i + 1 \in DOMAIN firing /\ firing'[i] = firing[i + 1]
          BY <1>4, <1>5
        <5> QED BY <4>3, <5>1
      <4> QED BY <1>1, <4>1, <4>2, <4>3 DEF Batched
    <3> QED BY <3>1, <3>2
  <2>2. ASSUME NEW i \in DOMAIN firing', NEW j \in DOMAIN firing', i # j
        PROVE  firing'[i] \cap firing'[j] = {}
    <3>1. /\ i + 1 \in DOMAIN firing /\ j + 1 \in DOMAIN firing /\ i + 1 # j + 1
          /\ firing'[i] = firing[i + 1] /\ firing'[j] = firing[j + 1]
      BY <1>4, <1>5, <2>2
    <3> QED BY <1>1, <3>1 DEF Batched
  <2>3. ASSUME NEW i \in DOMAIN firing'
        PROVE  firing'[i] # {}
    <3>1. i + 1 \in DOMAIN firing /\ firing'[i] = firing[i + 1]
      BY <1>4, <1>5
    <3> QED BY <1>1, <3>1 DEF Batched
  <2> QED BY <2>1, <2>2, <2>3 DEF Batched
<1>8. Grouped' /\ OneAtATime' /\ Watched'
  BY <1>1, <1>2 DEF Grouped, OneAtATime, Watched
<1> QED BY <1>6, <1>7, <1>8 DEF NInv

LEMMA StopKeeps ==
    ASSUME NotifierAssumption, NInv, Stop
    PROVE  NInv'
<1> USE DEF NInv, Stop
<1>1. TypeOK'
  BY DEF TypeOK
<1>2. Grouped' /\ Batched' /\ OneAtATime' /\ Watched'
  BY DEF Grouped, Batched, OneAtATime, Watched
<1> QED BY <1>1, <1>2

LEMMA TickKeeps ==
    ASSUME NotifierAssumption, NInv, Tick
    PROVE  NInv'
<1> USE DEF NInv, Tick
<1>1. TypeOK'
  <2>1. cool' \in [Hit -> 0 .. Cooldown]
    BY DEF TypeOK, Less, NotifierAssumption
  <2>2. window' \in 0 .. Window \cup {None}
    BY DEF TypeOK, Less, NotifierAssumption
  <2> QED BY <2>1, <2>2 DEF TypeOK
<1>2. Grouped' /\ Batched' /\ OneAtATime'
  BY DEF Grouped, Batched, OneAtATime
<1>3. Watched'
  BY DEF Watched, TypeOK, Less, NotifierAssumption
<1> QED BY <1>1, <1>2, <1>3

LEMMA StepKeeps ==
    ASSUME NotifierAssumption, NInv, [Next]_vars
    PROVE  NInv'
<1>1. CASE UNCHANGED vars
  BY <1>1 DEF vars, NInv, TypeOK, Grouped, Batched, OneAtATime, Watched
<1>2. CASE Next
  BY <1>2, PublishKeeps, SkipKeeps, IngestKeeps, FlushKeeps, FireKeeps, StopKeeps, TickKeeps
     DEF Next
<1> QED BY <1>1, <1>2

THEOREM Invariance == Spec => []NInv
<1>1. Init => NInv
  BY Initially, NotifierAssumption
<1>2. NInv /\ [Next]_vars => NInv'
  BY StepKeeps, NotifierAssumption
<1> QED BY <1>1, <1>2, PTL DEF Spec

\* Every variable of the notifier keeps its type, the channel its capacity.
THEOREM TypeCorrect == Spec => []TypeOK
<1>1. NInv => TypeOK
  BY DEF NInv
<1> QED BY <1>1, Invariance, PTL

\* No hit that was taken on waits without a running window (Run's windowC).
THEOREM WindowSound == Spec => []WindowArmed
<1>1. NInv => WindowArmed
  <2> SUFFICES ASSUME NInv, NEW w \in Worktree, pending[w] > 0 PROVE window # None
    BY DEF WindowArmed
  <2>1. PICK i \in DOMAIN order : order[i] = w
    BY DEF NInv, Grouped
  <2>2. order # <<>>
    BY <2>1
  <2> QED BY <2>2 DEF NInv, Watched
<1> QED BY <1>1, Invariance, PTL
-----------------------------------------------------------------------------
\* Where nothing fires, nothing is left of the last batch; where something
\* does, nothing is pending.
LEMMA OnePlace ==
    ASSUME NInv
    PROVE  /\ firing = <<>> => \A w \in Worktree : batch[w] = 0
           /\ firing # <<>> => \A w \in Worktree : pending[w] = 0
<1>1. ASSUME firing = <<>>, NEW w \in Worktree PROVE batch[w] = 0
  BY <1>1 DEF NInv, TypeOK, Batched
<1>2. ASSUME firing # <<>>, NEW w \in Worktree PROVE pending[w] = 0
  BY <1>2 DEF NInv, TypeOK, OneAtATime, Grouped
<1> QED BY <1>1, <1>2

\* A hit taken on is one that the promise accepts.
LEMMA IngestAccepts ==
    ASSUME NInv, Ingest
    PROVE  Promise!Next
<1> DEFINE h == Head(ch)
<1>1. TypeOK
  BY DEF NInv
<1>2. /\ ch # <<>> /\ Taken(h)
      /\ cool' = [cool EXCEPT ![h] = Cooldown]
      /\ pending' = [pending EXCEPT ![h[1]] = @ + 1]
      /\ told' = {}
      /\ batch' = batch
  BY DEF Ingest
<1>3. h \in Hit /\ h[1] \in Worktree
  BY <1>1, <1>2, HeadIsHit
<1>4. cool[h] = 0
  BY <1>2 DEF Taken
<1> HIDE DEF h
<1>5. Untold' = [Untold EXCEPT ![h[1]] = @ + 1]
  <2>1. pending \in [Worktree -> Nat] /\ batch \in [Worktree -> Nat]
    BY <1>1 DEF TypeOK
  <2>2. DOMAIN [Untold EXCEPT ![h[1]] = @ + 1] = Worktree /\ DOMAIN Untold' = Worktree
    BY DEF Untold
  <2>3. ASSUME NEW w \in Worktree
        PROVE  Untold'[w] = [Untold EXCEPT ![h[1]] = @ + 1][w]
    <3>1. CASE w = h[1]
      BY <1>2, <2>1, <3>1 DEF Untold
    <3>2. CASE w # h[1]
      BY <1>2, <2>1, <3>2 DEF Untold
    <3> QED BY <3>1, <3>2
  <2> QED BY <2>2, <2>3 DEF Untold
<1>6. Promise!Accept(h)
  BY <1>2, <1>4, <1>5 DEF Promise!Accept
<1>7. h \in Promise!Hit
  BY <1>3 DEF Promise!Hit, Hit
<1> QED BY <1>6, <1>7 DEF Promise!Next

\* A flush moves what is pending to the batch.
LEMMA FlushQuiet ==
    ASSUME NInv, Flush
    PROVE  Promise!Next
<1>1. TypeOK /\ \A w \in Worktree : batch[w] = 0
  BY OnePlace DEF NInv, Flush, Selecting
<1>2. Untold' = Untold
  BY <1>1 DEF Flush, Untold, Nothing, TypeOK
<1>3. told' = {} /\ cool' = cool
  BY DEF Flush
<1> QED BY <1>2, <1>3 DEF Promise!Next, Promise!Quiet

\* A notification settles what its worktrees are owed, and those were owed.
LEMMA FireTells ==
    ASSUME NInv, Fire
    PROVE  Promise!Next
<1>1. TypeOK /\ Batched /\ \A w \in Worktree : pending[w] = 0
  BY OnePlace DEF NInv, Fire
<1>2. /\ firing # <<>>
      /\ told' = Head(firing)
      /\ batch' = [w \in Worktree |-> IF w \in Head(firing) THEN 0 ELSE batch[w]]
      /\ UNCHANGED <<cool, pending>>
  BY DEF Fire
<1>3. 1 \in DOMAIN firing /\ Head(firing) = firing[1] /\ firing[1] \in SUBSET Worktree
  BY <1>1, <1>2 DEF TypeOK
<1>4. told' \in SUBSET Worktree /\ told' # {} /\ \A w \in told' : batch[w] > 0
  BY <1>1, <1>2, <1>3 DEF Batched
<1>5. \A w \in told' : Untold[w] > 0
  BY <1>1, <1>4 DEF Untold, TypeOK
<1>6. Untold' = [w \in Worktree |-> IF w \in told' THEN 0 ELSE Untold[w]]
  BY <1>1, <1>2, <1>4 DEF Untold, TypeOK
<1>7. Promise!Tell(told')
  BY <1>2, <1>4, <1>5, <1>6 DEF Promise!Tell
<1> QED BY <1>4, <1>7 DEF Promise!Next

LEMMA TickTicks ==
    ASSUME Tick
    PROVE  Promise!Next
<1>1. cool' = [h \in Promise!Hit |-> IF cool[h] > 0 THEN cool[h] - 1 ELSE 0]
  BY DEF Tick, Less, Hit, Promise!Hit
<1>2. told' = {} /\ Untold' = Untold
  BY DEF Tick, Untold
<1> QED BY <1>1, <1>2 DEF Promise!Next, Promise!Tick

LEMMA OthersQuiet ==
    ASSUME Skip \/ Stop \/ \E w \in Worktree, r \in Rule : Publish(w, r)
    PROVE  Promise!Next
<1>1. told' = {} /\ Untold' = Untold /\ cool' = cool
  BY DEF Skip, Stop, Publish, Untold
<1> QED BY <1>1 DEF Promise!Next, Promise!Quiet

\* The notifier implements Alerts: whatever the order of hits, timer, firing and
\* shutdown, a hit is taken on only after its cooldown, all that is owed for a
\* worktree is told at once, and nothing taken on is forgotten or told twice.
THEOREM ImplementsAlerts == Spec => Implements
<1>1. Init => Promise!Init
  <2> SUFFICES ASSUME Init PROVE Promise!Init
    OBVIOUS
  <2>1. Untold = [w \in Worktree |-> 0]
    BY DEF Init, Untold, Nothing
  <2> QED BY <2>1 DEF Init, Promise!Init, Promise!Hit, Hit
<1>2. NInv /\ [Next]_vars => [Promise!Next]_<<Untold, cool, told>>
  <2> SUFFICES ASSUME NInv, [Next]_vars PROVE [Promise!Next]_<<Untold, cool, told>>
    OBVIOUS
  <2>1. CASE UNCHANGED vars
    <3>1. Untold' = Untold /\ cool' = cool /\ told' = told
      BY <2>1 DEF vars, Untold
    <3> QED BY <3>1
  <2>2. CASE Next
    BY <2>2, IngestAccepts, FlushQuiet, FireTells, TickTicks, OthersQuiet DEF Next
  <2> QED BY <2>1, <2>2
<1> QED BY <1>1, <1>2, Invariance, PTL DEF Spec, Implements, Promise!Spec
=============================================================================
