----------------------------- MODULE BusProofs -----------------------------
(***************************************************************************)
(* Proofs about Bus, for every set of worktrees, toggles and fetches and   *)
(* every capacity: the types, and that a sidebar at rest shows the         *)
(* registry.                                                               *)
(*                                                                         *)
(* A sidebar that differs from the registry in a row owes that row to      *)
(* something that is still under way.  The invariant names it: a writer    *)
(* that has not published yet, the newest event of the row on its way to   *)
(* the update loop, a snapshot marker with no event of the row behind it,  *)
(* or a list fetch (AllAccounted).                                         *)
(***************************************************************************)
EXTENDS Bus, TLAPS

DeltaOf(e, w) == e.type \in {"upserted", "removed"} /\ e.id = w

Silent(q, w) == \A i \in DOMAIN q : ~ DeltaOf(q[i], w)

\* The client that has handled e shows w as row, or asks for it.
Tells(e, w, row) == e = Snapshot \/ (DeltaOf(e, w) /\ e.row = row)

\* No event of w in q is behind one that tells.
Latest(q, w, row) == \E i \in DOMAIN q :
                   /\ Tells(q[i], w, row)
                   /\ \A j \in DOMAIN q : j > i => ~ DeltaOf(q[j], w)

Pending(w) == \E p \in Writers :
    /\ todo[p] # <<>> /\ Head(todo[p]).do = "publish"
    /\ DeltaOf(Head(todo[p]).event, w)

Queued(w) == \/ Latest(sub, w, reg[w])
             \/ Silent(sub, w) /\ (conn = "subscribed" \/ Latest(inbox, w, reg[w]))

Answered == {f \in Fetches : fetch[f].at = "answered"}

\* What is asked for or answered ends up in the sidebar, or is late.
Known(w) == \/ \E f \in Fetches : fetch[f] = Asked
            \/ \E f \in Answered : fetch[f].old \/ fetch[f].rows[w] = reg[w]
            \/ Answered = {} /\ view[w] = reg[w]

Accounted(w) == \/ Pending(w)
                \/ Queued(w)
                \/ Silent(sub, w) /\ Silent(inbox, w) /\ Known(w)

AllAccounted == Subscribed /\ blame = {} => \A w \in Worktrees : Accounted(w)

BInv == TypeOK /\ AllAccounted

-----------------------------------------------------------------------------
(* Sequences.                                                              *)

LEMMA TailType ==
    ASSUME NEW S, NEW q \in Seq(S), q # <<>>
    PROVE  /\ Head(q) \in S /\ Tail(q) \in Seq(S)
           /\ Len(q) \in Nat /\ Len(q) >= 1 /\ Len(Tail(q)) = Len(q) - 1
           /\ Head(q) = q[1]
           /\ DOMAIN q = 1 .. Len(q) /\ DOMAIN Tail(q) = 1 .. Len(q) - 1
           /\ \A i \in DOMAIN Tail(q) : Tail(q)[i] = q[i + 1]
    OBVIOUS

LEMMA AppendType ==
    ASSUME NEW S, NEW q \in Seq(S), NEW e \in S
    PROVE  /\ Append(q, e) \in Seq(S)
           /\ Len(q) \in Nat /\ Len(Append(q, e)) = Len(q) + 1
           /\ DOMAIN q = 1 .. Len(q) /\ DOMAIN Append(q, e) = 1 .. Len(q) + 1
           /\ Append(q, e)[Len(q) + 1] = e
           /\ \A i \in DOMAIN q : Append(q, e)[i] = q[i]
    OBVIOUS

\* A queue that takes one more event.
LEMMA AppendLatest ==
    ASSUME NEW S, NEW q \in Seq(S), NEW e \in S, NEW w, NEW row
    PROVE  /\ Tells(e, w, row) => Latest(Append(q, e), w, row)
           /\ ~ DeltaOf(e, w) /\ Latest(q, w, row) => Latest(Append(q, e), w, row)
           /\ ~ DeltaOf(e, w) /\ Silent(q, w) => Silent(Append(q, e), w)
<1> DEFINE r == Append(q, e)
<1>1. /\ Len(q) \in Nat /\ DOMAIN q = 1 .. Len(q) /\ DOMAIN r = 1 .. Len(q) + 1
      /\ r[Len(q) + 1] = e /\ \A i \in DOMAIN q : r[i] = q[i]
  BY AppendType
<1> HIDE DEF r
<1>2. ASSUME Tells(e, w, row) PROVE Latest(r, w, row)
  BY <1>1, <1>2 DEF Latest
<1>3. ASSUME ~ DeltaOf(e, w), Latest(q, w, row) PROVE Latest(r, w, row)
  <2>1. PICK i \in DOMAIN q : Tells(q[i], w, row) /\ \A j \in DOMAIN q : j > i => ~ DeltaOf(q[j], w)
    BY <1>3 DEF Latest
  <2>2. i \in DOMAIN r /\ Tells(r[i], w, row)
    BY <1>1, <2>1
  <2>3. ASSUME NEW j \in DOMAIN r, j > i PROVE ~ DeltaOf(r[j], w)
    BY <1>1, <1>3, <2>1, <2>3
  <2> QED BY <2>2, <2>3 DEF Latest
<1>4. ASSUME ~ DeltaOf(e, w), Silent(q, w) PROVE Silent(r, w)
  BY <1>1, <1>4 DEF Silent
<1> QED BY <1>2, <1>3, <1>4 DEF r

\* A queue that gives up its head.
LEMMA TailLatest ==
    ASSUME NEW S, NEW q \in Seq(S), q # <<>>, NEW w, NEW row
    PROVE  /\ Silent(q, w) => Silent(Tail(q), w) /\ ~ DeltaOf(Head(q), w)
           /\ Latest(q, w, row) =>
                \/ Latest(Tail(q), w, row)
                \/ Tells(Head(q), w, row) /\ Silent(Tail(q), w)
<1> DEFINE r == Tail(q)
<1>1. /\ Len(q) \in Nat /\ Len(q) >= 1 /\ DOMAIN q = 1 .. Len(q)
      /\ DOMAIN r = 1 .. Len(q) - 1 /\ Head(q) = q[1]
      /\ \A i \in DOMAIN r : r[i] = q[i + 1]
  BY TailType
<1> HIDE DEF r
<1>2. ASSUME Silent(q, w) PROVE Silent(r, w) /\ ~ DeltaOf(Head(q), w)
  BY <1>1, <1>2 DEF Silent
<1>3. ASSUME Latest(q, w, row) PROVE Latest(r, w, row) \/ (Tells(Head(q), w, row) /\ Silent(r, w))
  <2>1. PICK i \in DOMAIN q : Tells(q[i], w, row) /\ \A j \in DOMAIN q : j > i => ~ DeltaOf(q[j], w)
    BY <1>3 DEF Latest
  <2>2. CASE i = 1
    BY <1>1, <2>1, <2>2 DEF Silent
  <2>3. CASE i # 1
    <3>1. i - 1 \in DOMAIN r /\ Tells(r[i - 1], w, row)
      BY <1>1, <2>1, <2>3
    <3>2. ASSUME NEW j \in DOMAIN r, j > i - 1 PROVE ~ DeltaOf(r[j], w)
      BY <1>1, <2>1, <3>2
    <3> QED BY <3>1, <3>2 DEF Latest
  <2> QED BY <2>2, <2>3
<1> QED BY <1>2, <1>3 DEF r

-----------------------------------------------------------------------------
(* Types.                                                                  *)

LEMMA ConstantTypes ==
    /\ Engine \in Writers /\ Engine \notin Toggles /\ Toggles \subseteq Writers
    /\ Buffer \in Nat /\ Buffer > 0 /\ Inbox \in Nat /\ Inbox > 0
    /\ MaxWrites \in Nat /\ MaxTroubles \in Nat
    BY BusAssumption DEF Writers

LEMMA EventType ==
    ASSUME NEW e \in Event \cup {Snapshot}
    PROVE  /\ e.type \in {"upserted", "removed", "diff.ready", "review.changed", "snapshot"}
           /\ e = Snapshot <=> e.type = "snapshot"
           /\ e # Snapshot => e \in Event /\ e.id \in Worktrees
           /\ e.type \in {"upserted", "removed"} => e.row \in Row \cup {Gone}
<1>1. CASE e = Snapshot
  BY <1>1 DEF Snapshot
<1>2. CASE e \in [type : {"upserted"}, id : Worktrees, row : Row]
  BY <1>2 DEF Snapshot, Event, Delta
<1>3. CASE e \in [type : {"removed"}, id : Worktrees, row : {Gone}]
  BY <1>3 DEF Snapshot, Event, Delta
<1>4. CASE e \in Notice
  BY <1>4 DEF Snapshot, Event, Notice
<1> QED BY <1>1, <1>2, <1>3, <1>4 DEF Event, Delta

LEMMA StepType ==
    ASSUME NEW s \in Step
    PROVE  /\ s.do \in {"put", "delete", "publish"}
           /\ s.do = "put" => s.id \in Worktrees /\ s.row \in Row
           /\ s.do = "delete" => s.id \in Worktrees
           /\ s.do = "publish" => s.event \in Event
    BY DEF Step

LEMMA StepMade ==
    /\ \A w \in Worktrees, row \in Row : [do |-> "put", id |-> w, row |-> row] \in Step
    /\ \A w \in Worktrees : [do |-> "delete", id |-> w] \in Step
    /\ \A e \in Event : Publish(e) \in Step /\ Publish(e).do = "publish" /\ Publish(e).event = e
    BY DEF Step, Publish

LEMMA EventMade ==
    /\ \A w \in Worktrees, row \in Row :
          Upserted(w, row) \in Event /\ DeltaOf(Upserted(w, row), w)
    /\ \A w \in Worktrees : Removed(w) \in Event /\ DeltaOf(Removed(w), w)
    /\ \A w \in Worktrees, t \in {"diff.ready", "review.changed"} :
          [type |-> t, id |-> w] \in Event
    BY DEF Event, Delta, Notice, Upserted, Removed, DeltaOf

LEMMA RowsMade == Empty \in Rows /\ Gone \in Row \cup {Gone}
    BY DEF Empty, Rows

LEMMA FetchMade ==
    LET F == [at : {"idle", "asked", "answered"}, rows : Rows, old : BOOLEAN] IN
    /\ Idle \in F /\ Asked \in F /\ Idle # Asked
    /\ Idle.at = "idle" /\ Asked.at = "asked"
    /\ \A rows \in Rows : /\ Answer(rows) \in F /\ Answer(rows).at = "answered"
                          /\ Answer(rows).rows = rows /\ ~ Answer(rows).old
    BY RowsMade DEF Idle, Asked, Answer

LEMMA OlderType ==
    ASSUME TypeOK
    PROVE  /\ Older \in [Fetches -> [at : {"idle", "asked", "answered"},
                                     rows : Rows, old : BOOLEAN]]
           /\ \A f \in Fetches : /\ Older[f].at = fetch[f].at
                                 /\ fetch[f].at # "answered" => Older[f] = fetch[f]
                                 /\ fetch[f].at = "answered" => Older[f].old
    BY DEF TypeOK, Older

LEMMA TypeInit == Init => TypeOK
<1> SUFFICES ASSUME Init PROVE TypeOK
  OBVIOUS
<1>1. todo \in [Writers -> Seq(Step)] /\ sub \in Seq(Event) /\ Len(sub) <= Buffer
  BY ConstantTypes DEF Init
<1>2. inbox \in Seq(Event \cup {Snapshot}) /\ Len(inbox) <= Inbox
  BY ConstantTypes DEF Init
<1> QED BY <1>1, <1>2, ConstantTypes, RowsMade, FetchMade DEF Init, TypeOK

\* A writer that has nothing to do is given something.
LEMMA WriteStep ==
    ASSUME TypeOK, NEW p \in Writers, NEW q \in Seq(Step), todo[p] = <<>>,
           todo' = [todo EXCEPT ![p] = q],
           writes < MaxWrites, writes' = writes + 1,
           UNCHANGED <<reg, conn, sub, inbox, fetch, view, troubles, blame>>
    PROVE  /\ TypeOK'
           /\ UNCHANGED <<reg, conn, sub, inbox, fetch, view, blame>>
           /\ \A x \in Writers : todo[x] # <<>> => todo'[x] = todo[x]
<1>1. todo' \in [Writers -> Seq(Step)] /\ \A x \in Writers : todo[x] # <<>> => todo'[x] = todo[x]
  BY DEF TypeOK
<1>2. writes' \in 0 .. MaxWrites
  BY ConstantTypes DEF TypeOK
<1> QED BY <1>1, <1>2 DEF TypeOK

LEMMA WriteType ==
    ASSUME TypeOK, Write
    PROVE  /\ TypeOK'
           /\ UNCHANGED <<reg, conn, sub, inbox, fetch, view, blame>>
           /\ \A x \in Writers : todo[x] # <<>> => todo'[x] = todo[x]
<1>1. CASE Refresh
  <2>1. PICK w \in Worktrees, row \in Row :
          LET put == [do |-> "put", id |-> w, row |-> row]
              ready == Publish([type |-> "diff.ready", id |-> w]) IN
          todo' = [todo EXCEPT ![Engine] =
                      IF reg[w].diff = row.diff THEN <<put>> ELSE <<ready, put>>]
    BY <1>1 DEF Refresh
  <2> DEFINE put == [do |-> "put", id |-> w, row |-> row]
             ready == Publish([type |-> "diff.ready", id |-> w])
             q == IF reg[w].diff = row.diff THEN <<put>> ELSE <<ready, put>>
  <2>2. put \in Step /\ ready \in Step
    BY StepMade, EventMade
  <2> HIDE DEF put, ready
  <2>3. q \in Seq(Step)
    BY <2>2
  <2>4. todo' = [todo EXCEPT ![Engine] = q]
    BY <2>1 DEF put, ready
  <2> HIDE DEF q
  <2>5. todo[Engine] = <<>> /\ writes < MaxWrites /\ writes' = writes + 1
        /\ UNCHANGED <<reg, conn, sub, inbox, fetch, view, troubles, blame>>
    BY <1>1 DEF Refresh
  <2> QED BY <2>3, <2>4, <2>5, WriteStep, ConstantTypes
<1>2. CASE Forget
  <2>1. PICK w \in Worktrees : todo' = [todo EXCEPT ![Engine] = <<[do |-> "delete", id |-> w]>>]
    BY <1>2 DEF Forget
  <2>2. <<[do |-> "delete", id |-> w]>> \in Seq(Step)
    BY StepMade
  <2>3. todo[Engine] = <<>> /\ writes < MaxWrites /\ writes' = writes + 1
        /\ UNCHANGED <<reg, conn, sub, inbox, fetch, view, troubles, blame>>
    BY <1>2 DEF Forget
  <2> QED BY <2>1, <2>2, <2>3, WriteStep, ConstantTypes
<1>3. ASSUME NEW t \in Toggles, Toggle(t)
      PROVE  \E q \in Seq(Step) : todo' = [todo EXCEPT ![t] = q]
  <2>1. PICK w \in {v \in Worktrees : reg[v] # Gone}, n \in 0 .. MaxReviewed :
          todo' = [todo EXCEPT ![t] =
              <<[do |-> "put", id |-> w, row |-> [reg[w] EXCEPT !.reviewed = n]],
                Publish([type |-> "review.changed", id |-> w])>>]
    BY <1>3 DEF Toggle
  <2>2. [reg[w] EXCEPT !.reviewed = n] \in Row
    BY DEF TypeOK, Rows, Row
  <2> DEFINE put == [do |-> "put", id |-> w, row |-> [reg[w] EXCEPT !.reviewed = n]]
             note == Publish([type |-> "review.changed", id |-> w])
  <2>3. put \in Step /\ note \in Step
    BY <2>2, StepMade, EventMade
  <2> HIDE DEF put, note
  <2>4. <<put, note>> \in Seq(Step)
    BY <2>3
  <2> QED BY <2>1, <2>4 DEF put, note
<1>4. ASSUME NEW t \in Toggles, Toggle(t)
      PROVE  todo[t] = <<>> /\ writes < MaxWrites /\ writes' = writes + 1
             /\ UNCHANGED <<reg, conn, sub, inbox, fetch, view, troubles, blame>>
  BY <1>4 DEF Toggle
<1> QED BY <1>1, <1>2, <1>3, <1>4, WriteStep, ConstantTypes DEF Write

-----------------------------------------------------------------------------
(* Every row stays accounted for.                                          *)

\* Nothing that w depends on is touched, and who is about to announce it still is.
LEMMA AccountedKept ==
    ASSUME NEW w \in Worktrees, Accounted(w), Pending(w) => Pending(w)',
           reg'[w] = reg[w], UNCHANGED <<conn, sub, inbox, fetch, view>>
    PROVE  Accounted(w)'
<1>1. Queued(w) => Queued(w)'
  BY DEF Queued
<1>2. Answered' = Answered /\ (Known(w) => Known(w)')
  BY DEF Known, Answered
<1> QED BY <1>1, <1>2 DEF Accounted

LEMMA TheWriters ==
    ASSUME BInv, Write
    PROVE  BInv'
<1>1. /\ TypeOK'
      /\ UNCHANGED <<reg, conn, sub, inbox, fetch, view, blame>>
      /\ \A x \in Writers : todo[x] # <<>> => todo'[x] = todo[x]
  BY WriteType DEF BInv
<1>2. \A w \in Worktrees : Pending(w) => Pending(w)'
  BY <1>1 DEF Pending
<1>3. AllAccounted'
  BY <1>1, <1>2, AccountedKept DEF BInv, AllAccounted, Subscribed
<1> QED BY <1>1, <1>3 DEF BInv

\* A writer writes row to w and has it announced, if that is a change.
LEMMA RowWritten ==
    ASSUME BInv, NEW p \in Writers, todo[p] # <<>>, Head(todo[p]).do # "publish",
           NEW w \in Worktrees, NEW row \in Row \cup {Gone},
           NEW next,
           \/ next = <<>> /\ reg[w] = row
           \/ \E e \in Event : DeltaOf(e, w) /\ next = <<Publish(e)>>,
           reg' = [reg EXCEPT ![w] = row],
           todo' = [todo EXCEPT ![p] = next \o Tail(@)],
           UNCHANGED <<conn, sub, inbox, fetch, view, blame, counters>>
    PROVE  BInv'
<1>1. todo[p] \in Seq(Step) /\ Tail(todo[p]) \in Seq(Step)
  BY TailType DEF BInv, TypeOK
<1>2. next \in Seq(Step)
  <2>1. \A e \in Event : <<Publish(e)>> \in Seq(Step)
    <3>1. \A e \in Event : Publish(e) \in Step
      BY StepMade
    <3> QED BY <3>1
  <2>2. CASE next = <<>>
    BY <2>2
  <2>3. ASSUME NEW e \in Event, next = <<Publish(e)>> PROVE next \in Seq(Step)
    BY <2>1, <2>3
  <2> QED BY <2>2, <2>3
<1>3. next \o Tail(todo[p]) \in Seq(Step)
  BY <1>1, <1>2
<1>4. TypeOK'
  BY <1>3 DEF BInv, TypeOK, Rows, counters
<1>5. \A x \in Writers \ {p} : todo'[x] = todo[x]
  BY DEF BInv, TypeOK
<1>6. \A v \in Worktrees : Pending(v) => Pending(v)'
  BY <1>5 DEF Pending
<1>7. reg[w] # row => Pending(w)'
  <2> SUFFICES ASSUME reg[w] # row PROVE Pending(w)'
    OBVIOUS
  <2>1. PICK e \in Event : DeltaOf(e, w) /\ next = <<Publish(e)>>
    OBVIOUS
  <2>2. todo'[p] = <<Publish(e)>> \o Tail(todo[p])
    BY <2>1 DEF BInv, TypeOK
  <2>3. Publish(e) \in Step /\ Publish(e).do = "publish" /\ Publish(e).event = e
    BY StepMade
  <2>4. todo'[p] # <<>> /\ Head(todo'[p]) = Publish(e)
    BY <1>1, <2>2, <2>3
  <2> QED BY <2>1, <2>3, <2>4 DEF Pending
<1>8. \A v \in Worktrees : reg'[v] = reg[v] \/ (v = w /\ reg[w] # row)
  BY DEF BInv, TypeOK, Rows
<1>9. AllAccounted'
  <2> SUFFICES ASSUME Subscribed', blame' = {}, NEW v \in Worktrees PROVE Accounted(v)'
    BY DEF AllAccounted
  <2>1. Accounted(v)
    BY DEF BInv, AllAccounted, Subscribed
  <2>2. CASE reg'[v] = reg[v]
    BY <1>6, <2>1, <2>2, AccountedKept
  <2>3. CASE v = w /\ reg[w] # row
    BY <1>7, <2>3 DEF Accounted
  <2> QED BY <1>8, <2>2, <2>3
<1> QED BY <1>4, <1>9 DEF BInv

LEMMA ThePut ==
    ASSUME BInv, NEW p \in Writers, Put(p)
    PROVE  BInv'
<1> DEFINE s == Head(todo[p])
           next == IF reg[s.id] = s.row THEN <<>> ELSE <<Publish(Upserted(s.id, s.row))>>
<1>1. todo[p] # <<>> /\ s.do = "put"
  BY DEF Put
<1>2. s.id \in Worktrees /\ s.row \in Row
  BY <1>1, TailType, StepType DEF BInv, TypeOK
<1>3. /\ reg' = [reg EXCEPT ![s.id] = s.row]
      /\ todo' = [todo EXCEPT ![p] = next \o Tail(@)]
      /\ UNCHANGED <<conn, sub, inbox, fetch, view, blame, counters>>
  BY DEF Put
<1>4. \/ next = <<>> /\ reg[s.id] = s.row
      \/ \E e \in Event : DeltaOf(e, s.id) /\ next = <<Publish(e)>>
  BY <1>2, EventMade
<1> HIDE DEF s, next
<1>5. s.do # "publish"
  BY <1>1
<1> QED BY <1>1, <1>2, <1>3, <1>4, <1>5, RowWritten DEF s

LEMMA TheDelete ==
    ASSUME BInv, NEW p \in Writers, Delete(p)
    PROVE  BInv'
<1> DEFINE w == Head(todo[p]).id
           next == IF reg[w] = Gone THEN <<>> ELSE <<Publish(Removed(w))>>
<1>1. todo[p] # <<>> /\ Head(todo[p]).do = "delete"
  BY DEF Delete
<1>2. w \in Worktrees
  BY <1>1, TailType, StepType DEF BInv, TypeOK
<1>3. /\ reg' = [reg EXCEPT ![w] = Gone]
      /\ todo' = [todo EXCEPT ![p] = next \o Tail(@)]
      /\ UNCHANGED <<conn, sub, inbox, fetch, view, blame, counters>>
  BY DEF Delete
<1>4. \/ next = <<>> /\ reg[w] = Gone
      \/ \E e \in Event : DeltaOf(e, w) /\ next = <<Publish(e)>>
  BY <1>2, EventMade
<1> HIDE DEF w, next
<1>5. Head(todo[p]).do # "publish"
  BY <1>1
<1> QED BY <1>1, <1>2, <1>3, <1>4, <1>5, RowWritten

\* An event that is dropped is blamed, and so is one that no longer says what
\* the registry holds: any other event of w tells.
LEMMA ThePublishEvent ==
    ASSUME BInv, NEW p \in Writers, PublishEvent(p)
    PROVE  BInv'
<1> DEFINE e == Head(todo[p]).event
           full == Len(sub) = Buffer
<1>1. /\ todo[p] # <<>> /\ Head(todo[p]).do = "publish"
      /\ todo[p] \in Seq(Step) /\ Tail(todo[p]) \in Seq(Step)
  BY TailType DEF BInv, TypeOK, PublishEvent
<1>2. e \in Event
  BY <1>1, TailType, StepType
<1>3. /\ sub' = IF Subscribed /\ ~ full THEN Append(sub, e) ELSE sub
      /\ blame' = blame \cup {b \in {"dropped", "overtaken"} :
                      \/ b = "dropped" /\ Subscribed /\ full
                      \/ b = "overtaken" /\ Overtaken(e)}
      /\ todo' = [todo EXCEPT ![p] = Tail(@)]
      /\ UNCHANGED <<reg, conn, inbox, fetch, view, counters>>
  BY DEF PublishEvent
<1> HIDE DEF e
<1>4. sub \in Seq(Event) /\ Len(sub) <= Buffer /\ Len(sub) \in Nat
  BY DEF BInv, TypeOK
<1>5. Append(sub, e) \in Seq(Event) /\ Len(Append(sub, e)) = Len(sub) + 1
  BY <1>2, <1>4, AppendType
<1>6. sub' \in Seq(Event) /\ Len(sub') <= Buffer
  BY <1>3, <1>4, <1>5, ConstantTypes
<1>7. TypeOK'
  BY <1>1, <1>3, <1>6 DEF BInv, TypeOK, counters, Blames
<1>8. AllAccounted'
  <2> SUFFICES ASSUME Subscribed', blame' = {}, NEW w \in Worktrees PROVE Accounted(w)'
    BY DEF AllAccounted
  <2>1. Subscribed /\ blame = {} /\ ~ full /\ ~ Overtaken(e)
    BY <1>3 DEF Subscribed
  <2>2. sub' = Append(sub, e)
    BY <1>3, <2>1
  <2>3. Accounted(w)
    BY <2>1 DEF BInv, AllAccounted
  <2>4. CASE DeltaOf(e, w)
    <3>1. Tells(e, w, reg[w])
      BY <2>1, <2>4 DEF Overtaken, DeltaOf, Tells
    <3>2. Latest(sub', w, reg'[w])
      BY <1>2, <1>3, <1>4, <2>2, <3>1, AppendLatest
    <3> QED BY <3>2 DEF Accounted, Queued
  <2>5. CASE ~ DeltaOf(e, w)
    <3>1. Pending(w) => Pending(w)'
      <4> SUFFICES ASSUME Pending(w) PROVE Pending(w)'
        OBVIOUS
      <4>1. PICK x \in Writers : /\ todo[x] # <<>> /\ Head(todo[x]).do = "publish"
                                 /\ DeltaOf(Head(todo[x]).event, w)
        BY DEF Pending
      <4>2. x # p
        BY <2>5, <4>1 DEF e
      <4>3. todo'[x] = todo[x]
        BY <1>3, <4>2 DEF BInv, TypeOK
      <4> QED BY <4>1, <4>3 DEF Pending
    <3>2. /\ Latest(sub, w, reg[w]) => Latest(sub', w, reg'[w])
          /\ Silent(sub, w) => Silent(sub', w)
      BY <1>2, <1>3, <1>4, <2>2, <2>5, AppendLatest
    <3>3. Queued(w) => Queued(w)'
      BY <1>3, <3>2 DEF Queued
    <3>4. Answered' = Answered /\ (Known(w) => Known(w)')
      BY <1>3 DEF Known, Answered
    <3> QED BY <1>3, <2>3, <3>1, <3>2, <3>3, <3>4 DEF Accounted
  <2> QED BY <2>4, <2>5
<1> QED BY <1>7, <1>8 DEF BInv

-----------------------------------------------------------------------------
(* The event stream.                                                       *)

LEMMA TheStream ==
    ASSUME BInv, Connect \/ Subscribe
    PROVE  BInv'
<1>1. CASE Connect
  <2>1. TypeOK' /\ ~ Subscribed'
    BY <1>1 DEF Connect, BInv, TypeOK, Subscribed, counters
  <2> QED BY <2>1 DEF BInv, AllAccounted
<1>2. CASE Subscribe
  <2>1. TypeOK'
    BY <1>2, ConstantTypes DEF Subscribe, BInv, TypeOK, counters, Blames
  <2>2. conn' = "subscribed" /\ \A w : Silent(sub', w)
    BY <1>2 DEF Subscribe, Silent
  <2>3. \A w \in Worktrees : Accounted(w)'
    BY <2>2 DEF Accounted, Queued
  <2> QED BY <2>1, <2>3 DEF BInv, AllAccounted
<1> QED BY <1>1, <1>2

\* The marker tells about every worktree.
LEMMA ThePrime ==
    ASSUME BInv, Prime
    PROVE  BInv'
<1>1. inbox \in Seq(Event \cup {Snapshot}) /\ Len(inbox) < Inbox
  BY DEF BInv, TypeOK, Prime
<1>2. /\ inbox' = Append(inbox, Snapshot) /\ conn' = "live"
      /\ UNCHANGED <<reg, todo, sub, fetch, view, blame, counters>>
  BY DEF Prime
<1>3. inbox' \in Seq(Event \cup {Snapshot}) /\ Len(inbox') <= Inbox
  <2>1. Len(inbox) \in Nat /\ inbox' \in Seq(Event \cup {Snapshot}) /\ Len(inbox') = Len(inbox) + 1
    BY <1>1, <1>2, AppendType
  <2> QED BY <1>1, <2>1, ConstantTypes
<1>4. TypeOK'
  BY <1>2, <1>3 DEF BInv, TypeOK, counters
<1>5. ASSUME Subscribed', blame' = {}, NEW w \in Worktrees PROVE Accounted(w)'
  <2>1. Accounted(w) /\ (Pending(w) => Pending(w)')
    BY <1>2, <1>5 DEF BInv, AllAccounted, Prime, Subscribed, Pending
  <2>2. Latest(inbox', w, reg'[w]) /\ (Silent(inbox, w) => Silent(inbox', w))
    <3>1. Tells(Snapshot, w, reg[w]) /\ ~ DeltaOf(Snapshot, w)
      BY DEF Tells, DeltaOf, Snapshot
    <3> QED BY <1>1, <1>2, <3>1, AppendLatest
  <2>3. Queued(w) => Queued(w)'
    BY <1>2, <2>2 DEF Queued
  <2>4. Silent(sub, w) => Queued(w)'
    BY <1>2, <2>2 DEF Queued
  <2> QED BY <2>1, <2>3, <2>4 DEF Accounted
<1> QED BY <1>4, <1>5 DEF BInv, AllAccounted

\* An event goes from the channel to the client's queue: the order of the two
\* together stays.
LEMMA TheRelay ==
    ASSUME BInv, Relay
    PROVE  BInv'
<1>1. /\ inbox \in Seq(Event \cup {Snapshot}) /\ Len(inbox) < Inbox
      /\ sub \in Seq(Event) /\ sub # <<>> /\ Len(sub) <= Buffer /\ conn = "live"
  BY DEF BInv, TypeOK, Relay
<1>2. /\ inbox' = Append(inbox, Head(sub)) /\ sub' = Tail(sub)
      /\ UNCHANGED <<reg, todo, conn, fetch, view, blame, counters>>
  BY DEF Relay
<1>3. Head(sub) \in Event /\ Tail(sub) \in Seq(Event)
      /\ Len(sub) \in Nat /\ Len(Tail(sub)) = Len(sub) - 1
  BY <1>1, TailType
<1>4. inbox' \in Seq(Event \cup {Snapshot}) /\ Len(inbox') <= Inbox
  <2>1. Head(sub) \in Event \cup {Snapshot}
    BY <1>3
  <2>2. Len(inbox) \in Nat /\ inbox' \in Seq(Event \cup {Snapshot}) /\ Len(inbox') = Len(inbox) + 1
    BY <1>1, <1>2, <2>1, AppendType
  <2> QED BY <1>1, <2>2, ConstantTypes
<1>5. sub' \in Seq(Event) /\ Len(sub') <= Buffer
  BY <1>1, <1>2, <1>3, ConstantTypes
<1>6. TypeOK'
  BY <1>2, <1>4, <1>5 DEF BInv, TypeOK, counters
<1>7. ASSUME Subscribed', blame' = {}, NEW w \in Worktrees PROVE Accounted(w)'
  <2>1. Accounted(w) /\ (Pending(w) => Pending(w)') /\ conn # "subscribed"
    BY <1>1, <1>2, <1>7 DEF BInv, AllAccounted, Subscribed, Pending
  <2>2. /\ Silent(sub, w) => Silent(sub', w) /\ ~ DeltaOf(Head(sub), w)
        /\ Latest(sub, w, reg[w]) => \/ Latest(sub', w, reg[w])
                                     \/ Tells(Head(sub), w, reg[w]) /\ Silent(sub', w)
    BY <1>1, <1>2, TailLatest
  <2>3. /\ Tells(Head(sub), w, reg[w]) => Latest(inbox', w, reg[w])
        /\ ~ DeltaOf(Head(sub), w) /\ Latest(inbox, w, reg[w]) => Latest(inbox', w, reg[w])
        /\ ~ DeltaOf(Head(sub), w) /\ Silent(inbox, w) => Silent(inbox', w)
    BY <1>1, <1>2, <1>3, AppendLatest
  <2>4. Queued(w) => Queued(w)'
    BY <1>2, <2>1, <2>2, <2>3 DEF Queued
  <2>5. Silent(sub, w) /\ Silent(inbox, w) => Silent(sub', w) /\ Silent(inbox', w)
    BY <2>2, <2>3
  <2>6. Known(w) => Known(w)'
    BY <1>2 DEF Known, Answered
  <2> QED BY <2>1, <2>4, <2>5, <2>6 DEF Accounted
<1> QED BY <1>6, <1>7 DEF BInv, AllAccounted

-----------------------------------------------------------------------------
(* The client.                                                             *)

\* The head of the queue is handled: it tells about w, or says nothing of it.
LEMMA HeadHandled ==
    ASSUME BInv, inbox # <<>>, inbox' = Tail(inbox), TypeOK',
           UNCHANGED <<reg, todo, conn, sub, blame>>,
           NEW w \in Worktrees,
           Tells(Head(inbox), w, reg[w]) => Known(w)',
           ~ DeltaOf(Head(inbox), w) => (Known(w) => Known(w)')
    PROVE  Accounted(w) => Accounted(w)'
<1>1. inbox \in Seq(Event \cup {Snapshot})
  BY DEF BInv, TypeOK
<1>2. /\ Silent(inbox, w) => Silent(inbox', w) /\ ~ DeltaOf(Head(inbox), w)
      /\ Latest(inbox, w, reg[w]) => \/ Latest(inbox', w, reg[w])
                                     \/ Tells(Head(inbox), w, reg[w]) /\ Silent(inbox', w)
  BY <1>1, TailLatest
<1>3. Pending(w) => Pending(w)'
  BY DEF Pending
<1>4. Queued(w) => Queued(w)' \/ (Silent(sub', w) /\ Silent(inbox', w) /\ Known(w)')
  BY <1>2 DEF Queued
<1> QED BY <1>2, <1>3, <1>4 DEF Accounted

LEMMA TailInbox ==
    ASSUME TypeOK, inbox # <<>>
    PROVE  /\ Tail(inbox) \in Seq(Event \cup {Snapshot}) /\ Len(Tail(inbox)) <= Inbox
           /\ Head(inbox) \in Event \cup {Snapshot}
<1>1. inbox \in Seq(Event \cup {Snapshot}) /\ Len(inbox) <= Inbox
  BY DEF TypeOK
<1> QED BY <1>1, TailType, ConstantTypes

LEMMA TheApplyDelta ==
    ASSUME BInv, ApplyDelta
    PROVE  BInv'
<1> DEFINE e == Head(inbox)
<1>1. /\ inbox # <<>> /\ e.type \in {"upserted", "removed"}
      /\ view' = [view EXCEPT ![e.id] = e.row]
      /\ inbox' = Tail(inbox) /\ fetch' = Older
      /\ UNCHANGED <<reg, todo, conn, sub, blame, counters>>
  BY DEF ApplyDelta
<1>2. /\ Tail(inbox) \in Seq(Event \cup {Snapshot}) /\ Len(Tail(inbox)) <= Inbox
      /\ e \in Event \cup {Snapshot}
  BY <1>1, TailInbox DEF BInv
<1> HIDE DEF e
<1>3. e.id \in Worktrees /\ e.row \in Row \cup {Gone} /\ e # Snapshot
  BY <1>1, <1>2, EventType
<1>4. view' \in Rows
  BY <1>1, <1>3 DEF BInv, TypeOK, Rows
<1>5. TypeOK'
  BY <1>1, <1>2, <1>4, OlderType DEF BInv, TypeOK, counters
<1>6. Answered' = Answered /\ \A f \in Answered : fetch'[f].old
  BY <1>1, OlderType DEF BInv, Answered
<1>7. ASSUME NEW w \in Worktrees, Tells(e, w, reg[w]) PROVE Known(w)'
  <2>1. view'[w] = reg'[w]
    BY <1>1, <1>3, <1>7 DEF Tells, DeltaOf, BInv, TypeOK, Rows
  <2> QED BY <1>6, <2>1 DEF Known
<1>8. ASSUME NEW w \in Worktrees, ~ DeltaOf(e, w), Known(w) PROVE Known(w)'
  <2>1. view'[w] = view[w]
    BY <1>1, <1>3, <1>8 DEF DeltaOf, BInv, TypeOK, Rows
  <2>2. (\E f \in Fetches : fetch[f] = Asked) => \E f \in Fetches : fetch'[f] = Asked
    BY <1>1, OlderType, FetchMade DEF BInv
  <2> QED BY <1>1, <1>6, <1>8, <2>1, <2>2 DEF Known
<1>9. \A w \in Worktrees : Accounted(w) => Accounted(w)'
  BY <1>1, <1>5, <1>7, <1>8, HeadHandled DEF e
<1> QED BY <1>1, <1>5, <1>9 DEF BInv, AllAccounted, Subscribed

LEMMA TheIgnore ==
    ASSUME BInv, Ignore
    PROVE  BInv'
<1>1. /\ inbox # <<>> /\ Head(inbox).type = "diff.ready"
      /\ inbox' = Tail(inbox)
      /\ UNCHANGED <<reg, todo, conn, sub, fetch, view, blame, counters>>
  BY DEF Ignore
<1>2. TypeOK'
  BY <1>1, TailInbox DEF BInv, TypeOK, counters
<1>3. \A w \in Worktrees : ~ Tells(Head(inbox), w, reg[w])
  BY <1>1 DEF Tells, DeltaOf, Snapshot
<1>4. \A w \in Worktrees : Known(w) => Known(w)'
  BY <1>1 DEF Known, Answered
<1>5. \A w \in Worktrees : Accounted(w) => Accounted(w)'
  BY <1>1, <1>2, <1>3, <1>4, HeadHandled
<1> QED BY <1>1, <1>2, <1>5 DEF BInv, AllAccounted, Subscribed

LEMMA TheRefetch ==
    ASSUME BInv, Refetch
    PROVE  BInv'
<1>1. /\ inbox # <<>> /\ inbox' = Tail(inbox)
      /\ UNCHANGED <<reg, todo, conn, sub, view, blame, counters>>
  BY DEF Refetch
<1>2. PICK f \in Fetches : fetch[f] = Idle /\ fetch' = [fetch EXCEPT ![f] = Asked]
  BY DEF Refetch
<1>3. TypeOK'
  BY <1>1, <1>2, TailInbox, FetchMade DEF BInv, TypeOK, counters
<1>4. fetch'[f] = Asked
  BY <1>2 DEF BInv, TypeOK
<1>5. \A w \in Worktrees : Known(w)'
  BY <1>4 DEF Known
<1>6. \A w \in Worktrees : Accounted(w) => Accounted(w)'
  BY <1>1, <1>3, <1>5, HeadHandled
<1> QED BY <1>1, <1>3, <1>6 DEF BInv, AllAccounted, Subscribed

\* Only the sidebar and what the client asked for change.
LEMMA KnownKept ==
    ASSUME BInv, TypeOK', UNCHANGED <<reg, todo, conn, sub, inbox>>,
           blame' = {} => blame = {},
           \A w \in Worktrees : blame' = {} /\ Known(w) => Known(w)'
    PROVE  BInv'
<1>1. \A w \in Worktrees : Pending(w) => Pending(w)'
  BY DEF Pending
<1>2. \A w \in Worktrees : Queued(w) => Queued(w)'
  BY DEF Queued
<1>3. \A w \in Worktrees : blame' = {} /\ Accounted(w) => Accounted(w)'
  BY <1>1, <1>2 DEF Accounted
<1> QED BY <1>3 DEF BInv, AllAccounted, Subscribed

LEMMA TheList ==
    ASSUME BInv, NEW f \in Fetches, List(f)
    PROVE  BInv'
<1>1. /\ fetch' = [fetch EXCEPT ![f] = Answer(reg)]
      /\ UNCHANGED <<reg, todo, conn, sub, inbox, view, blame, counters>>
  BY DEF List
<1>2. reg \in Rows /\ TypeOK'
  BY <1>1, FetchMade DEF BInv, TypeOK, counters
<1>3. fetch'[f] = Answer(reg)
  BY <1>1 DEF BInv, TypeOK
<1>4. \A w \in Worktrees : Known(w)'
  BY <1>1, <1>2, <1>3, FetchMade DEF Known, Answered
<1> QED BY <1>1, <1>2, <1>4, KnownKept

\* A list that nothing overtook shows the registry, if it is the only one; of
\* two, the other is late from now on.
LEMMA TheApplyList ==
    ASSUME BInv, NEW f \in Fetches, ApplyList(f)
    PROVE  BInv'
<1>1. /\ fetch[f].at = "answered" /\ view' = fetch[f].rows
      /\ blame' = IF fetch[f].old THEN blame \cup {"late"} ELSE blame
      /\ fetch' = [Older EXCEPT ![f] = Idle]
      /\ UNCHANGED <<reg, todo, conn, sub, inbox, counters>>
  BY DEF ApplyList
<1>2. TypeOK'
  BY <1>1, OlderType, FetchMade DEF BInv, TypeOK, counters, Blames
<1>3. /\ fetch'[f] = Idle
      /\ \A g \in Fetches \ {f} : fetch'[g] = Older[g]
  BY <1>1, OlderType DEF BInv
<1>4. /\ Answered' = Answered \ {f}
      /\ \A g \in Answered' : fetch'[g].old
      /\ \A g \in Fetches : fetch[g] = Asked => fetch'[g] = Asked
  BY <1>1, <1>3, OlderType, FetchMade DEF BInv, Answered
<1>5. ASSUME NEW w \in Worktrees, blame' = {}, Known(w) PROVE Known(w)'
  <2>1. ~ fetch[f].old
    BY <1>1, <1>5
  <2>2. CASE \E g \in Fetches : fetch[g] = Asked
    BY <1>4, <2>2 DEF Known
  <2>3. CASE Answered' # {}
    BY <1>4, <2>3 DEF Known
  <2>4. CASE Answered' = {} /\ ~ \E g \in Fetches : fetch[g] = Asked
    <3>1. fetch[f].rows[w] = reg[w]
      BY <1>1, <1>4, <1>5, <2>1, <2>4 DEF Known, Answered
    <3> QED BY <1>1, <2>4, <3>1 DEF Known
  <2> QED BY <2>2, <2>3, <2>4
<1>6. blame' = {} => blame = {}
  BY <1>1
<1> QED BY <1>1, <1>2, <1>5, <1>6, KnownKept

LEMMA TheFailure ==
    ASSUME BInv, Failure
    PROVE  BInv'
<1>1. CASE Disconnect
  <2>1. TypeOK' /\ ~ Subscribed'
    BY <1>1, ConstantTypes DEF Disconnect, Trouble, BInv, TypeOK, Subscribed
  <2> QED BY <2>1 DEF BInv, AllAccounted
<1>2. CASE Restart
  <2>1. TypeOK' /\ ~ Subscribed'
    BY <1>2, ConstantTypes, RowsMade DEF Restart, Trouble, BInv, TypeOK, Subscribed
  <2> QED BY <2>1 DEF BInv, AllAccounted
<1>3. ASSUME NEW f \in Fetches, FailList(f) PROVE BInv'
  <2>1. TypeOK' /\ blame' # {}
    BY <1>3, ConstantTypes, FetchMade DEF FailList, Trouble, BInv, TypeOK, Blames
  <2> QED BY <2>1 DEF BInv, AllAccounted
<1> QED BY <1>1, <1>2, <1>3 DEF Failure

-----------------------------------------------------------------------------
(* The theorems.                                                           *)

LEMMA BInvInit == Init => BInv
<1>1. Init => ~ Subscribed
  BY DEF Init, Subscribed
<1> QED BY <1>1, TypeInit DEF BInv, AllAccounted

LEMMA BInvStep == BInv /\ [Next]_vars => BInv'
<1> SUFFICES ASSUME BInv, [Next]_vars PROVE BInv'
  OBVIOUS
<1>1. CASE Write
  BY <1>1, TheWriters
<1>2. CASE Work
  BY <1>2, ThePut, TheDelete, ThePublishEvent DEF Work
<1>3. CASE Stream
  BY <1>3, TheStream, ThePrime, TheRelay DEF Stream
<1>4. CASE Client
  BY <1>4, TheApplyDelta, TheIgnore, TheRefetch, TheList, TheApplyList DEF Client
<1>5. CASE Failure
  BY <1>5, TheFailure
<1>6. CASE UNCHANGED vars
  <2>1. TypeOK'
    BY <1>6 DEF BInv, TypeOK, vars
  <2>2. \A w \in Worktrees : Known(w) => Known(w)'
    BY <1>6 DEF Known, Answered, vars
  <2> QED BY <1>6, <2>1, <2>2, KnownKept DEF vars
<1> QED BY <1>1, <1>2, <1>3, <1>4, <1>5, <1>6 DEF Next

\* Whatever is under way, a row of the sidebar of a subscribed client that
\* differs from the registry's is owed to it (registry.go, sse.go, app.go).
THEOREM AllAccountedSound == Spec => []AllAccounted
<1>1. Spec => []BInv
  BY BInvInit, BInvStep, PTL DEF Spec
<1>2. BInv => AllAccounted
  BY DEF BInv
<1> QED BY <1>1, <1>2, PTL

\* A client at rest shows the rows of the registry unless it is to blame: what
\* TLC checks as InSync, for every size of every queue (handleEvents in
\* cmd/wtd/main.go, applyEvent in tui/app.go).
THEOREM InSyncSound == Spec => []InSync
<1>1. Spec => []BInv
  BY BInvInit, BInvStep, PTL DEF Spec
<1>2. BInv => InSync
  <2> SUFFICES ASSUME BInv, AtRest, blame = {} PROVE view = reg
    BY DEF BInv, InSync
  <2>1. ASSUME NEW w \in Worktrees PROVE view[w] = reg[w]
    <3>1. Accounted(w)
      BY DEF BInv, AllAccounted, Subscribed, AtRest
    <3>2. ~ Pending(w)
      BY DEF Pending, AtRest
    <3>3. ~ Queued(w)
      BY DEF Queued, Latest, AtRest
    <3>4. Known(w) /\ Answered = {} /\ \A f \in Fetches : fetch[f] # Asked
      BY <3>1, <3>2, <3>3, FetchMade DEF Accounted, AtRest, Answered
    <3> QED BY <3>4 DEF Known
  <2> QED BY <2>1 DEF BInv, TypeOK, Rows
<1> QED BY <1>1, <1>2, PTL

=============================================================================
