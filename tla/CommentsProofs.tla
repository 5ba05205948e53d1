--------------------------- MODULE CommentsProofs ---------------------------
(***************************************************************************)
(* Proofs about Comments and Room, for every set of worktrees, files, ids  *)
(* and requests and every bound: the types, the cap, what is durable, and  *)
(* that a page of the room catches up.                                     *)
(***************************************************************************)
EXTENDS Room, FiniteSetTheorems, SequenceTheorems, TLAPS

\* Every comment in the store or in its file has an id that was given out.
UsedIds == \A i \in Id : rows[i] # None \/ disk[i] # None => i \in used

Types == TypeOK /\ UsedIds

LEMMA ConstantTypes ==
    /\ IsFiniteSet(Id) /\ MaxComments \in Nat /\ MaxComments > 0
    /\ Buffer \in Nat /\ Buffer > 0 /\ MaxEdits \in Nat /\ MaxTroubles \in Nat
    /\ Room \in Worktree /\ None \notin Comment /\ None \notin Id
    BY CommentsAssumption, NoneAssumption

-----------------------------------------------------------------------------
(* The operators.                                                          *)

LEMMA CallStep ==
    ASSUME NEW c \in Caller, NEW n \in Call, call \in [Caller -> Call],
           call' = [call EXCEPT ![c] = n]
    PROVE  /\ call' \in [Caller -> Call]
           /\ call'[c] = n
           /\ \A d \in Caller \ {c} : call'[d] = call[d]
    OBVIOUS

LEMMA NoCallType == NoCall \in Call /\ NoCall.at = "idle"
    BY ConstantTypes DEF NoCall, Call

LEMMA WithoutType ==
    ASSUME NEW r \in [Id -> Comment \cup {None}], NEW ids
    PROVE  /\ Without(r, ids) \in [Id -> Comment \cup {None}]
           /\ \A i \in Id : Without(r, ids)[i] = IF i \in ids THEN None ELSE r[i]
    BY DEF Without

LEMMA InsertedType ==
    ASSUME NEW k \in Call, k.id \in Id, k.file \in File, rows \in [Id -> Comment \cup {None}]
    PROVE  /\ Inserted(k) \in [Id -> Comment \cup {None}]
           /\ Inserted(k)[k.id] \in Comment
           /\ Inserted(k)[k.id].wt = k.wt /\ Inserted(k)[k.id].state = "open"
           /\ \A i \in Id \ {k.id} : Inserted(k)[i] = rows[i]
<1>1. [wt |-> k.wt, file |-> k.file, state |-> "open"] \in Comment
    BY DEF Comment, Call, State
<1> QED
    BY <1>1 DEF Inserted

\* A delete removes the comment, and a resolve changes its state only.
LEMMA Changed1Type ==
    ASSUME NEW k \in Call, rows \in [Id -> Comment \cup {None}], k.id \in Id, Found(k)
    PROVE  /\ Changed1(k) \in [Id -> Comment \cup {None}]
           /\ \A i \in Id \ {k.id} : Changed1(k)[i] = rows[i]
           /\ rows[k.id] # None
           /\ k.do = "delete" => Changed1(k)[k.id] = None
           /\ k.do # "delete" => /\ Changed1(k)[k.id] # None
                                 /\ Changed1(k)[k.id].wt = rows[k.id].wt
                                 /\ Changed1(k)[k.id].state = "resolved"
<1>1. rows[k.id] \in Comment
    BY DEF Found, Of, In
<1>2. CASE k.do = "delete"
    BY <1>1, <1>2, ConstantTypes DEF Changed1
<1>3. CASE k.do # "delete"
    <2> DEFINE e == [rows[k.id] EXCEPT !.state = "resolved"]
    <2>1. e \in Comment /\ e.wt = rows[k.id].wt /\ e.state = "resolved"
        BY <1>1 DEF Comment, State
    <2>2. Changed1(k) = [rows EXCEPT ![k.id] = e]
        BY <1>3 DEF Changed1
    <2> HIDE DEF e
    <2> QED
        BY <1>1, <1>3, <2>1, <2>2, ConstantTypes
<1> QED
    BY <1>2, <1>3

LEMMA PublishType ==
    ASSUME NEW w \in Worktree, NEW e \in Event, TypeOK, Publish(w, e)
    PROVE  /\ feed' \in Seq(Event) /\ Len(feed') <= Buffer
           /\ subscribed' \in BOOLEAN /\ missed' \in BOOLEAN /\ untold' = untold
<1>1. feed \in Seq(Event) /\ Len(feed) <= Buffer /\ subscribed \in BOOLEAN /\ missed \in BOOLEAN
    BY DEF TypeOK
<1>2. subscribed' \in BOOLEAN /\ missed' \in BOOLEAN /\ untold' = untold
    BY <1>1 DEF Publish
<1>3. feed' = feed \/ (Len(feed) < Buffer /\ feed' = Append(feed, e))
    BY DEF Publish
<1> QED
    BY <1>1, <1>2, <1>3, ConstantTypes

LEMMA EventTypes ==
    /\ Changed \in Event /\ Removed \in Event
    /\ \A d \in Content : Ready(d) \in Event
    /\ Empty \in Content
    BY DEF Changed, Removed, Ready, Event, Empty, Content

LEMMA TroubleType == ASSUME TypeOK, Trouble PROVE troubles' \in 0 .. MaxTroubles
    BY ConstantTypes DEF TypeOK, Trouble

LEMMA OfType == \A w \in Worktree : Of(w) \subseteq Id /\ OnDisk(w) \subseteq Id
    BY DEF Of, OnDisk, In

LEMMA OfUsed ==
    ASSUME Types PROVE \A w : Of(w) \subseteq used /\ OnDisk(w) \subseteq used
    BY DEF Types, UsedIds, Of, OnDisk, In

-----------------------------------------------------------------------------
(* The types.                                                              *)

\* The parts of Types, grouped by what the actions change.
EngineTypes ==
    /\ live \subseteq Worktree
    /\ work \in [Worktree -> Content]
    /\ cache \in [Worktree -> Content \cup {None}]
    /\ approve \in [at : {"idle", "clear", "forget"}, wt : Worktree \cup {None}]
    /\ approve.at # "idle" => approve.wt \in Worktree

StoreTypes ==
    /\ backend \in Backend
    /\ rows \in [Id -> Comment \cup {None}]
    /\ disk \in [Id -> Comment \cup {None}]
    /\ UsedIds

CallTypes ==
    /\ call \in [Caller -> Call]
    /\ \A c \in Caller : /\ call[c].at # "idle" => call[c].id \in used
                         /\ call[c].do = "add" /\ call[c].at # "idle" => call[c].file \in File
                         /\ call[c].at = "insert" => call[c].do = "add"

StreamTypes ==
    /\ feed \in Seq(Event) /\ Len(feed) <= Buffer
    /\ subscribed \in BOOLEAN /\ missed \in BOOLEAN /\ untold \subseteq Id

HistoryTypes ==
    /\ used \subseteq Id /\ cleared \subseteq Worktree /\ late \subseteq used /\ undone \subseteq used
    /\ added \subseteq used /\ resolved \subseteq used

BoundTypes == edits \in 0 .. MaxEdits /\ troubles \in 0 .. MaxTroubles

TInv == EngineTypes /\ StoreTypes /\ CallTypes /\ StreamTypes /\ HistoryTypes /\ BoundTypes

LEMMA TInvTypeOK == TInv => TypeOK /\ Types
    BY DEF TInv, EngineTypes, StoreTypes, CallTypes, StreamTypes, HistoryTypes, BoundTypes,
           TypeOK, Types

LEMMA InitTInv == Init => TInv
<1> SUFFICES ASSUME Init PROVE TInv
    OBVIOUS
<1>1. EngineTypes
    BY ConstantTypes DEF Init, EngineTypes
<1>2. StoreTypes
    BY DEF Init, StoreTypes, UsedIds
<1>3. CallTypes
    BY NoCallType DEF Init, CallTypes
<1>4. StreamTypes
    <2>1. <<>> \in Seq(Event) /\ Len(<<>>) = 0
        OBVIOUS
    <2>2. feed = <<>> /\ subscribed \in BOOLEAN /\ missed \in BOOLEAN /\ untold = {}
        BY DEF Init
    <2>3. feed \in Seq(Event) /\ Len(feed) <= Buffer
        BY <2>1, <2>2, ConstantTypes
    <2> QED
        BY <2>2, <2>3 DEF StreamTypes
<1>5. HistoryTypes
    BY DEF Init, HistoryTypes
<1>6. BoundTypes
    BY ConstantTypes DEF Init, BoundTypes
<1> QED
    BY <1>1, <1>2, <1>3, <1>4, <1>5, <1>6 DEF TInv

\* What is unchanged keeps its type.
LEMMA Keeps ==
    /\ EngineTypes /\ UNCHANGED engine => EngineTypes'
    /\ StoreTypes /\ UNCHANGED <<store, used>> => StoreTypes'
    /\ CallTypes /\ UNCHANGED <<call, used>> => CallTypes'
    /\ StreamTypes /\ UNCHANGED stream => StreamTypes'
    /\ HistoryTypes /\ UNCHANGED history => HistoryTypes'
<1>1. EngineTypes /\ UNCHANGED engine => EngineTypes'
    BY DEF EngineTypes, engine
<1>2. StoreTypes /\ UNCHANGED <<store, used>> => StoreTypes'
    BY DEF StoreTypes, UsedIds, store
<1>3. CallTypes /\ UNCHANGED <<call, used>> => CallTypes'
    BY DEF CallTypes
<1>4. StreamTypes /\ UNCHANGED stream => StreamTypes'
    BY DEF StreamTypes, stream
<1>5. HistoryTypes /\ UNCHANGED history => HistoryTypes'
    BY DEF HistoryTypes, history, answers
<1> QED
    BY <1>1, <1>2, <1>3, <1>4, <1>5

LEMMA PublishKeeps ==
    ASSUME NEW w \in Worktree, NEW e \in Event, TInv, Publish(w, e)
    PROVE  StreamTypes'
    BY TInvTypeOK, PublishType DEF StreamTypes, TInv

\* Agents, refreshes and the steps of an approve that leave the store alone.
LEMMA WorktreeNextTypes == ASSUME TInv, WorktreeNext PROVE TInv'
<1> USE DEF TInv, history, answers, store, stream, engine
<1> PICK w \in Worktree :
        \/ \E f \in File, h \in Hash \cup {Same} : Edit(w, f, h)
        \/ Drop(w) \/ Add(w) \/ Refresh(w) \/ Sweep(w)
        \/ ApproveRemoves(w) \/ ApproveKeeps(w)
    BY DEF WorktreeNext
<1>1. ASSUME NEW f \in File, NEW h \in Hash \cup {Same}, Edit(w, f, h) PROVE TInv'
    <2> DEFINE d == [work[w] EXCEPT ![f] = h]
    <2>1. d \in Content
        BY DEF EngineTypes, Content
    <2>2. work' = [work EXCEPT ![w] = d] /\ UNCHANGED <<live, cache, approve>>
        BY <1>1 DEF Edit
    <2> HIDE DEF d
    <2>3. EngineTypes'
        BY <2>1, <2>2 DEF EngineTypes
    <2>4. BoundTypes'
        BY <1>1, ConstantTypes DEF Edit, BoundTypes
    <2> QED
        BY <1>1, <2>3, <2>4, Keeps DEF Edit
<1>2. CASE Drop(w)
    <2>1. EngineTypes'
        BY <1>2, EventTypes DEF Drop, EngineTypes
    <2>2. BoundTypes'
        BY <1>2, ConstantTypes DEF Drop, BoundTypes
    <2> QED
        BY <1>2, <2>1, <2>2, Keeps DEF Drop
<1>3. CASE Add(w)
    <2>1. EngineTypes'
        BY <1>3 DEF Add, EngineTypes
    <2>2. BoundTypes'
        BY <1>3, ConstantTypes DEF Add, BoundTypes
    <2> QED
        BY <1>3, <2>1, <2>2, Keeps DEF Add
<1>4. CASE Refresh(w)
    <2>1. EngineTypes'
        BY <1>4 DEF Refresh, EngineTypes
    <2>2. StreamTypes'
        <3>1. Ready(work[w]) \in Event
            BY EventTypes DEF EngineTypes
        <3> QED
            BY <1>4, <3>1, PublishKeeps DEF Refresh
    <2>3. HistoryTypes' /\ BoundTypes'
        BY <1>4 DEF Refresh, HistoryTypes, BoundTypes
    <2> QED
        BY <1>4, <2>1, <2>2, <2>3, Keeps DEF Refresh
<1>5. CASE Sweep(w)
    <2>1. EngineTypes'
        BY <1>5 DEF Sweep, EngineTypes
    <2>2. StreamTypes'
        BY <1>5, EventTypes, PublishKeeps DEF Sweep
    <2>3. BoundTypes'
        BY <1>5 DEF Sweep, BoundTypes
    <2> QED
        BY <1>5, <2>1, <2>2, <2>3, Keeps DEF Sweep
<1>6. CASE ApproveRemoves(w)
    <2>1. EngineTypes'
        BY <1>6, EventTypes DEF ApproveRemoves, EngineTypes
    <2>2. BoundTypes'
        BY <1>6 DEF ApproveRemoves, BoundTypes
    <2> QED
        BY <1>6, <2>1, <2>2, Keeps DEF ApproveRemoves
<1>7. CASE ApproveKeeps(w)
    <2>1. EngineTypes'
        BY <1>7 DEF ApproveKeeps, EngineTypes
    <2>2. BoundTypes'
        BY <1>7, TInvTypeOK, TroubleType DEF ApproveKeeps, BoundTypes
    <2> QED
        BY <1>7, <2>1, <2>2, Keeps DEF ApproveKeeps
<1> QED
    BY <1>1, <1>2, <1>3, <1>4, <1>5, <1>6, <1>7

\* The steps of an approve that reach the store.
LEMMA ApproveTypes ==
    ASSUME TInv, ApproveClears \/ ApproveClearFails \/ ApproveForgets
    PROVE  TInv'
<1> USE DEF TInv
<1>1. /\ Of(approve.wt) \subseteq used /\ OnDisk(approve.wt) \subseteq used
      /\ BeingAdded(approve.wt) \subseteq used
    BY TInvTypeOK, OfUsed DEF CallTypes, BeingAdded
<1>2. \A r \in [Id -> Comment \cup {None}] : \A ids :
         /\ Without(r, ids) \in [Id -> Comment \cup {None}]
         /\ \A i \in Id : Without(r, ids)[i] # None => r[i] # None
    BY WithoutType
<1>3. CASE ApproveClears
    <2>1. EngineTypes'
        BY <1>3 DEF ApproveClears, EngineTypes
    <2>2. StoreTypes'
        BY <1>2, <1>3 DEF ApproveClears, StoreTypes, UsedIds
    <2>3. HistoryTypes'
        BY <1>1, <1>3 DEF ApproveClears, HistoryTypes, EngineTypes, answers
    <2> QED
        BY <1>3, <2>1, <2>2, <2>3, Keeps DEF ApproveClears, BoundTypes
<1>4. CASE ApproveClearFails
    <2>1. EngineTypes'
        BY <1>4 DEF ApproveClearFails, EngineTypes
    <2>2. StoreTypes'
        BY <1>2, <1>4 DEF ApproveClearFails, StoreTypes, UsedIds
    <2>3. HistoryTypes'
        BY <1>1, <1>4 DEF ApproveClearFails, HistoryTypes, EngineTypes, answers
    <2>4. BoundTypes'
        BY <1>4, TInvTypeOK, TroubleType DEF ApproveClearFails, BoundTypes
    <2> QED
        BY <1>4, <2>1, <2>2, <2>3, <2>4, Keeps DEF ApproveClearFails
<1>5. CASE ApproveForgets
    <2>1. approve.wt \in Worktree
        BY <1>5 DEF ApproveForgets, EngineTypes
    <2>2. EngineTypes'
        BY <1>5 DEF ApproveForgets, EngineTypes
    <2>3. StreamTypes'
        BY <1>5, <2>1, EventTypes, PublishKeeps DEF ApproveForgets
    <2>4. BoundTypes' /\ UNCHANGED <<store, call, history, used>>
        BY <1>5 DEF ApproveForgets, BoundTypes, history
    <2> QED
        BY <1>5, <2>2, <2>3, <2>4, Keeps
<1> QED
    BY <1>3, <1>4, <1>5

\* A step of a call changes one caller's record.
LEMMA CallTypesStep ==
    ASSUME NEW c \in Caller, NEW n \in Call, CallTypes,
           call' = [call EXCEPT ![c] = n], used \subseteq used',
           n.at # "idle" => n.id \in used',
           n.do = "add" /\ n.at # "idle" => n.file \in File,
           n.at = "insert" => n.do = "add"
    PROVE  CallTypes'
    BY CallStep DEF CallTypes

\* Where a call goes on, it keeps its locals.
LEMMA AdvanceTypes ==
    ASSUME NEW c \in Caller, NEW l \in {"write", "insert", "publish"}, CallTypes,
           call' = [call EXCEPT ![c] = [call[c] EXCEPT !.at = l]], used' = used,
           call[c].at # "idle",
           l = "insert" => call[c].do = "add"
    PROVE  /\ CallTypes'
           /\ call'[c] = [call[c] EXCEPT !.at = l]
           /\ call'[c].at = l /\ call'[c].do = call[c].do /\ call'[c].id = call[c].id
           /\ call'[c].wt = call[c].wt
           /\ \A d \in Caller \ {c} : call'[d] = call[d]
<1> DEFINE n == [call[c] EXCEPT !.at = l]
<1>1. /\ call[c] \in Call /\ call \in [Caller -> Call]
      /\ call[c].id \in used /\ (call[c].do = "add" => call[c].file \in File)
    BY DEF CallTypes
<1>2. /\ n \in Call /\ n.at = l /\ n.do = call[c].do /\ n.id = call[c].id
      /\ n.wt = call[c].wt /\ n.file = call[c].file
    BY <1>1 DEF Call
<1>3. call' = [call EXCEPT ![c] = n]
    OBVIOUS
<1> HIDE DEF n
<1>4. CallTypes'
    BY <1>1, <1>2, <1>3, CallTypesStep
<1>5. call'[c] = n /\ \A d \in Caller \ {c} : call'[d] = call[d]
    BY <1>1, <1>2, <1>3, CallStep
<1> QED
    BY <1>2, <1>4, <1>5 DEF n

LEMMA ReturnTypes ==
    ASSUME NEW c \in Caller, CallTypes, Return(c), used' = used
    PROVE  /\ CallTypes' /\ call'[c] = NoCall
           /\ \A d \in Caller \ {c} : call'[d] = call[d]
<1>1. call' = [call EXCEPT ![c] = NoCall] /\ call \in [Caller -> Call]
    BY DEF Return, CallTypes
<1> QED
    BY <1>1, NoCallType, CallTypesStep, CallStep

LEMMA CallAddTypes ==
    ASSUME TInv, NEW c \in Caller, NEW w \in Worktree, NEW f \in File, CallAdd(c, w, f)
    PROVE  TInv'
<1> USE DEF TInv
<1>1. PICK i \in Id :
         /\ used' = used \cup {i}
         /\ late' \in {late, late \cup {i}}
         /\ call' = [call EXCEPT ![c] =
                [at |-> "write", do |-> "add", wt |-> w, id |-> i, file |-> f]]
    BY DEF CallAdd
<1>2. CallTypes'
    <2> DEFINE n == [at |-> "write", do |-> "add", wt |-> w, id |-> i, file |-> f]
    <2>1. n \in Call /\ n.id = i /\ n.file = f /\ n.at = "write"
        BY DEF Call
    <2>2. call' = [call EXCEPT ![c] = n]
        BY <1>1
    <2> HIDE DEF n
    <2> QED
        BY <1>1, <2>1, <2>2, CallTypesStep
<1>3. StoreTypes'
    BY <1>1 DEF CallAdd, StoreTypes, UsedIds, store
<1>4. HistoryTypes'
    BY <1>1 DEF CallAdd, HistoryTypes, answers
<1> QED
    BY <1>2, <1>3, <1>4, Keeps DEF CallAdd, BoundTypes

LEMMA CallChangeTypes ==
    ASSUME TInv, NEW c \in Caller, NEW do \in {"resolve", "delete"}, NEW w \in Worktree,
           NEW i \in Id, CallChange(c, do, w, i)
    PROVE  TInv'
<1> USE DEF TInv
<1>1. call' = [call EXCEPT ![c] =
            [at |-> "write", do |-> do, wt |-> w, id |-> i, file |-> None]]
    BY DEF CallChange
<1>2. i \in used
    BY TInvTypeOK, OfUsed DEF CallChange
<1>3. UNCHANGED <<history, used, engine, store, stream>>
    BY DEF CallChange, history
<1>4. CallTypes'
    <2> DEFINE n == [at |-> "write", do |-> do, wt |-> w, id |-> i, file |-> None]
    <2>1. n \in Call /\ n.id = i /\ n.do # "add" /\ n.at = "write"
        BY DEF Call
    <2>2. call' = [call EXCEPT ![c] = n]
        BY <1>1
    <2> HIDE DEF n
    <2> QED
        BY <1>2, <1>3, <2>1, <2>2, CallTypesStep
<1>5. BoundTypes'
    BY ConstantTypes DEF CallChange, BoundTypes
<1> QED
    BY <1>3, <1>4, <1>5, Keeps

LEMMA CountTypes == ASSUME TInv, NEW c \in Caller, Count(c) PROVE TInv'
<1> USE DEF TInv
<1>1. UNCHANGED <<engine, store, stream, history, used, edits, troubles>>
    BY DEF Count, history
<1>2. CallTypes'
    <2>1. CASE Full(call[c].wt)
        BY <1>1, <2>1, ReturnTypes DEF Count
    <2>2. CASE ~Full(call[c].wt)
        BY <1>1, <2>2, AdvanceTypes DEF Count
    <2> QED
        BY <2>1, <2>2
<1> QED
    BY <1>1, <1>2, Keeps DEF BoundTypes

\* What a write of an add makes of the comments.
LEMMA AddingTypes ==
    ASSUME TInv, NEW c \in Caller, call[c].at = "insert"
    PROVE  LET k == call[c] IN
           /\ k \in Call /\ k.do = "add" /\ k.id \in Id /\ k.id \in used /\ k.wt \in Worktree
           /\ Inserted(k) \in [Id -> Comment \cup {None}]
           /\ Inserted(k)[k.id] \in Comment
           /\ Inserted(k)[k.id].wt = k.wt /\ Inserted(k)[k.id].state = "open"
           /\ \A i \in Id \ {k.id} : Inserted(k)[i] = rows[i]
<1>1. /\ call[c] \in Call /\ call[c].do = "add" /\ call[c].id \in Id /\ call[c].id \in used
      /\ call[c].file \in File /\ call[c].wt \in Worktree
    BY DEF TInv, CallTypes, HistoryTypes, Call
<1>2. rows \in [Id -> Comment \cup {None}]
    BY DEF TInv, StoreTypes
<1> QED
    BY <1>1, <1>2, InsertedType

LEMMA InsertTypes == ASSUME TInv, NEW c \in Caller, Insert(c) PROVE TInv'
<1> USE DEF TInv
<1>1. /\ call[c].at = "insert" /\ rows' = Inserted(call[c]) /\ disk' = rows'
      /\ call' = [call EXCEPT ![c] = [call[c] EXCEPT !.at = "publish"]]
      /\ UNCHANGED <<engine, backend, stream, history, used, edits, troubles>>
    BY DEF Insert, history
<1>2. CallTypes'
    BY <1>1, AdvanceTypes
<1>3. StoreTypes'
    BY <1>1, AddingTypes DEF StoreTypes, UsedIds
<1> QED
    BY <1>1, <1>2, <1>3, Keeps DEF BoundTypes

LEMMA InsertFailsTypes == ASSUME TInv, NEW c \in Caller, InsertFails(c) PROVE TInv'
<1> USE DEF TInv
<1>1. /\ call[c].at = "insert" /\ rows' \in {rows, Inserted(call[c])}
      /\ Return(c)
      /\ UNCHANGED <<engine, backend, disk, feed, subscribed, missed, history, used, edits>>
      /\ untold' \in {untold, untold \cup {call[c].id}}
    BY DEF InsertFails, history
<1>2. CallTypes'
    BY <1>1, ReturnTypes
<1>3. StoreTypes'
    BY <1>1, AddingTypes DEF StoreTypes, UsedIds
<1>4. BoundTypes'
    BY <1>1, TInvTypeOK, TroubleType DEF InsertFails, BoundTypes
<1>5. StreamTypes'
    BY <1>1, AddingTypes DEF StreamTypes
<1> QED
    BY <1>1, <1>2, <1>3, <1>4, <1>5, Keeps

\* What a resolve or a delete finds.
LEMMA ChangingTypes ==
    ASSUME TInv, NEW c \in Caller, Found(call[c])
    PROVE  LET k == call[c] IN
           /\ k \in Call /\ k.id \in Id /\ k.id \in used /\ rows[k.id] # None
           /\ Changed1(k) \in [Id -> Comment \cup {None}]
           /\ \A i \in Id \ {k.id} : Changed1(k)[i] = rows[i]
           /\ k.do = "delete" => Changed1(k)[k.id] = None
           /\ k.do # "delete" => /\ Changed1(k)[k.id] # None
                                 /\ Changed1(k)[k.id].wt = rows[k.id].wt
                                 /\ Changed1(k)[k.id].state = "resolved"
<1>1. call[c] \in Call /\ rows \in [Id -> Comment \cup {None}]
    BY DEF TInv, CallTypes, StoreTypes
<1>2. call[c].id \in Id /\ rows[call[c].id] # None
    BY DEF Found, Of, In
<1>3. call[c].id \in used
    BY <1>2 DEF TInv, StoreTypes, UsedIds
<1> QED
    BY <1>1, <1>2, <1>3, Changed1Type

LEMMA ChangeTypes == ASSUME TInv, NEW c \in Caller, Change(c) PROVE TInv'
<1> USE DEF TInv
<1>1. /\ call[c].at = "write" /\ call[c].do # "add"
      /\ rows' = IF Found(call[c]) THEN Changed1(call[c]) ELSE rows
      /\ disk' = IF Found(call[c]) THEN rows' ELSE disk
      /\ UNCHANGED <<engine, backend, stream, used, cleared, late, answers, edits, troubles>>
    BY DEF Change
<1>2. CallTypes'
    <2>1. CASE Found(call[c])
        BY <1>1, <2>1, AdvanceTypes DEF Change
    <2>2. CASE ~Found(call[c])
        BY <1>1, <2>2, ReturnTypes DEF Change
    <2> QED
        BY <2>1, <2>2
<1>3. StoreTypes'
    BY <1>1, ChangingTypes DEF StoreTypes, UsedIds
<1>4. HistoryTypes'
    <2>1. undone' = undone \/ (undone' = undone \cup {call[c].id} /\ Found(call[c]))
        BY DEF Change, Undo
    <2> QED
        BY <1>1, <2>1, ChangingTypes DEF HistoryTypes, answers
<1> QED
    BY <1>1, <1>2, <1>3, <1>4, Keeps DEF BoundTypes

LEMMA ChangeFailsTypes == ASSUME TInv, NEW c \in Caller, ChangeFails(c) PROVE TInv'
<1> USE DEF TInv
<1>1. /\ Found(call[c]) /\ rows' \in {rows, Changed1(call[c])}
      /\ Return(c)
      /\ UNCHANGED <<engine, backend, disk, feed, subscribed, missed, used, cleared, late,
                     answers, edits>>
      /\ untold' \in {untold, untold \cup {call[c].id}}
    BY DEF ChangeFails
<1>2. CallTypes'
    BY <1>1, ReturnTypes
<1>3. StoreTypes'
    BY <1>1, ChangingTypes DEF StoreTypes, UsedIds
<1>4. HistoryTypes'
    <2>1. undone' \in {undone, undone \cup {call[c].id}}
        BY DEF ChangeFails, Undo
    <2> QED
        BY <1>1, <2>1, ChangingTypes DEF HistoryTypes, answers
<1>5. BoundTypes'
    BY <1>1, TInvTypeOK, TroubleType DEF ChangeFails, BoundTypes
<1>6. StreamTypes'
    BY <1>1, ChangingTypes DEF StreamTypes
<1> QED
    BY <1>1, <1>2, <1>3, <1>4, <1>5, <1>6, Keeps

LEMMA PublishChangeTypes == ASSUME TInv, NEW c \in Caller, PublishChange(c) PROVE TInv'
<1> USE DEF TInv
<1>1. call[c] \in Call /\ call[c].id \in used /\ call[c].wt \in Worktree
    BY DEF PublishChange, CallTypes, Call
<1>2. CallTypes'
    BY ReturnTypes DEF PublishChange
<1>3. StreamTypes'
    BY <1>1, EventTypes, PublishKeeps DEF PublishChange
<1>4. HistoryTypes'
    BY <1>1 DEF PublishChange, HistoryTypes
<1> QED
    BY <1>2, <1>3, <1>4, Keeps DEF PublishChange, BoundTypes

LEMMA RestartTypes == ASSUME TInv, Restart PROVE TInv'
<1> USE DEF TInv
<1>1. EngineTypes'
    BY DEF Restart, EngineTypes
<1>2. StoreTypes'
    BY DEF Restart, StoreTypes, UsedIds, history
<1>3. CallTypes'
    BY NoCallType DEF Restart, CallTypes
<1>4. StreamTypes'
    <2>1. <<>> \in Seq(Event) /\ Len(<<>>) = 0
        OBVIOUS
    <2>2. feed' = <<>> /\ subscribed' \in BOOLEAN /\ missed' \in BOOLEAN /\ untold' = {}
        BY DEF Restart
    <2>3. feed' \in Seq(Event) /\ Len(feed') <= Buffer
        BY <2>1, <2>2, ConstantTypes
    <2> QED
        BY <2>2, <2>3 DEF StreamTypes
<1>5. BoundTypes'
    BY TInvTypeOK, TroubleType DEF Restart, BoundTypes
<1> QED
    BY <1>1, <1>2, <1>3, <1>4, <1>5, Keeps DEF Restart

LEMMA NextTInv == TInv /\ [Next]_vars => TInv'
<1> SUFFICES ASSUME TInv, [Next]_vars PROVE TInv'
    OBVIOUS
<1>1. CASE WorktreeNext
    BY <1>1, WorktreeNextTypes
<1>2. CASE ApproveClears \/ ApproveClearFails \/ ApproveForgets
    BY <1>2, ApproveTypes
<1>3. CASE CallNext
    BY <1>3, CallAddTypes, CallChangeTypes, CountTypes, InsertTypes, InsertFailsTypes,
       ChangeTypes, ChangeFailsTypes, PublishChangeTypes DEF CallNext
<1>4. CASE Restart
    BY <1>4, RestartTypes
<1>5. CASE UNCHANGED vars
    BY <1>5, Keeps DEF vars, history, TInv, BoundTypes
<1> QED
    BY <1>1, <1>2, <1>3, <1>4, <1>5 DEF Next

LEMMA TInvHolds == Spec => []TInv
    BY InitTInv, NextTInv, PTL DEF Spec

-----------------------------------------------------------------------------
(* The cap.  It is kept because of the requests under way: at most one has *)
(* counted and not inserted yet, and what it counted is still so.          *)

OneInserting ==
    \A c, d \in Caller : call[c].at = "insert" /\ call[d].at = "insert" => c = d

SpaceLeft ==
    \A c \in Caller : call[c].at = "insert" => Cardinality(In(rows, call[c].wt)) < MaxComments

Capped == \A w \in Worktree : /\ Cardinality(In(rows, w)) <= MaxComments
                              /\ Cardinality(In(disk, w)) <= MaxComments

CInv == OneInserting /\ SpaceLeft /\ Capped

LEMMA InFinite ==
    ASSUME NEW r, NEW w
    PROVE  IsFiniteSet(In(r, w)) /\ Cardinality(In(r, w)) \in Nat
<1>1. In(r, w) \subseteq Id
    BY DEF In
<1>2. IsFiniteSet(In(r, w))
    BY <1>1, ConstantTypes, FS_Subset
<1> QED
    BY <1>2, FS_CardinalityType

LEMMA InShrinks ==
    ASSUME NEW r, NEW s, NEW w, In(s, w) \subseteq In(r, w)
    PROVE  Cardinality(In(s, w)) <= Cardinality(In(r, w))
    BY InFinite, FS_Subset

LEMMA InGrows ==
    ASSUME NEW r, NEW s, NEW w, NEW i, In(s, w) \subseteq In(r, w) \cup {i}
    PROVE  Cardinality(In(s, w)) <= Cardinality(In(r, w)) + 1
<1> DEFINE more == In(r, w) \cup {i}
<1>1. IsFiniteSet(more) /\ Cardinality(more) <= Cardinality(In(r, w)) + 1
    BY InFinite, FS_AddElement
<1>2. Cardinality(In(s, w)) <= Cardinality(more) /\ Cardinality(more) \in Nat
    BY <1>1, FS_Subset, FS_CardinalityType
<1> HIDE DEF more
<1> QED
    BY <1>1, <1>2, InFinite

LEMMA InitCInv == Init /\ TInv => CInv
<1> SUFFICES ASSUME Init PROVE CInv
    OBVIOUS
<1>1. OneInserting /\ SpaceLeft
    BY NoCallType DEF Init, OneInserting, SpaceLeft
<1>2. \A w \in Worktree : In(rows, w) = {} /\ In(disk, w) = {}
    BY DEF Init, In
<1>3. Capped
    BY <1>2, FS_EmptySet, ConstantTypes DEF Capped
<1> QED
    BY <1>1, <1>3 DEF CInv

\* No request is between count and insert, and no comment is added.
LEMMA CapShrinks ==
    ASSUME CInv,
           \A c \in Caller : call'[c].at # "insert",
           \A w \in Worktree :
              /\ In(rows', w) \subseteq In(rows, w) \/ In(rows', w) \subseteq In(disk, w)
              /\ In(disk', w) \subseteq In(rows, w) \/ In(disk', w) \subseteq In(disk, w)
    PROVE  CInv'
<1>1. OneInserting' /\ SpaceLeft'
    BY DEF OneInserting, SpaceLeft
<1>2. ASSUME NEW r, NEW w \in Worktree,
             In(r, w) \subseteq In(rows, w) \/ In(r, w) \subseteq In(disk, w)
      PROVE  Cardinality(In(r, w)) <= MaxComments
    <2>1. /\ Cardinality(In(rows, w)) <= MaxComments
          /\ Cardinality(In(disk, w)) <= MaxComments
        BY DEF CInv, Capped
    <2>2. \/ Cardinality(In(r, w)) <= Cardinality(In(rows, w))
          \/ Cardinality(In(r, w)) <= Cardinality(In(disk, w))
        BY <1>2, InShrinks
    <2>3. /\ Cardinality(In(rows, w)) \in Nat /\ Cardinality(In(disk, w)) \in Nat
          /\ Cardinality(In(r, w)) \in Nat
        BY InFinite
    <2> QED
        BY <2>1, <2>2, <2>3, ConstantTypes
<1>3. Capped'
    BY <1>2 DEF Capped
<1> QED
    BY <1>1, <1>3 DEF CInv

LEMMA WithoutShrinks ==
    \A r, ids, w : In(Without(r, ids), w) \subseteq In(r, w)
    BY DEF In, Without

LEMMA Changed1Shrinks ==
    ASSUME TInv, NEW c \in Caller, Found(call[c]), NEW w
    PROVE  In(Changed1(call[c]), w) \subseteq In(rows, w)
    BY ChangingTypes DEF In

\* The insert itself: of one worktree there is one comment more, of the others none.
LEMMA InsertedCap ==
    ASSUME TInv, CInv, NEW c \in Caller, call[c].at = "insert", NEW w \in Worktree
    PROVE  Cardinality(In(Inserted(call[c]), w)) <= MaxComments
<1> DEFINE k == call[c]
           r == Inserted(k)
<1>1. /\ k.id \in Id /\ k.wt \in Worktree /\ r[k.id].wt = k.wt
      /\ \A i \in Id \ {k.id} : r[i] = rows[i]
    BY AddingTypes
<1>2. Cardinality(In(rows, w)) \in Nat /\ Cardinality(In(r, w)) \in Nat
    BY InFinite
<1>3. CASE w = k.wt
    <2>1. In(r, w) \subseteq In(rows, w) \cup {k.id}
        BY <1>1 DEF In
    <2>2. Cardinality(In(r, w)) <= Cardinality(In(rows, w)) + 1
        BY <2>1, InGrows
    <2>3. Cardinality(In(rows, w)) < MaxComments
        BY <1>3 DEF CInv, SpaceLeft
    <2> QED
        BY <1>2, <2>2, <2>3, ConstantTypes
<1>4. CASE w # k.wt
    <2>1. In(r, w) \subseteq In(rows, w)
        BY <1>1, <1>4 DEF In
    <2>2. Cardinality(In(r, w)) <= Cardinality(In(rows, w))
        BY <2>1, InShrinks
    <2>3. Cardinality(In(rows, w)) <= MaxComments
        BY DEF CInv, Capped
    <2> QED
        BY <1>2, <2>2, <2>3, ConstantTypes
<1> QED
    BY <1>3, <1>4

LEMMA InsertCInv ==
    ASSUME TInv, CInv, NEW c \in Caller, Insert(c) \/ InsertFails(c) PROVE CInv'
<1>1. /\ call[c].at = "insert"
      /\ rows' \in {rows, Inserted(call[c])} /\ disk' \in {disk, Inserted(call[c])}
    BY DEF Insert, InsertFails
<1>2. call'[c].at # "insert" /\ \A d \in Caller \ {c} : call'[d] = call[d]
    <2>1. CASE Insert(c)
        <3>1. call' = [call EXCEPT ![c] = [call[c] EXCEPT !.at = "publish"]]
            BY <2>1 DEF Insert
        <3> QED
            BY <1>1, <2>1, <3>1, AdvanceTypes DEF Insert, TInv, history
    <2>2. CASE InsertFails(c)
        BY <2>2, ReturnTypes, NoCallType DEF InsertFails, TInv, history
    <2> QED
        BY <2>1, <2>2
<1>3. \A d \in Caller : call'[d].at # "insert"
    BY <1>1, <1>2 DEF CInv, OneInserting
<1>4. Capped'
    BY <1>1, InsertedCap DEF CInv, Capped
<1> QED
    BY <1>3, <1>4 DEF CInv, OneInserting, SpaceLeft

LEMMA CountCInv == ASSUME TInv, CInv, NEW c \in Caller, Count(c) PROVE CInv'
<1>1. rows' = rows /\ disk' = disk /\ StoreFree /\ call[c].at = "write" /\ call[c].do = "add"
      /\ used' = used
    BY DEF Count, store, history
<1>2. Capped'
    BY <1>1 DEF CInv, Capped
<1>3. CASE Full(call[c].wt)
    <2>1. \A d \in Caller : call'[d].at # "insert"
        BY <1>1, <1>3, ReturnTypes, NoCallType DEF Count, TInv, StoreFree
    <2> QED
        BY <1>2, <2>1 DEF CInv, OneInserting, SpaceLeft
<1>4. CASE ~Full(call[c].wt)
    <2>1. call' = [call EXCEPT ![c] = [call[c] EXCEPT !.at = "insert"]]
        BY <1>4 DEF Count
    <2>2. /\ call'[c].wt = call[c].wt
          /\ \A d \in Caller \ {c} : call'[d].at # "insert"
        BY <1>1, <2>1, AdvanceTypes DEF TInv, StoreFree
    <2>3. Cardinality(In(rows, call[c].wt)) < MaxComments
        BY <1>4, InFinite, ConstantTypes DEF Full, Of
    <2> QED
        BY <1>1, <1>2, <2>2, <2>3 DEF CInv, OneInserting, SpaceLeft
<1> QED
    BY <1>3, <1>4

LEMMA NextCInv == TInv /\ CInv /\ [Next]_vars => CInv'
<1> SUFFICES ASSUME TInv, CInv, [Next]_vars PROVE CInv'
    OBVIOUS
<1>1. CASE UNCHANGED <<rows, disk, call>>
    BY <1>1 DEF CInv, OneInserting, SpaceLeft, Capped
<1>2. CASE WorktreeNext \/ ApproveForgets \/ UNCHANGED vars
    <2>1. UNCHANGED <<rows, disk, call>>
        BY <1>2 DEF WorktreeNext, ApproveForgets, vars, store, Edit, Drop, Add, Refresh, Sweep,
                    ApproveRemoves, ApproveKeeps
    <2> QED
        BY <1>1, <2>1
<1>3. CASE ApproveClears \/ ApproveClearFails
    <2>1. /\ rows' \in {rows, Without(rows, Of(approve.wt))} /\ disk' \in {disk, rows'}
          /\ call' = call /\ StoreFree
        BY <1>3 DEF ApproveClears, ApproveClearFails
    <2>2. \A w : In(rows', w) \subseteq In(rows, w)
        BY <2>1, WithoutShrinks
    <2> QED
        BY <2>1, <2>2, CapShrinks DEF StoreFree
<1>4. ASSUME NEW c \in Caller, NEW n \in Call, n.at # "insert",
             call' = [call EXCEPT ![c] = n], UNCHANGED <<rows, disk>>
      PROVE  CInv'
    <2>1. call'[c] = n /\ \A d \in Caller \ {c} : call'[d] = call[d]
        BY <1>4, CallStep DEF TInv, CallTypes
    <2> QED
        BY <1>4, <2>1 DEF CInv, OneInserting, SpaceLeft, Capped
<1>5. ASSUME NEW c \in Caller, NEW w \in Worktree, NEW f \in File, CallAdd(c, w, f)
      PROVE  CInv'
    <2>1. PICK i \in Id : call' = [call EXCEPT ![c] =
                [at |-> "write", do |-> "add", wt |-> w, id |-> i, file |-> f]]
        BY <1>5 DEF CallAdd
    <2>2. [at |-> "write", do |-> "add", wt |-> w, id |-> i, file |-> f] \in Call
        BY DEF Call
    <2> QED
        BY <1>4, <1>5, <2>1, <2>2 DEF CallAdd, store
<1>6. ASSUME NEW c \in Caller, NEW do \in {"resolve", "delete"}, NEW w \in Worktree,
             NEW i \in Id, CallChange(c, do, w, i)
      PROVE  CInv'
    <2>1. [at |-> "write", do |-> do, wt |-> w, id |-> i, file |-> None] \in Call
        BY DEF Call
    <2> QED
        BY <1>4, <1>6, <2>1 DEF CallChange, store
<1>7. ASSUME NEW c \in Caller, PublishChange(c) PROVE CInv'
    BY <1>4, <1>7, NoCallType DEF PublishChange, Return, store
<1>8. ASSUME NEW c \in Caller, Change(c) \/ ChangeFails(c) PROVE CInv'
    <2>1. /\ rows' = rows \/ (Found(call[c]) /\ rows' = Changed1(call[c]))
          /\ disk' \in {disk, rows'} /\ StoreFree
          /\ call[c].at = "write" /\ used' = used
        BY <1>8 DEF Change, ChangeFails
    <2>2. \A w : In(rows', w) \subseteq In(rows, w)
        BY <2>1, Changed1Shrinks
    <2>3. \/ Return(c)
          \/ call' = [call EXCEPT ![c] = [call[c] EXCEPT !.at = "publish"]]
        BY <1>8 DEF Change, ChangeFails
    <2>4. \A d \in Caller : call'[d].at # "insert"
        <3>1. CallTypes /\ \A d \in Caller : call[d].at # "insert"
            BY <2>1 DEF TInv, StoreFree
        <3>2. CASE Return(c)
            BY <2>1, <3>1, <3>2, ReturnTypes, NoCallType
        <3>3. CASE call' = [call EXCEPT ![c] = [call[c] EXCEPT !.at = "publish"]]
            BY <2>1, <3>1, <3>3, AdvanceTypes
        <3> QED
            BY <2>3, <3>2, <3>3
    <2> QED
        BY <2>1, <2>2, <2>4, CapShrinks
<1>9. CASE CallNext
    BY <1>5, <1>6, <1>7, <1>8, <1>9, CountCInv, InsertCInv DEF CallNext
<1>10. CASE Restart
    BY <1>10, NoCallType, CapShrinks DEF Restart
<1> QED
    BY <1>2, <1>3, <1>9, <1>10 DEF Next

-----------------------------------------------------------------------------
\* Every variable keeps its type, and a call that inserts is an add whose id
\* was given out (Comments).
THEOREM TypeCorrect == Spec => []TypeOK
<1>1. TInv => TypeOK
    BY TInvTypeOK
<1> QED
    BY <1>1, TInvHolds, PTL

\* However many requests add comments at once, over either store, and whatever
\* writes fail: no worktree has more than the cap (sqlite.go:366-372).
THEOREM CapSound == Spec => []CapHolds
<1>1. Capped => CapHolds
    BY DEF Capped, CapHolds, Of, OnDisk
<1>2. CInv => CapHolds
    BY <1>1 DEF CInv
<1>3. Spec => []CInv
    BY InitTInv, InitCInv, NextCInv, TInvHolds, PTL DEF Spec
<1> QED
    BY <1>2, <1>3, PTL

-----------------------------------------------------------------------------
(* What an answer promises stays in the file.  Three facts carry it: the   *)
(* store never answers less than its file has (Kept), a request that is    *)
(* about to answer has its change in the file (Answered), and an id that   *)
(* is being added is nobody else's yet (AddsFresh), so that no insert      *)
(* opens a resolved comment again.                                         *)

Adding(c) == call[c].do = "add" /\ call[c].at \in {"write", "insert"}

AddsFresh ==
    \A c \in Caller : Adding(c) =>
        /\ rows[call[c].id] = None /\ disk[call[c].id] = None
        /\ call[c].id \notin added \cup resolved
        /\ \A d \in Caller \ {c} : call[d].at # "idle" => call[d].id # call[c].id

\* b has the comment that a has, and is resolved when a is.
AtLeast(b, a) == a # None => b # None /\ (a.state = "resolved" => b.state = "resolved")

Kept == \A i \in Id \ undone : AtLeast(rows[i], disk[i])

Told(do, i) == \E c \in Caller : call[c].at = "publish" /\ call[c].do = do /\ call[c].id = i

Answered ==
    \A i \in Id \ undone :
        /\ i \in added \/ Told("add", i) => disk[i] # None
        /\ i \in resolved \/ Told("resolve", i) => disk[i] # None /\ disk[i].state = "resolved"

DInv == AddsFresh /\ Kept /\ Answered

LEMMA InitDInv == Init /\ TInv => DInv
    BY NoCallType DEF Init, DInv, AddsFresh, Adding, Kept, AtLeast, Answered, Told

\* The file keeps what it has, and nothing is answered that it has not.
LEMMA AnsweredStays ==
    ASSUME Answered, undone \subseteq undone',
           \A i \in Id \ undone' : AtLeast(disk'[i], disk[i]),
           \A i \in Id \ undone' :
              /\ i \in added' \/ Told("add", i)' =>
                    i \in added \/ Told("add", i) \/ disk'[i] # None
              /\ i \in resolved' \/ Told("resolve", i)' =>
                    \/ i \in resolved \/ Told("resolve", i)
                    \/ disk'[i] # None /\ disk'[i].state = "resolved"
    PROVE  Answered'
<1> SUFFICES ASSUME NEW i \in Id \ undone'
             PROVE  /\ i \in added' \/ Told("add", i)' => disk'[i] # None
                    /\ i \in resolved' \/ Told("resolve", i)' =>
                          disk'[i] # None /\ disk'[i].state = "resolved"
    BY DEF Answered
<1>1. /\ i \in added \/ Told("add", i) => disk[i] # None
      /\ i \in resolved \/ Told("resolve", i) => disk[i] # None /\ disk[i].state = "resolved"
    BY DEF Answered
<1>2. AtLeast(disk'[i], disk[i])
    OBVIOUS
<1> QED
    BY <1>1, <1>2 DEF AtLeast

\* A caller that stops being told about takes nothing from the others.
LEMMA ToldLess ==
    ASSUME NEW c \in Caller, call'[c].at # "publish",
           \A d \in Caller \ {c} : call'[d] = call[d]
    PROVE  \A do, i : Told(do, i)' => Told(do, i)
    BY DEF Told

LEMMA ApproveDInv ==
    ASSUME TInv, DInv, ApproveClears \/ ApproveClearFails PROVE DInv'
<1> DEFINE ids == Of(approve.wt)
<1>1. /\ rows' \in {rows, Without(rows, ids)} /\ disk' \in {disk, Without(rows, ids)}
      /\ disk' = disk \/ rows' = Without(rows, ids)
      /\ undone' = undone \cup ids
      /\ UNCHANGED <<call, added, resolved>>
    BY DEF ApproveClears, ApproveClearFails, answers
<1> HIDE DEF ids
<1>2. \A i \in Id : Without(rows, ids)[i] = IF i \in ids THEN None ELSE rows[i]
    BY WithoutType DEF TInv, StoreTypes
<1>3. AddsFresh'
    <2>1. \A c \in Caller : Adding(c) => call[c].id \in Id
        BY DEF Adding, TInv, CallTypes, HistoryTypes
    <2> QED
        BY <1>1, <1>2, <2>1 DEF DInv, AddsFresh, Adding
<1>4. \A i \in Id \ undone' : /\ rows'[i] = rows[i]
                              /\ disk'[i] = disk[i] \/ disk'[i] = rows[i]
                              /\ AtLeast(rows[i], disk[i])
    BY <1>1, <1>2 DEF DInv, Kept
<1>5. \A i \in Id \ undone' : AtLeast(disk'[i], disk[i]) /\ AtLeast(rows'[i], disk'[i])
    BY <1>4 DEF AtLeast
<1>6. Kept'
    BY <1>5 DEF Kept
<1>7. Answered'
    BY <1>1, <1>5, AnsweredStays DEF DInv, Told
<1> QED
    BY <1>3, <1>6, <1>7 DEF DInv

LEMMA CallAddDInv ==
    ASSUME TInv, DInv, NEW c \in Caller, NEW w \in Worktree, NEW f \in File, CallAdd(c, w, f)
    PROVE  DInv'
<1> PICK i \in Id :
        /\ i \notin used
        /\ call' = [call EXCEPT ![c] =
               [at |-> "write", do |-> "add", wt |-> w, id |-> i, file |-> f]]
    BY DEF CallAdd, Fresh
<1>1. /\ call'[c].at = "write" /\ call'[c].do = "add" /\ call'[c].id = i
      /\ \A d \in Caller \ {c} : call'[d] = call[d]
    <2>1. [at |-> "write", do |-> "add", wt |-> w, id |-> i, file |-> f] \in Call
        BY DEF Call
    <2> QED
        BY <2>1, CallStep DEF TInv, CallTypes
<1>2. UNCHANGED <<rows, disk, added, resolved, undone>>
    BY DEF CallAdd, store, answers
<1>3. AddsFresh'
    <2>1. rows[i] = None /\ disk[i] = None /\ i \notin added \cup resolved
        BY DEF TInv, StoreTypes, UsedIds, HistoryTypes
    <2>2. \A d \in Caller \ {c} : call[d].at # "idle" => call[d].id # i
        BY DEF TInv, CallTypes
    <2> QED
        BY <1>1, <1>2, <2>1, <2>2 DEF DInv, AddsFresh, Adding
<1>4. Kept'
    BY <1>2 DEF DInv, Kept
<1>5. Answered'
    BY <1>1, <1>2, ToldLess, AnsweredStays DEF DInv, AtLeast
<1> QED
    BY <1>3, <1>4, <1>5 DEF DInv

LEMMA CallChangeDInv ==
    ASSUME TInv, DInv, NEW c \in Caller, NEW do \in {"resolve", "delete"}, NEW w \in Worktree,
           NEW i \in Id, CallChange(c, do, w, i)
    PROVE  DInv'
<1>1. /\ call'[c].at = "write" /\ call'[c].do # "add" /\ call'[c].id = i
      /\ \A d \in Caller \ {c} : call'[d] = call[d]
    <2>1. [at |-> "write", do |-> do, wt |-> w, id |-> i, file |-> None] \in Call
        BY DEF Call
    <2>2. call' = [call EXCEPT ![c] =
              [at |-> "write", do |-> do, wt |-> w, id |-> i, file |-> None]]
        BY DEF CallChange
    <2> QED
        BY <2>1, <2>2, CallStep DEF TInv, CallTypes
<1>2. UNCHANGED <<rows, disk, added, resolved, undone>>
    BY DEF CallChange, store, history, answers
<1>3. AddsFresh'
    <2>1. rows[i] # None
        BY DEF CallChange, Of, In
    <2> QED
        BY <1>1, <1>2, <2>1 DEF DInv, AddsFresh, Adding
<1>4. Kept'
    BY <1>2 DEF DInv, Kept
<1>5. Answered'
    BY <1>1, <1>2, ToldLess, AnsweredStays DEF DInv, AtLeast
<1> QED
    BY <1>3, <1>4, <1>5 DEF DInv

\* A request that returns, or that goes on to its insert, with the store as it was.
LEMMA LeaveDInv ==
    ASSUME TInv, DInv, NEW c \in Caller, UNCHANGED <<rows, disk, added, resolved, undone>>,
           call[c].at # "idle",
           \A d \in Caller \ {c} : call'[d] = call[d],
           call'[c] = NoCall \/ (Adding(c) /\ call'[c] = [call[c] EXCEPT !.at = "insert"])
    PROVE  DInv'
<1>1. \/ call'[c].at = "idle"
      \/ Adding(c) /\ call'[c].at = "insert" /\ call'[c].id = call[c].id
    BY NoCallType DEF TInv, CallTypes, Call
<1>2. AddsFresh'
    BY <1>1 DEF DInv, AddsFresh, Adding
<1>3. Kept'
    BY DEF DInv, Kept
<1>4. Answered'
    BY <1>1, ToldLess, AnsweredStays DEF DInv, AtLeast
<1> QED
    BY <1>2, <1>3, <1>4 DEF DInv

\* The id of an insert is nobody else's: nothing that was answered, or is about
\* to be, speaks of it.
LEMMA InsertDInv == ASSUME TInv, DInv, NEW c \in Caller, Insert(c) PROVE DInv'
<1> DEFINE k == call[c]
<1>1. /\ k.at = "insert" /\ rows' = Inserted(k) /\ disk' = Inserted(k)
      /\ call' = [call EXCEPT ![c] = [call[c] EXCEPT !.at = "publish"]]
      /\ UNCHANGED <<used, added, resolved, undone>>
    BY DEF Insert, history, answers
<1>2. /\ k.do = "add" /\ k.id \in Id
      /\ Inserted(k)[k.id] \in Comment /\ Inserted(k)[k.id] # None
      /\ \A i \in Id \ {k.id} : Inserted(k)[i] = rows[i]
    BY <1>1, AddingTypes, ConstantTypes
<1>3. /\ call'[c].at = "publish" /\ call'[c].do = "add" /\ call'[c].id = k.id
      /\ \A d \in Caller \ {c} : call'[d] = call[d]
    BY <1>1, <1>2, AdvanceTypes DEF TInv
<1>4. /\ k.id \notin added \cup resolved
      /\ \A d \in Caller \ {c} : call[d].at # "idle" => call[d].id # k.id
    BY <1>1, <1>2 DEF DInv, AddsFresh, Adding
<1>5. AddsFresh'
    <2> SUFFICES ASSUME NEW d \in Caller \ {c}, Adding(d)
                 PROVE  /\ rows'[call[d].id] = None /\ disk'[call[d].id] = None
                        /\ call[d].id \notin added \cup resolved
                        /\ \A e \in Caller \ {d} : call'[e].at # "idle" => call'[e].id # call[d].id
        BY <1>1, <1>3 DEF AddsFresh, Adding
    <2>1. /\ rows[call[d].id] = None /\ call[d].id \notin added \cup resolved
          /\ \A e \in Caller \ {d} : call[e].at # "idle" => call[e].id # call[d].id
        BY DEF DInv, AddsFresh
    <2>2. call[d].id # k.id /\ call[d].id \in Id
        BY <1>4 DEF Adding, TInv, CallTypes, HistoryTypes
    <2> QED
        BY <1>1, <1>2, <1>3, <2>1, <2>2
<1>6. Kept'
    BY <1>1 DEF Kept, AtLeast
<1>7. \A i \in Id \ undone' : AtLeast(disk'[i], disk[i])
    <2>1. \A i \in Id \ undone' : AtLeast(rows[i], disk[i])
        BY <1>1 DEF DInv, Kept
    <2>2. disk[k.id] = None
        BY <1>1, <1>2 DEF DInv, AddsFresh, Adding
    <2> QED
        BY <1>1, <1>2, <2>1, <2>2 DEF AtLeast
<1>8. \A i \in Id \ undone' :
         /\ i \in added' \/ Told("add", i)' =>
               i \in added \/ Told("add", i) \/ disk'[i] # None
         /\ i \in resolved' \/ Told("resolve", i)' => i \in resolved \/ Told("resolve", i)
    <2>1. \A i \in Id : Told("add", i)' => i = k.id \/ Told("add", i)
        BY <1>3 DEF Told
    <2>2. \A i \in Id : Told("resolve", i)' => Told("resolve", i)
        BY <1>3 DEF Told
    <2> QED
        BY <1>1, <1>2, <2>1, <2>2
<1>9. Answered'
    BY <1>1, <1>7, <1>8, AnsweredStays DEF DInv
<1> QED
    BY <1>5, <1>6, <1>9 DEF DInv

LEMMA InsertFailsDInv == ASSUME TInv, DInv, NEW c \in Caller, InsertFails(c) PROVE DInv'
<1> DEFINE k == call[c]
<1>1. /\ k.at = "insert" /\ rows' \in {rows, Inserted(k)} /\ Return(c)
      /\ UNCHANGED <<used, disk, added, resolved, undone>>
    BY DEF InsertFails, history, answers
<1>2. /\ k.do = "add" /\ k.id \in Id
      /\ \A i \in Id \ {k.id} : Inserted(k)[i] = rows[i]
    BY <1>1, AddingTypes
<1>3. call'[c].at = "idle" /\ \A d \in Caller \ {c} : call'[d] = call[d]
    BY <1>1, ReturnTypes, NoCallType DEF TInv
<1>4. /\ disk[k.id] = None
      /\ \A d \in Caller \ {c} : call[d].at # "idle" => call[d].id # k.id
    BY <1>1, <1>2 DEF DInv, AddsFresh, Adding
<1>5. AddsFresh'
    <2> SUFFICES ASSUME NEW d \in Caller \ {c}, Adding(d)
                 PROVE  /\ rows'[call[d].id] = None /\ disk[call[d].id] = None
                        /\ call[d].id \notin added \cup resolved
                        /\ \A e \in Caller \ {d} : call'[e].at # "idle" => call'[e].id # call[d].id
        BY <1>1, <1>3 DEF AddsFresh, Adding
    <2>1. /\ rows[call[d].id] = None /\ disk[call[d].id] = None
          /\ call[d].id \notin added \cup resolved
          /\ \A e \in Caller \ {d} : call[e].at # "idle" => call[e].id # call[d].id
        BY DEF DInv, AddsFresh
    <2>2. call[d].id # k.id /\ call[d].id \in Id
        BY <1>4 DEF Adding, TInv, CallTypes, HistoryTypes
    <2> QED
        BY <1>1, <1>2, <1>3, <2>1, <2>2
<1>6. Kept'
    BY <1>1, <1>2, <1>4 DEF DInv, Kept, AtLeast
<1>7. Answered'
    BY <1>1, <1>3, ToldLess, AnsweredStays DEF DInv, AtLeast
<1> QED
    BY <1>5, <1>6, <1>7 DEF DInv

\* A resolve or a delete of a comment that is there, written or failing to be.
LEMMA ChangedDInv ==
    ASSUME TInv, DInv, NEW c \in Caller, Found(call[c]),
           call[c].at = "write", call[c].do # "add",
           UNCHANGED <<added, resolved>>,
           rows' \in {rows, Changed1(call[c])},
           disk' = disk \/ (disk' = Changed1(call[c]) /\ rows' = Changed1(call[c])),
           undone' = IF call[c].do = "delete" THEN undone \cup {call[c].id} ELSE undone,
           \A d \in Caller \ {c} : call'[d] = call[d],
           \/ call'[c].at = "idle"
           \/ /\ disk' = Changed1(call[c])
              /\ call'[c].at = "publish" /\ call'[c].do = call[c].do /\ call'[c].id = call[c].id
    PROVE  DInv'
<1> DEFINE k == call[c]
<1>1. /\ k.id \in Id /\ rows[k.id] # None
      /\ \A i \in Id \ {k.id} : Changed1(k)[i] = rows[i]
      /\ k.do # "delete" => Changed1(k)[k.id] # None /\ Changed1(k)[k.id].state = "resolved"
    BY ChangingTypes
<1>2. AddsFresh'
    <2> SUFFICES ASSUME NEW d \in Caller \ {c}, Adding(d)
                 PROVE  /\ rows'[call[d].id] = None /\ disk'[call[d].id] = None
                        /\ call[d].id \notin added \cup resolved
                        /\ \A e \in Caller \ {d} : call'[e].at # "idle" => call'[e].id # call[d].id
        BY DEF AddsFresh, Adding
    <2>1. /\ rows[call[d].id] = None /\ disk[call[d].id] = None
          /\ call[d].id \notin added \cup resolved
          /\ \A e \in Caller \ {d} : call[e].at # "idle" => call[e].id # call[d].id
        BY DEF DInv, AddsFresh
    <2>2. call[d].id # k.id /\ call[d].id \in Id
        BY <2>1 DEF Adding, TInv, CallTypes, HistoryTypes
    <2> QED
        BY <1>1, <2>1, <2>2
<1>3. \A i \in Id \ undone' : AtLeast(Changed1(k)[i], rows[i]) /\ AtLeast(rows[i], disk[i])
    BY <1>1 DEF AtLeast, DInv, Kept
<1>4. Kept'
    BY <1>3 DEF Kept, AtLeast
<1>5. \A i \in Id \ undone' : AtLeast(disk'[i], disk[i])
    BY <1>3 DEF AtLeast
<1>6. \A i \in Id \ undone' :
         /\ Told("add", i)' => Told("add", i)
         /\ Told("resolve", i)' =>
               Told("resolve", i) \/ (disk'[i] # None /\ disk'[i].state = "resolved")
    <2>1. \A i \in Id : Told("add", i)' => Told("add", i)
        BY DEF Told
    <2>2. \A i \in Id : Told("resolve", i)' =>
             \/ Told("resolve", i)
             \/ k.do = "resolve" /\ i = k.id /\ disk' = Changed1(k)
        BY DEF Told
    <2>3. k.do = "resolve" => Changed1(k)[k.id] # None /\ Changed1(k)[k.id].state = "resolved"
        BY <1>1
    <2> QED
        BY <2>1, <2>2, <2>3
<1>7. Answered'
    BY <1>5, <1>6, AnsweredStays DEF DInv
<1> QED
    BY <1>2, <1>4, <1>7 DEF DInv

LEMMA ChangeDInv ==
    ASSUME TInv, DInv, NEW c \in Caller, Change(c) \/ ChangeFails(c) PROVE DInv'
<1>1. /\ call[c].at = "write" /\ call[c].do # "add"
      /\ UNCHANGED <<used, added, resolved>>
    BY DEF Change, ChangeFails, answers
<1>2. CASE Change(c) /\ Found(call[c])
    <2>1. /\ rows' = Changed1(call[c]) /\ disk' = rows'
          /\ call' = [call EXCEPT ![c] = [call[c] EXCEPT !.at = "publish"]]
          /\ undone' = IF call[c].do = "delete" THEN undone \cup {call[c].id} ELSE undone
        BY <1>2 DEF Change, Undo
    <2>2. /\ call'[c].at = "publish" /\ call'[c].do = call[c].do /\ call'[c].id = call[c].id
          /\ \A d \in Caller \ {c} : call'[d] = call[d]
        BY <1>1, <2>1, AdvanceTypes DEF TInv
    <2> QED
        BY <1>1, <1>2, <2>1, <2>2, ChangedDInv
<1>3. CASE ChangeFails(c)
    <2>1. /\ Found(call[c]) /\ rows' \in {rows, Changed1(call[c])} /\ disk' = disk /\ Return(c)
          /\ undone' = IF call[c].do = "delete" THEN undone \cup {call[c].id} ELSE undone
        BY <1>3 DEF ChangeFails, Undo
    <2>2. call'[c].at = "idle" /\ \A d \in Caller \ {c} : call'[d] = call[d]
        BY <1>1, <2>1, ReturnTypes, NoCallType DEF TInv
    <2> QED
        BY <1>1, <2>1, <2>2, ChangedDInv
<1>4. CASE Change(c) /\ ~Found(call[c])
    <2>1. UNCHANGED <<rows, disk, undone>> /\ Return(c)
        BY <1>4 DEF Change, Undo
    <2>2. call'[c] = NoCall /\ \A d \in Caller \ {c} : call'[d] = call[d]
        BY <1>1, <2>1, ReturnTypes DEF TInv
    <2> QED
        BY <1>1, <2>1, <2>2, LeaveDInv
<1> QED
    BY <1>2, <1>3, <1>4

LEMMA CountDInv == ASSUME TInv, DInv, NEW c \in Caller, Count(c) PROVE DInv'
<1>1. /\ UNCHANGED <<rows, disk, added, resolved, undone, used>>
      /\ call[c].at = "write" /\ call[c].do = "add"
    BY DEF Count, store, history, answers
<1>2. CASE Full(call[c].wt)
    <2>1. call'[c] = NoCall /\ \A d \in Caller \ {c} : call'[d] = call[d]
        BY <1>1, <1>2, ReturnTypes DEF Count, TInv
    <2> QED
        BY <1>1, <2>1, LeaveDInv
<1>3. CASE ~Full(call[c].wt)
    <2>1. call' = [call EXCEPT ![c] = [call[c] EXCEPT !.at = "insert"]]
        BY <1>3 DEF Count
    <2>2. /\ call'[c] = [call[c] EXCEPT !.at = "insert"]
          /\ \A d \in Caller \ {c} : call'[d] = call[d]
        BY <1>1, <2>1, AdvanceTypes DEF TInv
    <2> QED
        BY <1>1, <2>2, LeaveDInv DEF Adding
<1> QED
    BY <1>2, <1>3

LEMMA PublishChangeDInv == ASSUME TInv, DInv, NEW c \in Caller, PublishChange(c) PROVE DInv'
<1> DEFINE k == call[c]
<1>1. /\ k.at = "publish"
      /\ added' = IF k.do = "add" THEN added \cup {k.id} ELSE added
      /\ resolved' = IF k.do = "resolve" THEN resolved \cup {k.id} ELSE resolved
      /\ UNCHANGED <<rows, disk, undone, used>>
    BY DEF PublishChange, store
<1>2. call'[c].at = "idle" /\ \A d \in Caller \ {c} : call'[d] = call[d]
    BY <1>1, ReturnTypes, NoCallType DEF PublishChange, TInv
<1>3. AddsFresh'
    BY <1>1, <1>2 DEF DInv, AddsFresh, Adding
<1>4. Kept'
    BY <1>1 DEF DInv, Kept
<1>5. Told(k.do, k.id)
    BY <1>1 DEF Told
<1>6. Answered'
    BY <1>1, <1>2, <1>5, ToldLess, AnsweredStays DEF DInv, AtLeast
<1> QED
    BY <1>3, <1>4, <1>6 DEF DInv

LEMMA NextDInv == TInv /\ DInv /\ [Next]_vars => DInv'
<1> SUFFICES ASSUME TInv, DInv, [Next]_vars PROVE DInv'
    OBVIOUS
<1>1. CASE WorktreeNext \/ ApproveForgets \/ UNCHANGED vars
    <2>1. UNCHANGED <<rows, disk, call, added, resolved, undone>>
        BY <1>1 DEF WorktreeNext, ApproveForgets, vars, store, history, answers, Edit, Drop, Add,
                    Refresh, Sweep, ApproveRemoves, ApproveKeeps
    <2> QED
        BY <2>1 DEF DInv, AddsFresh, Adding, Kept, Answered, Told
<1>2. CASE CallNext
    BY <1>2, CallAddDInv, CallChangeDInv, CountDInv, InsertDInv, InsertFailsDInv, ChangeDInv,
       PublishChangeDInv DEF CallNext
<1>3. CASE Restart
    <2>1. /\ rows' = disk /\ UNCHANGED <<disk, added, resolved, undone>>
          /\ \A c \in Caller : call'[c].at = "idle"
        BY <1>3, NoCallType DEF Restart, history, answers
    <2>2. AddsFresh' /\ Kept'
        BY <2>1 DEF AddsFresh, Adding, Kept, AtLeast
    <2>3. Answered'
        BY <2>1, AnsweredStays DEF DInv, AtLeast, Told
    <2> QED
        BY <2>2, <2>3 DEF DInv
<1> QED
    BY <1>1, <1>2, <1>3, ApproveDInv DEF Next

\* What an add or a resolve has been answered is in the file, through failing
\* writes of either store, crashes and anything else that is under way, until
\* a delete or a clear (AddComment, ResolveComment).
THEOREM DurableSound == Spec => []Durable
<1>1. DInv /\ TInv => Durable
    BY DEF DInv, Answered, Durable, TInv, HistoryTypes
<1>2. Spec => []DInv
    BY InitTInv, InitDInv, NextDInv, TInvHolds, PTL DEF Spec
<1> QED
    BY <1>1, <1>2, TInvHolds, PTL

-----------------------------------------------------------------------------
(* The comments of a cleared worktree.  The file counts too, since a restart *)
(* answers with what it has.                                               *)

Placed == \A i \in Id :
    /\ rows[i] # None /\ rows[i].wt \in cleared => i \in late
    /\ disk[i] # None /\ disk[i].wt \in cleared => i \in late

\* An add under way in a cleared worktree was come across.
Foreseen == \A c \in Caller : Adding(c) /\ call[c].wt \in cleared => call[c].id \in late

\* A cleared worktree is found in the cache only until the approve forgets it.
Forgotten == \A w \in cleared : cache[w] # None => approve.at = "forget" /\ approve.wt = w

OInv == Placed /\ Foreseen /\ Forgotten

LEMMA InitOInv == Init => OInv
    BY DEF Init, OInv, Placed, Foreseen, Forgotten

LEMMA WorktreeOInv == ASSUME TInv, OInv, WorktreeNext PROVE OInv'
<1>1. PICK w \in Worktree : \/ \E f \in File, h \in Hash \cup {Same} : Edit(w, f, h)
                            \/ Drop(w) \/ Add(w) \/ Refresh(w) \/ Sweep(w)
                            \/ ApproveRemoves(w) \/ ApproveKeeps(w)
    BY DEF WorktreeNext
<1>2. UNCHANGED <<rows, disk, call, late>> /\ cleared' \subseteq cleared
    BY <1>1 DEF Edit, Drop, Add, Refresh, Sweep, ApproveRemoves, ApproveKeeps, store, history,
                answers
<1>3. Placed' /\ Foreseen'
    BY <1>2 DEF OInv, Placed, Foreseen, Adding
<1>4. cache \in [Worktree -> Content \cup {None}] /\ cleared \subseteq Worktree
    BY DEF TInv, EngineTypes, HistoryTypes
<1>5. CASE Refresh(w)
    <2>1. cleared' = cleared \ {w} /\ cache' = [cache EXCEPT ![w] = work[w]] /\ approve' = approve
        BY <1>5 DEF Refresh
    <2>2. \A v \in cleared' : v \in cleared /\ cache'[v] = cache[v]
        BY <1>4, <2>1
    <2> QED
        BY <1>3, <2>1, <2>2 DEF OInv, Forgotten
<1>6. CASE Sweep(w)
    <2>1. cache' = [cache EXCEPT ![w] = None] /\ approve' = approve
        BY <1>6 DEF Sweep
    <2>2. \A v \in Worktree : cache'[v] # None => cache[v] # None
        BY <1>4, <2>1
    <2> QED
        BY <1>2, <1>3, <1>4, <2>1, <2>2 DEF OInv, Forgotten
<1>7. CASE ~ (Refresh(w) \/ Sweep(w))
    <2>1. cache' = cache /\ (approve' = approve \/ approve.at = "idle")
        BY <1>1, <1>7 DEF Edit, Drop, Add, ApproveRemoves, ApproveKeeps, Unlocked
    <2> QED
        BY <1>2, <1>3, <2>1 DEF OInv, Forgotten
<1> QED
    BY <1>5, <1>6, <1>7

\* The calls change neither the cache nor the approve.
LEMMA CallForgotten == ASSUME OInv, UNCHANGED <<engine, cleared>> PROVE Forgotten'
    BY DEF OInv, Forgotten, engine

\* A call that leaves the store alone, and is no new add.
LEMMA LeaveOInv ==
    ASSUME OInv, NEW c \in Caller, UNCHANGED <<engine, rows, disk, cleared, late>>,
           \A d \in Caller \ {c} : call'[d] = call[d],
           \/ ~ Adding(c)'
           \/ Adding(c) /\ call'[c].id = call[c].id /\ call'[c].wt = call[c].wt
    PROVE  OInv'
<1>1. Placed'
    BY DEF OInv, Placed
<1>2. Foreseen'
    BY DEF OInv, Foreseen, Adding
<1> QED
    BY <1>1, <1>2, CallForgotten DEF OInv

LEMMA CallAddOInv ==
    ASSUME TInv, OInv, NEW c \in Caller, NEW w \in Worktree, NEW f \in File, CallAdd(c, w, f)
    PROVE  OInv'
<1>1. PICK i \in Id :
         /\ late' = IF approve.at = "forget" /\ approve.wt = w THEN late \cup {i} ELSE late
         /\ call' = [call EXCEPT ![c] =
                [at |-> "write", do |-> "add", wt |-> w, id |-> i, file |-> f]]
    BY DEF CallAdd
<1>2. cache[w] # None /\ UNCHANGED <<engine, rows, disk, cleared>>
    BY DEF CallAdd, store
<1>3. call'[c].id = i /\ call'[c].wt = w /\ \A d \in Caller \ {c} : call'[d] = call[d]
    BY <1>1 DEF TInv, CallTypes
<1>4. late \subseteq late'
    BY <1>1
<1>5. Placed'
    BY <1>2, <1>4 DEF OInv, Placed
<1>6. w \in cleared => i \in late'
    BY <1>1, <1>2 DEF OInv, Forgotten
<1>7. Foreseen'
    BY <1>2, <1>3, <1>4, <1>6 DEF OInv, Foreseen, Adding
<1> QED
    BY <1>2, <1>5, <1>7, CallForgotten DEF OInv

LEMMA InsertOInv ==
    ASSUME TInv, OInv, NEW c \in Caller, Insert(c) \/ InsertFails(c) PROVE OInv'
<1> DEFINE k == call[c]
<1>1. /\ k.at = "insert" /\ UNCHANGED <<engine, cleared, late>>
      /\ rows' = rows \/ rows' = Inserted(k)
      /\ disk' = disk \/ disk' = rows'
    BY DEF Insert, InsertFails, history
<1>2. /\ k.id \in Id /\ k.do = "add" /\ Inserted(k)[k.id].wt = k.wt
      /\ \A i \in Id \ {k.id} : Inserted(k)[i] = rows[i]
    BY <1>1, AddingTypes
<1>3. k.wt \in cleared => k.id \in late
    BY <1>1, <1>2 DEF OInv, Foreseen, Adding
<1>4. \A i \in Id : rows'[i] # None /\ rows'[i].wt \in cleared => i \in late
    BY <1>1, <1>2, <1>3 DEF OInv, Placed
<1>5. Placed'
    BY <1>1, <1>4 DEF OInv, Placed
<1>6. ~ Adding(c)' /\ \A d \in Caller \ {c} : call'[d] = call[d]
    <2>1. CASE Insert(c)
        BY <1>1, <2>1, AdvanceTypes DEF TInv, Insert, history, Adding
    <2>2. CASE InsertFails(c)
        BY <2>2, ReturnTypes, NoCallType DEF TInv, InsertFails, history, Adding
    <2> QED
        BY <2>1, <2>2
<1>7. Foreseen'
    BY <1>1, <1>6 DEF OInv, Foreseen, Adding
<1> QED
    BY <1>1, <1>5, <1>7, CallForgotten DEF OInv

LEMMA ChangeOInv ==
    ASSUME TInv, OInv, NEW c \in Caller, Change(c) \/ ChangeFails(c) PROVE OInv'
<1> DEFINE k == call[c]
<1>1. /\ k.at = "write" /\ k.do # "add"
      /\ rows' = rows \/ (Found(k) /\ rows' = Changed1(k))
      /\ disk' = disk \/ disk' = rows'
      /\ UNCHANGED <<engine, late, cleared>>
    BY DEF Change, ChangeFails
<1>2. \A i \in Id : rows'[i] # None => rows[i] # None /\ rows'[i].wt = rows[i].wt
    BY <1>1, ChangingTypes
<1>3. Placed'
    BY <1>1, <1>2 DEF OInv, Placed
<1>4. ~ Adding(c)' /\ \A d \in Caller \ {c} : call'[d] = call[d]
    <2>1. CASE Return(c)
        BY <2>1, ReturnTypes, NoCallType DEF TInv, Change, ChangeFails, history, Adding
    <2>2. CASE call' = [call EXCEPT ![c] = [call[c] EXCEPT !.at = "publish"]]
        BY <1>1, <2>2, AdvanceTypes DEF TInv, Change, ChangeFails, Adding
    <2> QED
        BY <2>1, <2>2 DEF Change, ChangeFails
<1>5. Foreseen'
    BY <1>1, <1>4 DEF OInv, Foreseen, Adding
<1> QED
    BY <1>1, <1>3, <1>5, CallForgotten DEF OInv

LEMMA CallOInv == ASSUME TInv, OInv, CallNext PROVE OInv'
<1>1. ASSUME NEW c \in Caller, NEW do \in {"resolve", "delete"}, NEW w \in Worktree,
             NEW i \in Id, CallChange(c, do, w, i)
      PROVE  OInv'
    <2>1. call' = [call EXCEPT ![c] =
            [at |-> "write", do |-> do, wt |-> w, id |-> i, file |-> None]]
        BY <1>1 DEF CallChange
    <2>2. call'[c].do # "add" /\ \A d \in Caller \ {c} : call'[d] = call[d]
        BY <1>1, <2>1 DEF TInv, CallTypes
    <2>3. UNCHANGED <<engine, rows, disk, cleared, late>>
        BY <1>1 DEF CallChange, store, history
    <2> QED
        BY <2>2, <2>3, LeaveOInv DEF Adding
<1>2. ASSUME NEW c \in Caller, Count(c) PROVE OInv'
    <2>1. UNCHANGED <<engine, rows, disk, cleared, late, used>>
        BY <1>2 DEF Count, store, history
    <2>2. call[c].at = "write" /\ call[c].do = "add"
        BY <1>2 DEF Count
    <2>3. CASE Return(c)
        <3>1. ~ Adding(c)' /\ \A d \in Caller \ {c} : call'[d] = call[d]
            BY <2>1, <2>3, ReturnTypes, NoCallType DEF TInv, Adding
        <3> QED
            BY <2>1, <3>1, LeaveOInv
    <2>4. CASE call' = [call EXCEPT ![c] = [call[c] EXCEPT !.at = "insert"]]
        <3>1. /\ Adding(c) /\ call'[c].id = call[c].id /\ call'[c].wt = call[c].wt
              /\ \A d \in Caller \ {c} : call'[d] = call[d]
            BY <2>1, <2>2, <2>4, AdvanceTypes DEF TInv, Adding
        <3> QED
            BY <2>1, <3>1, LeaveOInv
    <2> QED
        BY <1>2, <2>3, <2>4 DEF Count
<1>3. ASSUME NEW c \in Caller, PublishChange(c) PROVE OInv'
    <2>1. UNCHANGED <<engine, rows, disk, cleared, late, used>> /\ Return(c)
        BY <1>3 DEF PublishChange, store
    <2>2. ~ Adding(c)' /\ \A d \in Caller \ {c} : call'[d] = call[d]
        BY <2>1, ReturnTypes, NoCallType DEF TInv, Adding
    <2> QED
        BY <2>1, <2>2, LeaveOInv
<1> QED
    BY <1>1, <1>2, <1>3, CallAddOInv, InsertOInv, ChangeOInv DEF CallNext

\* A clear comes across every add that is under way in the worktree: none is in
\* its transaction.
LEMMA ClearsForesee ==
    ASSUME TInv, DInv, OInv, ApproveClears \/ ApproveClearFails
    PROVE  Foreseen' /\ Forgotten'
<1>1. /\ approve.at = "clear" /\ StoreFree /\ UNCHANGED <<call, cache>>
      /\ cleared' = cleared \cup {approve.wt}
      /\ approve' = [approve EXCEPT !.at = "forget"]
      /\ (late \ Of(approve.wt)) \cup BeingAdded(approve.wt) \subseteq late'
    BY DEF ApproveClears, ApproveClearFails
<1>2. approve'.at = "forget" /\ approve'.wt = approve.wt
    BY <1>1 DEF TInv, EngineTypes
<1>3. ASSUME NEW c \in Caller, Adding(c), call[c].wt = approve.wt PROVE call[c].id \in late'
    <2>1. call[c].at = "write" /\ call[c].do = "add"
        BY <1>1, <1>3 DEF StoreFree, Adding
    <2> QED
        BY <1>1, <1>3, <2>1 DEF BeingAdded
<1>4. \A c \in Caller : Adding(c) => call[c].id \notin Of(approve.wt)
    BY DEF DInv, AddsFresh, Of, In
<1>5. Foreseen'
    BY <1>1, <1>3, <1>4 DEF OInv, Foreseen, Adding
<1>6. Forgotten'
    BY <1>1, <1>2 DEF OInv, Forgotten
<1> QED
    BY <1>5, <1>6

LEMMA ApproveOInv ==
    ASSUME TInv, DInv, OInv, ApproveClears \/ ApproveClearFails \/ ApproveForgets PROVE OInv'
<1>1. CASE ApproveClears
    <2>1. /\ rows' = Without(rows, Of(approve.wt)) /\ disk' = rows'
          /\ cleared' = cleared \cup {approve.wt} /\ late \ Of(approve.wt) \subseteq late'
        BY <1>1 DEF ApproveClears
    <2>2. \A i \in Id : rows'[i] # None =>
             rows'[i] = rows[i] /\ i \notin Of(approve.wt) /\ rows[i].wt # approve.wt
        BY <2>1, WithoutType DEF TInv, StoreTypes, Of, In
    <2>3. Placed'
        BY <2>1, <2>2 DEF OInv, Placed
    <2> QED
        BY <1>1, <2>3, ClearsForesee DEF OInv
<1>2. CASE ApproveClearFails
    <2>1. /\ rows' = rows \/ rows' = Without(rows, Of(approve.wt))
          /\ disk' = disk /\ cleared' = cleared \cup {approve.wt}
          /\ late \cup Of(approve.wt) \cup OnDisk(approve.wt) \subseteq late'
        BY <1>2 DEF ApproveClearFails
    <2>2. \A i \in Id : rows'[i] # None => rows'[i] = rows[i]
        BY <2>1, WithoutType DEF TInv, StoreTypes
    <2>3. Placed'
        BY <2>1, <2>2 DEF OInv, Placed, Of, OnDisk, In
    <2> QED
        BY <1>2, <2>3, ClearsForesee DEF OInv
<1>3. CASE ApproveForgets
    <2>1. /\ UNCHANGED <<rows, disk, call, late, cleared>>
          /\ approve.at = "forget" /\ cache' = [cache EXCEPT ![approve.wt] = None]
        BY <1>3 DEF ApproveForgets, store, history
    <2>2. Placed' /\ Foreseen'
        BY <2>1 DEF OInv, Placed, Foreseen, Adding
    <2>3. \A v \in Worktree \ {approve.wt} : cache'[v] = cache[v]
        BY <2>1 DEF TInv, EngineTypes
    <2>4. cache'[approve.wt] = None /\ cleared \subseteq Worktree
        BY <2>1 DEF TInv, EngineTypes, HistoryTypes
    <2>5. Forgotten'
        BY <2>1, <2>3, <2>4 DEF OInv, Forgotten
    <2> QED
        BY <2>2, <2>5 DEF OInv
<1> QED
    BY <1>1, <1>2, <1>3

LEMMA NextOInv == TInv /\ DInv /\ OInv /\ [Next]_vars => OInv'
<1> SUFFICES ASSUME TInv, DInv, OInv, [Next]_vars PROVE OInv'
    OBVIOUS
<1>1. CASE Restart
    <2>1. /\ rows' = disk /\ UNCHANGED <<disk, late, cleared>>
          /\ \A w \in Worktree : cache'[w] = None
          /\ \A c \in Caller : call'[c].at = "idle"
        BY <1>1, NoCallType DEF Restart, history
    <2>2. cleared \subseteq Worktree
        BY DEF TInv, HistoryTypes
    <2> QED
        BY <2>1, <2>2 DEF OInv, Placed, Foreseen, Forgotten, Adding
<1>2. CASE UNCHANGED vars
    <2>1. UNCHANGED <<rows, disk, call, late, cleared, cache, approve>>
        BY <1>2 DEF vars, engine, store, history
    <2> QED
        BY <2>1 DEF OInv, Placed, Foreseen, Forgotten, Adding
<1> QED
    BY <1>1, <1>2, WorktreeOInv, ApproveOInv, CallOInv DEF Next

\* For every number of worktrees, comments and requests: a worktree that an
\* approve has cleared has no comments, now or after a restart, but those whose
\* add found the worktree before the approve forgot it and was not in the store
\* when it was cleared, and those a clear left that failed: no add that starts
\* after the worktree is forgotten leaves one (AddComment against the order of
\* ClearWorktree and the end of the row in Approve).
THEOREM OutlivedSound == Spec => []Outlived
<1>1. OInv => Outlived
    BY DEF OInv, Placed, Outlived, Of, In
<1>2. Spec => []OInv
    BY InitTInv, InitDInv, InitOInv, NextDInv, NextOInv, TInvHolds, PTL DEF Spec
<1> QED
    BY <1>1, <1>2, PTL

-----------------------------------------------------------------------------
(* The room.  A page at rest shows the comments because, until it does,    *)
(* something is still to come: an event, or the newest of its fetches,     *)
(* which has read what the daemon still says.                              *)

\* The page will be told, or has missed that it was.
Due ==
    \/ missed \/ feed # <<>> \/ cache[Room] = None
    \/ approve.at # "idle" /\ approve.wt = Room
    \/ \E c \in Caller : call[c].at = "publish" /\ call[c].wt = Room

Known == Of(Room) \ untold

\* What has been read is what the daemon says.
Right(q) ==
    /\ q.at # "diff" => q.diff = cache[Room]
    /\ q.at \in {"rows", "done"} => q.view = cache[Room]
    /\ q.at = "done" => \A i \in Known : q.rows[i] = rows[i]

\* The last fetch is torn, or puts the page right.
Newest(s) == s # <<>> /\ (s[Len(s)].torn \/ Right(s[Len(s)]))

Shows == \A i \in Known : <<i, rows[i].state>> \in OnPage

Synced ==
    /\ page = "loading" => Due \/ Newest(fetch)
    /\ page = "open" => \/ Due \/ banner \/ Newest(fetch)
                        \/ fetch = <<>> /\ (torn \/ Shows)

\* A fetch past its first read has a diff.
HasDiff(q) == q.at # "diff" => q.diff \in Content

FetchTypes(s) == s \in Seq(Fetch) /\ \A k \in DOMAIN s : HasDiff(s[k])

PageTypes ==
    /\ page \in {"closed", "loading", "open", "over"}
    /\ base \in Content
    /\ strip \in [File -> Shown] /\ orphans \in Shown
    /\ banner \in BOOLEAN /\ torn \in BOOLEAN
    /\ FetchTypes(fetch) /\ Len(fetch) <= MaxFetches
    /\ page = "loading" => Len(fetch) = 1
    /\ page \in {"closed", "over"} => fetch = <<>>

RInv == TInv /\ PageTypes /\ Synced

LEMMA NewFetchType == /\ NewFetch \in Fetch /\ HasDiff(NewFetch)
                      /\ NewFetch.at = "diff"
<1>1. NoRows \in [Id -> Comment \cup {None}]
    BY DEF NoRows
<1> QED
    BY <1>1 DEF NewFetch, Fetch, HasDiff

\* A fetch that has read nothing yet makes no mistake.
LEMMA FreshNewest ==
    ASSUME fetch' # <<>>, fetch'[Len(fetch')] = NewFetch PROVE Newest(fetch)'
<1> DEFINE q == NewFetch
<1>1. q.at = "diff"
    BY NewFetchType
<1>2. fetch'[Len(fetch')] = q
    OBVIOUS
<1> HIDE DEF q
<1> QED
    BY <1>1, <1>2 DEF Newest, Right

LEMMA OneFetch ==
    /\ FetchTypes(<<>>) /\ Len(<<>>) = 0
    /\ FetchTypes(<<NewFetch>>) /\ Len(<<NewFetch>>) = 1
    /\ <<NewFetch>> # <<>> /\ <<NewFetch>>[1] = NewFetch
<1> DEFINE q == NewFetch
           s == <<q>>
<1>1. q \in Fetch /\ HasDiff(q)
    BY NewFetchType
<1> HIDE DEF q
<1>2. s \in Seq(Fetch) /\ Len(s) = 1 /\ s[1] = q /\ DOMAIN s = {1} /\ s # <<>>
    BY <1>1
<1>3. <<>> \in Seq(Fetch) /\ Len(<<>>) = 0 /\ DOMAIN <<>> = {}
    OBVIOUS
<1> HIDE DEF s
<1>4. FetchTypes(s)
    BY <1>1, <1>2 DEF FetchTypes
<1>5. FetchTypes(<<>>)
    BY <1>3 DEF FetchTypes
<1> QED
    BY <1>2, <1>3, <1>4, <1>5 DEF s, q

\* One more fetch, which has nothing read yet.
LEMMA MoreFetches ==
    ASSUME FetchTypes(fetch)
    PROVE  LET s == Append(fetch, NewFetch) IN
           /\ FetchTypes(s) /\ Len(s) = Len(fetch) + 1
           /\ s # <<>> /\ s[Len(s)] = NewFetch
<1> DEFINE q == NewFetch
           s == Append(fetch, q)
<1>1. q \in Fetch /\ HasDiff(q)
    BY NewFetchType
<1> HIDE DEF q
<1>2. fetch \in Seq(Fetch) /\ \A k \in DOMAIN fetch : HasDiff(fetch[k])
    BY DEF FetchTypes
<1>3. /\ s \in Seq(Fetch) /\ Len(s) = Len(fetch) + 1 /\ s # <<>>
      /\ s[Len(s)] = q /\ DOMAIN s = 1 .. Len(fetch) + 1
      /\ \A k \in 1 .. Len(fetch) : s[k] = fetch[k]
      /\ DOMAIN fetch = 1 .. Len(fetch) /\ Len(fetch) \in Nat
    BY <1>1, <1>2
<1> HIDE DEF s
<1>4. \A k \in DOMAIN s : HasDiff(s[k])
    BY <1>1, <1>2, <1>3
<1>5. FetchTypes(s)
    BY <1>3, <1>4 DEF FetchTypes
<1> QED
    BY <1>3, <1>5 DEF s, q

\* The fetches but the k-th: the newest stays, unless it is the k-th.
LEMMA DroppedFacts ==
    ASSUME FetchTypes(fetch), NEW k \in DOMAIN fetch
    PROVE  LET s == Dropped(k) IN
           /\ FetchTypes(s) /\ Len(s) = Len(fetch) - 1 /\ Len(fetch) \in Nat \ {0}
           /\ DOMAIN s = 1 .. Len(fetch) - 1
           /\ \A n \in DOMAIN s : s[n] = IF n < k THEN fetch[n] ELSE fetch[n + 1]
<1> DEFINE s == Dropped(k)
           l == Len(fetch)
<1>1. /\ fetch \in Seq(Fetch) /\ \A n \in DOMAIN fetch : HasDiff(fetch[n])
      /\ l \in Nat \ {0} /\ DOMAIN fetch = 1 .. l /\ k \in 1 .. l
      /\ \A n \in 1 .. l : fetch[n] \in Fetch
    BY DEF FetchTypes
<1>2. s = [n \in 1 .. l - 1 |-> IF n < k THEN fetch[n] ELSE fetch[n + 1]]
    BY DEF Dropped
<1>3. \A n \in 1 .. l - 1 : n \in 1 .. l /\ n + 1 \in 1 .. l
    BY <1>1
<1>4. \A n \in 1 .. l - 1 : s[n] \in Fetch /\ HasDiff(s[n])
    BY <1>1, <1>2, <1>3
<1>5. s \in [1 .. l - 1 -> Fetch]
    BY <1>2, <1>4
<1>6. l - 1 \in Nat
    BY <1>1
<1> HIDE DEF s
<1>7. s \in Seq(Fetch) /\ Len(s) = l - 1 /\ DOMAIN s = 1 .. l - 1
    BY <1>5, <1>6, SeqDef
<1> QED
    BY <1>1, <1>2, <1>4, <1>7 DEF FetchTypes, s

LEMMA EmptyFetches == ASSUME NEW q \in Seq(Fetch), Len(q) = 0 PROVE q = <<>>
    OBVIOUS

\* The same, with those before the k-th torn from now on.
LEMMA OvertakeFacts ==
    ASSUME FetchTypes(fetch), NEW k \in DOMAIN fetch
    PROVE  LET s == Overtake(k) IN
           /\ FetchTypes(s) /\ Len(s) = Len(fetch) - 1
           /\ k # Len(fetch) => s # <<>> /\ s[Len(s)] = fetch[Len(fetch)]
           /\ k = Len(fetch) => s = <<>> \/ s[Len(s)].torn
<1> DEFINE d == Dropped(k)
           s == Overtake(k)
           l == Len(fetch)
<1>1. /\ d \in Seq(Fetch) /\ (\A n \in DOMAIN d : HasDiff(d[n]))
      /\ Len(d) = l - 1 /\ DOMAIN d = 1 .. l - 1 /\ l \in Nat \ {0}
      /\ \A n \in DOMAIN d : d[n] = IF n < k THEN fetch[n] ELSE fetch[n + 1]
    BY DroppedFacts DEF FetchTypes
<1>2. s = [n \in DOMAIN d |-> IF n < k THEN [d[n] EXCEPT !.torn = TRUE] ELSE d[n]]
    BY DEF Overtake
<1>3. DOMAIN fetch = 1 .. l /\ k \in 1 .. l
    BY DEF FetchTypes
<1> HIDE DEF d
<1>4. \A n \in DOMAIN d : d[n] \in Fetch
    BY <1>1
<1>5. ASSUME NEW n \in DOMAIN d
      PROVE  /\ s[n] \in Fetch /\ s[n].at = d[n].at /\ s[n].diff = d[n].diff
             /\ n < k => s[n].torn = TRUE
             /\ ~ (n < k) => s[n] = d[n]
    <2> DEFINE e == [d[n] EXCEPT !.torn = TRUE]
    <2>1. d[n] \in Fetch
        BY <1>4, <1>5
    <2>2. e \in Fetch /\ e.at = d[n].at /\ e.diff = d[n].diff /\ e.torn = TRUE
        BY <2>1 DEF Fetch
    <2>3. s[n] = IF n < k THEN e ELSE d[n]
        BY <1>2, <1>5
    <2> HIDE DEF e, s
    <2> QED
        BY <2>1, <2>2, <2>3
<1>6. s \in [1 .. l - 1 -> Fetch] /\ l - 1 \in Nat
    <2>1. s = [n \in 1 .. l - 1 |-> s[n]]
        BY <1>1, <1>2
    <2>2. \A n \in 1 .. l - 1 : s[n] \in Fetch
        BY <1>1, <1>5
    <2> HIDE DEF s
    <2> QED
        BY <1>1, <2>1, <2>2
<1>7. \A n \in DOMAIN d : HasDiff(s[n])
    BY <1>1, <1>5 DEF HasDiff
<1>8. DOMAIN s = DOMAIN d
    BY <1>2
<1> HIDE DEF s
<1>9. s \in Seq(Fetch) /\ Len(s) = l - 1 /\ DOMAIN s = 1 .. l - 1
    BY <1>6, SeqDef
<1>10. FetchTypes(s)
    BY <1>7, <1>8, <1>9 DEF FetchTypes
<1>11. ASSUME k # l PROVE s # <<>> /\ s[Len(s)] = fetch[l]
    <2>1. l - 1 \in DOMAIN d /\ ~ (l - 1 < k) /\ (l - 1) + 1 = l
        BY <1>1, <1>3, <1>11
    <2>2. s[l - 1] = fetch[l]
        BY <1>1, <1>5, <2>1
    <2> QED
        BY <1>1, <1>8, <1>9, <2>1, <2>2
<1>12. ASSUME k = l PROVE s = <<>> \/ s[Len(s)].torn
    <2>1. CASE l = 1
        <3>1. s \in Seq(Fetch) /\ Len(s) = 0
            BY <1>9, <2>1
        <3> QED
            BY <3>1, EmptyFetches
    <2>2. CASE l # 1
        <3>1. l - 1 \in DOMAIN d /\ l - 1 < k
            BY <1>1, <1>12, <2>2
        <3>2. s[l - 1].torn = TRUE
            BY <1>5, <3>1
        <3> QED
            BY <1>9, <3>2
    <2> QED
        BY <2>1, <2>2
<1> QED
    BY <1>9, <1>10, <1>11, <1>12 DEF s

\* The daemon's steps owe the page an event of whatever they change.
Announced ==
    /\ Due => Due'
    /\ Due' \/ /\ cache'[Room] = cache[Room]
               /\ \A i \in Known' : i \in Known /\ rows'[i] = rows[i]

LEMMA AnnouncedSynced ==
    ASSUME RInv, Announced, UNCHANGED room PROVE Synced'
<1>1. UNCHANGED <<page, base, strip, orphans, banner, fetch, torn>>
    BY DEF room
<1>2. CASE Due'
    BY <1>2 DEF Synced
<1>3. CASE ~ Due'
    <2>1. /\ ~ Due /\ cache'[Room] = cache[Room]
          /\ \A i \in Known' : i \in Known /\ rows'[i] = rows[i]
        BY <1>3 DEF Announced
    <2>2. ASSUME NEW q, Right(q) PROVE Right(q)'
        BY <1>1, <2>1, <2>2 DEF Right
    <2>3. Newest(fetch) => Newest(fetch)'
        BY <1>1, <2>2 DEF Newest
    <2>4. Shows => Shows'
        BY <1>1, <2>1 DEF Shows, OnPage, Files
    <2> QED
        BY <1>1, <1>3, <2>1, <2>3, <2>4 DEF RInv, Synced
<1> QED
    BY <1>2, <1>3

\* What is published of the room's worktree is queued or missed.
LEMMA PublishDue ==
    ASSUME TInv, NEW w, NEW e \in Event, Publish(w, e)
    PROVE  /\ missed \/ feed # <<>> => missed' \/ feed' # <<>>
           /\ w = Room => missed' \/ feed' # <<>>
           /\ untold' = untold
<1>1. feed \in Seq(Event)
    BY DEF TInv, StreamTypes
<1>2. Append(feed, e) # <<>>
    <2>1. Len(Append(feed, e)) = Len(feed) + 1 /\ Len(feed) \in Nat
        BY <1>1
    <2>2. Len(<<>>) = 0
        OBVIOUS
    <2> QED
        BY <2>1, <2>2
<1> QED
    BY <1>2 DEF Publish

\* Who is about to publish still is, and no call else has anything to do with it.
LEMMA CallDue ==
    ASSUME TInv, NEW c \in Caller, call[c].at # "publish",
           \A d \in Caller \ {c} : call'[d] = call[d],
           UNCHANGED <<cache, approve, feed, missed>>
    PROVE  Due => Due'
    BY DEF Due

LEMMA WorktreeAnnounced == ASSUME TInv, WorktreeNext PROVE Announced
<1>1. PICK w \in Worktree : \/ \E f \in File, h \in Hash \cup {Same} : Edit(w, f, h)
                            \/ Drop(w) \/ Add(w) \/ Refresh(w) \/ Sweep(w)
                            \/ ApproveRemoves(w) \/ ApproveKeeps(w)
    BY DEF WorktreeNext
<1>2. UNCHANGED <<rows, call>> /\ cache \in [Worktree -> Content \cup {None}]
    BY <1>1 DEF Edit, Drop, Add, Refresh, Sweep, ApproveRemoves, ApproveKeeps, store,
               TInv, EngineTypes
<1>3. CASE Refresh(w) \/ Sweep(w)
    <2>0. work[w] \in Content
        BY DEF TInv, EngineTypes
    <2>1. PICK e \in Event, n \in Content \cup {None} :
             Publish(w, e) /\ cache' = [cache EXCEPT ![w] = n] /\ approve' = approve
        BY <1>3, <2>0, EventTypes DEF Refresh, Sweep
    <2>2. /\ missed \/ feed # <<>> => missed' \/ feed' # <<>>
          /\ w = Room => missed' \/ feed' # <<>>
          /\ untold' = untold
        BY <2>1, PublishDue
    <2>3. w # Room => cache'[Room] = cache[Room]
        BY <1>2, <2>1, ConstantTypes
    <2>4. Known' = Known
        BY <1>2, <2>2 DEF Known, Of, In
    <2> QED
        BY <1>2, <2>1, <2>2, <2>3, <2>4 DEF Announced, Due
<1>4. CASE ~ (Refresh(w) \/ Sweep(w))
    <2>1. UNCHANGED <<cache, feed, missed, untold>> /\ (approve' = approve \/ Unlocked)
        BY <1>1, <1>4 DEF Edit, Drop, Add, ApproveRemoves, ApproveKeeps, engine, stream
    <2>2. Known' = Known
        BY <1>2, <2>1 DEF Known, Of, In
    <2> QED
        BY <1>2, <2>1, <2>2 DEF Announced, Due, Unlocked
<1> QED
    BY <1>3, <1>4

LEMMA ApproveAnnounced ==
    ASSUME TInv, ApproveClears \/ ApproveClearFails \/ ApproveForgets PROVE Announced
<1>1. CASE ApproveClears \/ ApproveClearFails
    <2>1. /\ UNCHANGED <<cache, feed, missed, untold, call>>
          /\ approve' = [approve EXCEPT !.at = "forget"]
          /\ rows' \in {rows, Without(rows, Of(approve.wt))}
        BY <1>1 DEF ApproveClears, ApproveClearFails, stream
    <2>2. /\ approve \in [at : {"idle", "clear", "forget"}, wt : Worktree \cup {None}]
          /\ rows \in [Id -> Comment \cup {None}]
        BY DEF TInv, EngineTypes, StoreTypes
    <2>3. approve'.wt = approve.wt /\ approve'.at = "forget"
        BY <2>1, <2>2
    <2>4. \A i \in Id : rows'[i] = rows[i] \/ rows'[i] = None
        BY <2>1, <2>2 DEF Without
    <2>5. \A i \in Known' : i \in Known /\ rows'[i] = rows[i]
        BY <2>1, <2>4 DEF Known, Of, In
    <2> QED
        BY <2>1, <2>3, <2>5 DEF Announced, Due
<1>2. CASE ApproveForgets
    <2>1. /\ UNCHANGED <<rows, call>> /\ Publish(approve.wt, Removed)
          /\ cache' = [cache EXCEPT ![approve.wt] = None]
        BY <1>2 DEF ApproveForgets, store
    <2>2. /\ missed \/ feed # <<>> => missed' \/ feed' # <<>>
          /\ approve.wt = Room => missed' \/ feed' # <<>>
          /\ untold' = untold
        BY <2>1, PublishDue, EventTypes
    <2>3. approve.wt # Room => cache'[Room] = cache[Room]
        BY <2>1, ConstantTypes DEF TInv, EngineTypes
    <2>4. Known' = Known
        BY <2>1, <2>2 DEF Known, Of, In
    <2> QED
        BY <2>1, <2>2, <2>3, <2>4 DEF Announced, Due
<1> QED
    BY <1>1, <1>2

\* One comment changes, and it is another worktree's, or it is untold.
LEMMA OneChanges ==
    ASSUME TInv, NEW j,
           \A i \in Id \ {j} : rows'[i] = rows[i],
           untold \subseteq untold',
           \/ j \in untold'
           \/ rows'[j] = rows[j]
           \/ rows'[j] = None
           \/ rows'[j].wt # Room
    PROVE  \A i \in Known' : i \in Known /\ rows'[i] = rows[i]
    BY DEF Known, Of, In

LEMMA CallAnnounced == ASSUME TInv, CallNext PROVE Announced
<1>1. PICK c \in Caller :
         \/ \E w \in Worktree, f \in File : CallAdd(c, w, f)
         \/ \E do \in {"resolve", "delete"}, w \in Worktree, i \in Id : CallChange(c, do, w, i)
         \/ Count(c) \/ Insert(c) \/ InsertFails(c) \/ Change(c) \/ ChangeFails(c)
         \/ PublishChange(c)
    BY DEF CallNext
<1>2. call \in [Caller -> Call] /\ call[c] \in Call /\ call[c].wt \in Worktree
      /\ rows \in [Id -> Comment \cup {None}]
    BY DEF TInv, CallTypes, StoreTypes, Call
<1>3. UNCHANGED <<cache, approve>>
    BY <1>1 DEF CallAdd, CallChange, Count, Insert, InsertFails, Change, ChangeFails,
               PublishChange, engine
<1>4. \A d \in Caller \ {c} : call'[d] = call[d]
    BY <1>1, <1>2 DEF CallAdd, CallChange, Count, Insert, InsertFails, Change, ChangeFails,
               PublishChange, Return
<1>5. CASE PublishChange(c)
    <2>1. UNCHANGED rows /\ Publish(call[c].wt, Changed)
        BY <1>5 DEF PublishChange, store
    <2>2. /\ missed \/ feed # <<>> => missed' \/ feed' # <<>>
          /\ call[c].wt = Room => missed' \/ feed' # <<>>
          /\ untold' = untold
        BY <2>1, PublishDue, EventTypes
    <2>3. Known' = Known
        BY <2>1, <2>2 DEF Known, Of, In
    <2> QED
        BY <1>3, <1>4, <2>1, <2>2, <2>3 DEF Announced, Due
<1>6. ASSUME ~ PublishChange(c) PROVE call[c].at # "publish" /\ UNCHANGED <<feed, missed>>
    BY <1>1, <1>6 DEF CallAdd, CallChange, Count, Insert, InsertFails, Change, ChangeFails,
               stream
<1>7. ASSUME ~ PublishChange(c) PROVE Due => Due'
    BY <1>3, <1>4, <1>6, <1>7, CallDue
<1>8. CASE UNCHANGED <<rows, untold>> /\ ~ PublishChange(c)
    BY <1>3, <1>7, <1>8 DEF Announced, Known, Of, In
<1>9. CASE Insert(c) \/ (Change(c) /\ Found(call[c]))
    <2>1. untold' = untold /\ ~ PublishChange(c)
        BY <1>9 DEF Insert, Change, PublishChange, stream
    <2>2. CASE call[c].wt = Room
        <3>1. call'[c].at = "publish" /\ call'[c].wt = call[c].wt
            BY <1>2, <1>9 DEF Insert, Change, Call
        <3> QED
            BY <2>1, <2>2, <3>1, <1>7 DEF Announced, Due
    <2>3. CASE call[c].wt # Room
        <3>1. /\ \A i \in Id \ {call[c].id} : rows'[i] = rows[i]
              /\ rows'[call[c].id] = None \/ rows'[call[c].id].wt # Room
            <4>1. CASE Insert(c)
                BY <2>3, <4>1, AddingTypes DEF Insert
            <4>2. CASE Change(c) /\ Found(call[c])
                <5>1. rows' = Changed1(call[c]) /\ rows[call[c].id].wt = call[c].wt
                    BY <4>2 DEF Change, Found, Of, In
                <5> QED
                    BY <2>3, <4>2, <5>1, ChangingTypes
            <4> QED
                BY <1>9, <4>1, <4>2
        <3>2. \A i \in Known' : i \in Known /\ rows'[i] = rows[i]
            BY <2>1, <3>1, OneChanges
        <3> QED
            BY <1>3, <1>7, <2>1, <3>2 DEF Announced
    <2> QED
        BY <2>2, <2>3
<1>10. CASE InsertFails(c) \/ ChangeFails(c)
    <2>1. /\ ~ PublishChange(c)
          /\ \/ UNCHANGED <<rows, untold>>
             \/ /\ untold' = untold \cup {call[c].id}
                /\ \/ InsertFails(c) /\ rows' = Inserted(call[c])
                   \/ ChangeFails(c) /\ rows' = Changed1(call[c])
        BY <1>10 DEF InsertFails, ChangeFails, PublishChange
    <2>2. CASE untold' = untold \cup {call[c].id}
        <3>1. \A i \in Id \ {call[c].id} : rows'[i] = rows[i]
            BY <2>1, AddingTypes, ChangingTypes DEF InsertFails, ChangeFails
        <3>2. \A i \in Known' : i \in Known /\ rows'[i] = rows[i]
            BY <2>2, <3>1, OneChanges
        <3> QED
            BY <1>3, <1>7, <2>1, <3>2 DEF Announced
    <2> QED
        BY <1>8, <2>1, <2>2
<1>11. CASE \/ \E w \in Worktree, f \in File : CallAdd(c, w, f)
            \/ \E do \in {"resolve", "delete"}, w \in Worktree, i \in Id :
                  CallChange(c, do, w, i)
            \/ Count(c) \/ (Change(c) /\ ~ Found(call[c]))
    <2>1. UNCHANGED <<rows, untold>> /\ ~ PublishChange(c)
        BY <1>11 DEF CallAdd, CallChange, Count, Change, PublishChange, store, stream
    <2> QED
        BY <1>8, <2>1
<1> QED
    BY <1>1, <1>5, <1>9, <1>10, <1>11

-----------------------------------------------------------------------------
(* The page's steps.                                                       *)

\* What the daemon and the events say is as it was.
Still == UNCHANGED <<cache, approve, call, rows, untold, missed, feed>>

LEMMA StillSame ==
    ASSUME Still PROVE Due' = Due /\ Known' = Known /\ \A q : Right(q)' <=> Right(q)
BY DEF Still, Due, Known, Of, In, Right

\* The room's own steps on the event stream.
LEMMA StreamTInv ==
    ASSUME TInv, UNCHANGED <<engine, store, call, history, edits>>,
           feed' \in Seq(Event), Len(feed') <= Buffer,
           subscribed' \in BOOLEAN, missed' \in BOOLEAN, untold' \subseteq Id,
           troubles' \in 0 .. MaxTroubles
    PROVE  TInv'
<1>1. StreamTypes'
    BY DEF StreamTypes
<1>2. used' = used
    BY DEF history
<1> QED
    BY <1>1, <1>2, Keeps DEF TInv, BoundTypes

LEMMA NoEvents == <<>> \in Seq(Event) /\ Len(<<>>) <= Buffer
    BY ConstantTypes

LEMMA BlankTypes ==
    ASSUME Blank
    PROVE  /\ base' \in Content /\ strip' \in [File -> Shown] /\ orphans' \in Shown
           /\ banner' \in BOOLEAN /\ torn' \in BOOLEAN
    BY EventTypes DEF Blank, Shown

LEMMA MaxFetchesType == MaxFetches \in Nat /\ MaxFetches >= 1
    BY RoomAssumption

LEMMA LoadRInv ==
    ASSUME RInv, Load, UNCHANGED <<engine, store, call, history, edits, troubles>>
    PROVE  RInv'
<1>1. /\ page' = "loading" /\ Blank /\ fetch' = <<NewFetch>>
      /\ feed' = <<>> /\ subscribed' = FALSE /\ missed' = FALSE /\ untold' = {}
    BY DEF Load
<1>2. TInv'
    BY <1>1, NoEvents, StreamTInv DEF RInv, TInv, BoundTypes
<1>3. PageTypes'
    <2>1. FetchTypes(<<NewFetch>>) /\ Len(<<NewFetch>>) = 1
        BY OneFetch
    <2>2. FetchTypes(fetch)' /\ Len(fetch') = 1
        BY <1>1, <2>1 DEF FetchTypes
    <2> QED
        BY <1>1, <2>2, BlankTypes, MaxFetchesType DEF PageTypes
<1>4. Newest(fetch)'
    BY <1>1, OneFetch, FreshNewest
<1> QED
    BY <1>1, <1>2, <1>3, <1>4 DEF RInv, Synced

LEMMA OpenRoomRInv == ASSUME RInv, OpenRoom PROVE RInv'
    BY LoadRInv DEF OpenRoom

\* The k-th fetch reads on, or fails to and is torn.
LEMMA ReadRInv ==
    ASSUME RInv, UNCHANGED <<page, base, strip, orphans, banner, torn>>, TInv', Still,
           NEW k \in DOMAIN fetch, NEW r \in Fetch, HasDiff(r),
           fetch[k].torn => r.torn, ~ Due /\ Right(fetch[k]) => r.torn \/ Right(r),
           fetch' = [fetch EXCEPT ![k] = r]
    PROVE  RInv'
<1>1. /\ fetch \in Seq(Fetch) /\ \A n \in DOMAIN fetch : HasDiff(fetch[n])
      /\ DOMAIN fetch = 1 .. Len(fetch) /\ Len(fetch) \in Nat
    BY DEF RInv, PageTypes, FetchTypes
<1>2. /\ fetch' \in Seq(Fetch) /\ Len(fetch') = Len(fetch) /\ DOMAIN fetch' = DOMAIN fetch
      /\ fetch'[k] = r /\ \A n \in DOMAIN fetch \ {k} : fetch'[n] = fetch[n]
    BY <1>1
<1>3. fetch # <<>> /\ fetch' # <<>>
    <2>1. Len(<<>>) = 0 /\ Len(fetch) # 0
        BY <1>1
    <2> QED
        BY <1>2, <2>1
<1>4. PageTypes'
    <2>1. FetchTypes(fetch)'
        BY <1>1, <1>2 DEF FetchTypes
    <2> QED
        BY <1>2, <1>3, <2>1 DEF RInv, PageTypes
<1>5. /\ Due' = Due /\ Known' = Known
      /\ \A q : Right(q)' <=> Right(q)
    BY StillSame
<1>6. ASSUME ~ Due, Newest(fetch) PROVE Newest(fetch)'
    <2>1. /\ fetch[Len(fetch)].torn \/ Right(fetch[Len(fetch)])
          /\ Len(fetch) \in DOMAIN fetch
        BY <1>1, <1>3, <1>6 DEF Newest
    <2>2. fetch'[Len(fetch')].torn \/ Right(fetch'[Len(fetch')])
        BY <1>2, <1>6, <2>1
    <2> QED
        BY <1>3, <1>5, <2>2 DEF Newest
<1> QED
    BY <1>3, <1>4, <1>5, <1>6 DEF RInv, Synced

\* Which fetch is at l.
LEMMA AtFacts ==
    ASSUME RInv, NEW k, NEW l, At(k, l)
    PROVE  /\ k \in DOMAIN fetch /\ fetch[k] \in Fetch /\ HasDiff(fetch[k]) /\ fetch[k].at = l
           /\ fetch \in Seq(Fetch)
           /\ cache[Room] \in Content \cup {None}
           /\ page \in {"open", "loading"}
<1>1. k \in DOMAIN fetch /\ fetch \in Seq(Fetch) /\ HasDiff(fetch[k]) /\ fetch[k].at = l
    BY DEF At, RInv, PageTypes, FetchTypes
<1>2. fetch[k] \in Fetch
    BY <1>1
<1>3. fetch # <<>>
    BY <1>1
<1> QED
    BY <1>1, <1>2, <1>3, ConstantTypes DEF RInv, PageTypes, TInv, EngineTypes

\* A fetch is given up because the daemon does not know the worktree.
LEMMA NotFoundRInv ==
    ASSUME RInv, NEW k \in DOMAIN fetch, cache[Room] = None, NotFound(k),
           UNCHANGED <<base, strip, orphans, banner, torn, vars>>
    PROVE  RInv'
<1>1. TInv' /\ cache' = cache
    BY NextTInv DEF RInv, vars, engine
<1>2. Due'
    BY <1>1 DEF Due
<1>3. fetch' = Dropped(k) /\ page' = IF page = "loading" THEN "closed" ELSE page
    BY DEF NotFound
<1>4. FetchTypes(Dropped(k)) /\ Len(Dropped(k)) = Len(fetch) - 1 /\ Len(fetch) \in Nat
    BY DroppedFacts DEF RInv, PageTypes
<1>5. FetchTypes(fetch)' /\ Len(fetch') <= MaxFetches
    BY <1>3, <1>4, MaxFetchesType DEF FetchTypes, RInv, PageTypes
<1>6. fetch # <<>>
    OBVIOUS
<1>7. page = "loading" => fetch' = <<>>
    <2>1. page = "loading" => Len(fetch') = 0 /\ fetch' \in Seq(Fetch)
        BY <1>3, <1>4 DEF RInv, PageTypes, FetchTypes
    <2> QED
        BY <2>1, EmptyFetches
<1>8. PageTypes'
    BY <1>3, <1>5, <1>6, <1>7 DEF RInv, PageTypes
<1> QED
    BY <1>1, <1>2, <1>8 DEF RInv, Synced

LEMMA VarsStill == ASSUME RInv, UNCHANGED vars PROVE TInv' /\ Still
<1>1. TInv'
    BY NextTInv DEF RInv
<1>2. Still
    BY DEF Still, vars, engine, store, stream
<1> QED
    BY <1>1, <1>2

LEMMA ReadDiffRInv == ASSUME RInv, NEW k, ReadDiff(k) PROVE RInv'
<1>1. k \in DOMAIN fetch /\ fetch[k] \in Fetch /\ fetch \in Seq(Fetch)
      /\ cache[Room] \in Content \cup {None}
    BY AtFacts DEF ReadDiff
<1>2. CASE cache[Room] = None
    BY <1>1, <1>2, NotFoundRInv DEF ReadDiff
<1>3. CASE cache[Room] # None
    <2> DEFINE r == [fetch[k] EXCEPT !.at = "comments", !.diff = cache[Room]]
    <2>1. r \in Fetch /\ r.torn = fetch[k].torn /\ r.at = "comments" /\ r.diff = cache[Room]
        BY <1>1 DEF Fetch
    <2>2. HasDiff(r) /\ Right(r)
        BY <1>1, <1>3, <2>1 DEF HasDiff, Right
    <2>3. fetch' = [fetch EXCEPT ![k] = r]
        BY <1>1, <1>3 DEF ReadDiff
    <2>4. UNCHANGED <<page, base, strip, orphans, banner, torn>> /\ TInv' /\ Still
        BY <1>3, VarsStill DEF ReadDiff
    <2> HIDE DEF r
    <2> QED
        BY <1>1, <2>1, <2>2, <2>3, <2>4, ReadRInv
<1> QED
    BY <1>2, <1>3

LEMMA ReadViewRInv == ASSUME RInv, NEW k, ReadView(k) PROVE RInv'
<1> DEFINE r == [fetch[k] EXCEPT !.at = IF cache[Room] = None THEN "done" ELSE "rows",
                                 !.view = cache[Room]]
<1>1. k \in DOMAIN fetch /\ fetch[k] \in Fetch /\ fetch \in Seq(Fetch)
      /\ HasDiff(fetch[k]) /\ fetch[k].at = "comments" /\ cache[Room] \in Content \cup {None}
    BY AtFacts DEF ReadView
<1>2. /\ r \in Fetch /\ r.torn = fetch[k].torn /\ r.diff = fetch[k].diff /\ r.view = cache[Room]
      /\ r.at = IF cache[Room] = None THEN "done" ELSE "rows"
    BY <1>1 DEF Fetch
<1>3. fetch' = [fetch EXCEPT ![k] = r]
    BY <1>1 DEF ReadView
<1>4. UNCHANGED <<page, base, strip, orphans, banner, torn>> /\ TInv' /\ Still
    BY VarsStill DEF ReadView
<1> HIDE DEF r
<1>5. HasDiff(r)
    BY <1>1, <1>2 DEF HasDiff
<1>6. ~ Due /\ Right(fetch[k]) => Right(r)
    BY <1>1, <1>2 DEF Due, Right
<1> QED
    BY <1>1, <1>2, <1>3, <1>4, <1>5, <1>6, ReadRInv

LEMMA ReadRowsRInv == ASSUME RInv, NEW k, ReadRows(k) PROVE RInv'
<1> DEFINE s == [i \in Id |-> IF i \in Of(Room) THEN rows[i] ELSE None]
           r == [fetch[k] EXCEPT !.at = "done", !.rows = s]
<1>1. k \in DOMAIN fetch /\ fetch[k] \in Fetch /\ fetch \in Seq(Fetch)
      /\ HasDiff(fetch[k]) /\ fetch[k].at = "rows"
    BY AtFacts DEF ReadRows
<1>2. /\ s \in [Id -> Comment \cup {None}]
      /\ \A i \in Known : s[i] = rows[i]
    BY DEF RInv, TInv, StoreTypes, Known, Of, In
<1>3. fetch' = [fetch EXCEPT ![k] = r]
    BY <1>1 DEF ReadRows
<1>4. UNCHANGED <<page, base, strip, orphans, banner, torn>> /\ TInv' /\ Still
    BY VarsStill DEF ReadRows
<1> HIDE DEF s
<1>5. /\ r \in Fetch /\ r.torn = fetch[k].torn /\ r.diff = fetch[k].diff
      /\ r.view = fetch[k].view /\ r.rows = s /\ r.at = "done"
    BY <1>1, <1>2 DEF Fetch
<1> HIDE DEF r
<1>6. HasDiff(r)
    BY <1>1, <1>5 DEF HasDiff
<1>7. Right(fetch[k]) => Right(r)
    BY <1>1, <1>2, <1>5 DEF Right
<1> QED
    BY <1>1, <1>3, <1>4, <1>5, <1>6, <1>7, ReadRInv

LEMMA ReadRowsFailsRInv == ASSUME RInv, NEW k, ReadRowsFails(k) PROVE RInv'
<1> DEFINE r == [fetch[k] EXCEPT !.at = "done", !.torn = TRUE]
<1>1. k \in DOMAIN fetch /\ fetch[k] \in Fetch /\ fetch \in Seq(Fetch)
      /\ HasDiff(fetch[k]) /\ fetch[k].at = "rows"
    BY AtFacts DEF ReadRowsFails
<1>2. r \in Fetch /\ r.torn /\ r.diff = fetch[k].diff /\ r.at = "done"
    BY <1>1 DEF Fetch
<1>3. fetch' = [fetch EXCEPT ![k] = r]
    BY <1>1 DEF ReadRowsFails
<1>4. /\ UNCHANGED <<page, base, strip, orphans, banner, torn>> /\ Trouble
      /\ UNCHANGED <<engine, store, call, stream, history, edits>>
    BY DEF ReadRowsFails
<1> HIDE DEF r
<1>5. HasDiff(r)
    BY <1>1, <1>2 DEF HasDiff
<1>6. Still
    BY <1>4 DEF Still, engine, store, stream
<1>7. TInv'
    <2>1. troubles' \in 0 .. MaxTroubles
        BY <1>4, TInvTypeOK, TroubleType DEF RInv
    <2> QED
        BY <1>4, <2>1, StreamTInv DEF RInv, TInv, StreamTypes, stream
<1> QED
    BY <1>1, <1>2, <1>3, <1>4, <1>5, <1>6, <1>7, ReadRInv

-----------------------------------------------------------------------------
(* What a fetch puts in.                                                   *)

LEMMA StripType ==
    ASSUME NEW q \in Fetch
    PROVE  (\A f \in File : StripOf(q, f) \in Shown) /\ OrphansOf(q) \in Shown
<1>1. q.rows \in [Id -> Comment \cup {None}]
    BY DEF Fetch
<1>2. \A i \in Id : q.rows[i] # None => q.rows[i].state \in State
    BY <1>1 DEF Comment
<1>3. \A f \in File : StripOf(q, f) \subseteq Id \X State
    BY <1>2 DEF StripOf
<1>4. OrphansOf(q) \subseteq Id \X State
    BY <1>3 DEF OrphansOf
<1> QED
    BY <1>3, <1>4 DEF Shown

\* A fetch that has read what the daemon says has every comment in a strip or
\* among the orphans.
LEMMA HasAll ==
    ASSUME RInv, ~ Due, NEW q \in Fetch, q.at = "done", Right(q), NEW i \in Known
    PROVE  \/ \E f \in Files(q.diff) : <<i, rows[i].state>> \in StripOf(q, f)
           \/ <<i, rows[i].state>> \in OrphansOf(q)
<1>1. /\ q.diff = cache[Room] /\ q.view = cache[Room] /\ q.view # None
      /\ q.rows[i] = rows[i]
    BY DEF Right, Due
<1>2. i \in Id /\ rows[i] # None /\ rows[i] \in Comment
    BY DEF Known, Of, In, RInv, TInv, StoreTypes
<1>3. rows[i].file \in File
    BY <1>2 DEF Comment
<1>4. <<i, rows[i].state>> \in StripOf(q, rows[i].file)
    BY <1>1, <1>2 DEF StripOf
<1>5. CASE q.diff[rows[i].file] # Same
    BY <1>3, <1>4, <1>5 DEF Files
<1>6. CASE q.diff[rows[i].file] = Same
    BY <1>1, <1>3, <1>4, <1>6 DEF OrphansOf
<1> QED
    BY <1>5, <1>6

LEMMA LoadedRInv == ASSUME RInv, Loaded PROVE RInv'
<1> DEFINE q == fetch[1]
<1>1. /\ q \in Fetch /\ HasDiff(q) /\ q.at = "done"
      /\ page = "loading" /\ Len(fetch) = 1
    BY AtFacts DEF Loaded, RInv, PageTypes
<1>2. /\ base' = q.diff /\ orphans' = OrphansOf(q)
      /\ strip' = [f \in File |-> IF f \in Files(q.diff) THEN StripOf(q, f) ELSE {}]
      /\ page' = "open" /\ fetch' = <<>> /\ banner' = FALSE /\ torn' = q.torn
      /\ subscribed' = TRUE
      /\ UNCHANGED <<engine, store, call, feed, missed, untold, history, edits, troubles>>
    BY DEF Loaded
<1>3. TInv'
    BY <1>2, StreamTInv DEF RInv, TInv, StreamTypes, BoundTypes
<1>4. Still
    BY <1>2 DEF Still, engine, store
<1>5. PageTypes'
    <2>1. base' \in Content
        BY <1>1, <1>2 DEF HasDiff
    <2>2. strip' \in [File -> Shown] /\ orphans' \in Shown
        <3>1. (\A f \in File : StripOf(q, f) \in Shown) /\ OrphansOf(q) \in Shown /\ {} \in Shown
            BY <1>1, StripType DEF Shown
        <3> HIDE DEF q
        <3> QED
            BY <1>2, <3>1
    <2>3. FetchTypes(fetch)' /\ Len(fetch') <= MaxFetches
        BY <1>2, OneFetch, MaxFetchesType DEF FetchTypes
    <2>4. torn' \in BOOLEAN
        BY <1>1, <1>2 DEF Fetch
    <2> QED
        BY <1>2, <2>1, <2>2, <2>3, <2>4 DEF PageTypes
<1>6. Due \/ q.torn \/ Right(q)
    BY <1>1 DEF RInv, Synced, Newest
<1>7. ASSUME ~ Due, ~ q.torn PROVE Shows'
    <2>1. ASSUME NEW i \in Known PROVE <<i, rows[i].state>> \in OnPage'
        <3>1. \/ \E f \in Files(q.diff) : <<i, rows[i].state>> \in StripOf(q, f)
              \/ <<i, rows[i].state>> \in OrphansOf(q)
            BY <1>1, <1>6, <1>7, <2>1, HasAll
        <3> HIDE DEF q
        <3>2. \A f \in Files(q.diff) : f \in Files(base)' /\ strip'[f] = StripOf(q, f)
            BY <1>2 DEF Files
        <3> QED
            BY <1>2, <3>1, <3>2 DEF OnPage
    <2>2. rows' = rows /\ Known' = Known
        BY <1>4, StillSame DEF Still
    <2> QED
        BY <2>1, <2>2 DEF Shows
<1>8. Due' = Due
    BY <1>4, StillSame
<1> QED
    BY <1>2, <1>3, <1>5, <1>7, <1>8 DEF RInv, Synced

LEMMA ApplyRInv == ASSUME RInv, NEW k, Apply(k) PROVE RInv'
<1> DEFINE q == fetch[k]
           l == Len(fetch)
<1>1. k \in DOMAIN fetch /\ q \in Fetch /\ HasDiff(q) /\ q.at = "done" /\ FetchTypes(fetch)
    BY AtFacts DEF Apply, RInv, PageTypes
<1>2. /\ strip' = [f \in File |-> IF f \in Files(base) \cap Files(q.diff)
                                  THEN StripOf(q, f) ELSE strip[f]]
      /\ orphans' = OrphansOf(q)
      /\ banner' = (banner \/ Files(q.diff) \ Files(base) # {})
      /\ torn' = q.torn
      /\ fetch' = Overtake(k) /\ page = "open"
      /\ UNCHANGED <<page, base, vars>>
    BY DEF Apply
<1>3. TInv' /\ Still
    BY <1>2, NextTInv DEF RInv, Still, vars, engine, store, stream
<1>4. /\ FetchTypes(fetch') /\ Len(fetch') = Len(fetch) - 1
      /\ k # l => fetch' # <<>> /\ fetch'[Len(fetch')] = fetch[l]
      /\ k = l => fetch' = <<>> \/ fetch'[Len(fetch')].torn
    BY <1>1, <1>2, OvertakeFacts
<1>5. Due' = Due /\ Known' = Known /\ \A r : Right(r)' <=> Right(r)
    BY <1>3, StillSame
<1>6. PageTypes'
    <2>1. strip' \in [File -> Shown] /\ orphans' \in Shown
        <3>1. (\A f \in File : StripOf(q, f) \in Shown) /\ OrphansOf(q) \in Shown
              /\ strip \in [File -> Shown]
            BY <1>1, StripType DEF RInv, PageTypes
        <3> HIDE DEF q
        <3> QED
            BY <1>2, <3>1
    <2>2. banner' \in BOOLEAN
        BY <1>2
    <2>3. torn' \in BOOLEAN
        BY <1>1, <1>2 DEF Fetch
    <2>4. Len(fetch) \in Nat
        BY <1>1 DEF FetchTypes
    <2>5. FetchTypes(fetch)' /\ Len(fetch') <= MaxFetches
        BY <1>4, <2>4, MaxFetchesType DEF FetchTypes, RInv, PageTypes
    <2> QED
        BY <1>2, <2>1, <2>2, <2>3, <2>5 DEF RInv, PageTypes
<1>7. CASE Due \/ banner
    BY <1>2, <1>3, <1>5, <1>6, <1>7 DEF RInv, Synced
<1>8. CASE Newest(fetch) /\ k # l
    <2>1. Newest(fetch)'
        BY <1>4, <1>5, <1>8 DEF Newest
    <2> QED
        BY <1>2, <1>3, <1>6, <2>1 DEF RInv, Synced
<1>9. CASE k = l /\ fetch' # <<>>
    <2>1. Newest(fetch)'
        BY <1>4, <1>9 DEF Newest
    <2> QED
        BY <1>2, <1>3, <1>6, <2>1 DEF RInv, Synced
<1>10. CASE Newest(fetch) /\ k = l /\ fetch' = <<>> /\ ~ q.torn /\ ~ Due /\ ~ banner'
    <2>1. ASSUME NEW i \in Known PROVE <<i, rows[i].state>> \in OnPage'
        <3>1. \/ \E f \in Files(q.diff) : <<i, rows[i].state>> \in StripOf(q, f)
              \/ <<i, rows[i].state>> \in OrphansOf(q)
            BY <1>1, <1>10, <2>1, HasAll DEF Newest
        <3> HIDE DEF q
        <3>2. \A f \in Files(q.diff) : f \in Files(base)
            BY <1>2, <1>10
        <3>3. \A f \in Files(q.diff) : f \in Files(base)' /\ strip'[f] = StripOf(q, f)
            BY <1>2, <3>2 DEF Files
        <3> QED
            BY <1>2, <3>1, <3>3 DEF OnPage
    <2>2. Shows'
        BY <1>3, <1>5, <2>1 DEF Shows, Still
    <2> QED
        BY <1>2, <1>3, <1>6, <1>10, <2>2 DEF RInv, Synced
<1>11. CASE banner' \/ (fetch' = <<>> /\ q.torn)
    BY <1>2, <1>3, <1>6, <1>11 DEF RInv, Synced
<1>12. fetch # <<>>
    BY <1>1
<1> QED
    BY <1>2, <1>7, <1>8, <1>9, <1>10, <1>11, <1>12 DEF RInv, Synced

LEMMA FetchFailsRInv == ASSUME RInv, NEW k, FetchFails(k) PROVE RInv'
<1> DEFINE l == Len(fetch)
<1>1. /\ Trouble /\ k \in DOMAIN fetch /\ fetch' = Overtake(k)
      /\ page' = IF page = "loading" THEN "closed" ELSE page
      /\ torn' = (page = "open")
      /\ UNCHANGED <<base, strip, orphans, banner, engine, store, call, stream, history, edits>>
    BY DEF FetchFails
<1>2. TInv'
    <2>1. troubles' \in 0 .. MaxTroubles
        BY <1>1, TInvTypeOK, TroubleType DEF RInv
    <2> QED
        BY <1>1, <2>1, StreamTInv DEF RInv, TInv, StreamTypes, stream
<1>3. Still
    BY <1>1 DEF Still, engine, store, stream
<1>4. /\ FetchTypes(fetch') /\ Len(fetch') = l - 1
      /\ k # l => fetch' # <<>> /\ fetch'[Len(fetch')] = fetch[l]
      /\ k = l => fetch' = <<>> \/ fetch'[Len(fetch')].torn
      /\ l \in Nat /\ fetch # <<>>
    BY <1>1, OvertakeFacts DEF RInv, PageTypes, FetchTypes
<1>5. Due' = Due /\ \A r : Right(r)' <=> Right(r)
    BY <1>3, StillSame
<1>6. PageTypes'
    <2>1. FetchTypes(fetch)' /\ Len(fetch') <= MaxFetches
        BY <1>4, MaxFetchesType DEF FetchTypes, RInv, PageTypes
    <2>2. page = "loading" => fetch' = <<>>
        <3>1. page = "loading" => Len(fetch') = 0 /\ fetch' \in Seq(Fetch)
            BY <1>4 DEF RInv, PageTypes, FetchTypes
        <3> QED
            BY <3>1, EmptyFetches
    <2>3. torn' \in BOOLEAN
        BY <1>1
    <2> QED
        BY <1>1, <1>4, <2>1, <2>2, <2>3 DEF RInv, PageTypes
<1>7. page' = "open" => page = "open" /\ torn' /\ banner' = banner
    BY <1>1
<1>8. page' # "loading"
    BY <1>1
<1>9. CASE k # l /\ Newest(fetch)
    <2>1. Newest(fetch)'
        BY <1>4, <1>5, <1>9 DEF Newest
    <2> QED
        BY <1>2, <1>6, <1>8, <2>1 DEF RInv, Synced
<1>10. CASE k = l
    <2>1. Newest(fetch)' \/ fetch' = <<>>
        BY <1>4, <1>10 DEF Newest
    <2> QED
        BY <1>2, <1>6, <1>7, <1>8, <2>1 DEF RInv, Synced
<1>11. CASE Due \/ banner
    BY <1>2, <1>5, <1>6, <1>7, <1>8, <1>11 DEF RInv, Synced
<1> QED
    BY <1>2, <1>4, <1>6, <1>7, <1>8, <1>9, <1>10, <1>11 DEF RInv, Synced

LEMMA HandleServerEventRInv == ASSUME RInv, HandleServerEvent PROVE RInv'
<1> DEFINE e == Head(feed)
<1>1. /\ page = "open" /\ feed # <<>> /\ Len(fetch) < MaxFetches
      /\ UNCHANGED <<engine, store, call, history, edits, troubles>>
    BY DEF HandleServerEvent
<1>2. CASE page' = "over" /\ fetch' = <<>> /\ Blank
           /\ feed' = <<>> /\ subscribed' = FALSE /\ missed' = FALSE /\ untold' = {}
    <2>1. TInv'
        BY <1>1, <1>2, NoEvents, StreamTInv DEF RInv, TInv, BoundTypes
    <2>2. FetchTypes(fetch)' /\ Len(fetch') <= MaxFetches
        BY <1>2, OneFetch, MaxFetchesType DEF FetchTypes
    <2>3. PageTypes'
        BY <1>2, <2>2, BlankTypes DEF PageTypes
    <2> QED
        BY <1>2, <2>1, <2>3 DEF RInv, Synced
<1>3. CASE Load
    BY <1>1, <1>3, LoadRInv
<1>4. CASE /\ refreshComments
           /\ banner' = (banner \/ (e.type = "diff.ready" /\ e.diff # base))
           /\ feed' = Tail(feed) /\ missed' = FALSE /\ untold' = {}
           /\ UNCHANGED <<page, base, strip, orphans, subscribed, torn>>
    <2>1. feed' \in Seq(Event) /\ Len(feed') <= Buffer
        <3>1. feed \in Seq(Event) /\ Len(feed) <= Buffer
            BY DEF RInv, TInv, StreamTypes
        <3>2. Tail(feed) \in Seq(Event) /\ Len(Tail(feed)) = Len(feed) - 1 /\ Len(feed) \in Nat
            BY <1>1, <3>1
        <3> QED
            BY <1>4, <3>1, <3>2, ConstantTypes
    <2>2. TInv'
        BY <1>1, <1>4, <2>1, StreamTInv DEF RInv, TInv, BoundTypes, StreamTypes
    <2>3. /\ FetchTypes(fetch') /\ Len(fetch') = Len(fetch) + 1
          /\ fetch' # <<>> /\ fetch'[Len(fetch')] = NewFetch
        BY <1>4, MoreFetches DEF RInv, PageTypes, refreshComments
    <2>4. Newest(fetch)'
        BY <2>3, FreshNewest
    <2>5. Len(fetch) \in Nat
        BY DEF RInv, PageTypes, FetchTypes
    <2>6. FetchTypes(fetch)' /\ Len(fetch') <= MaxFetches
        BY <1>1, <2>3, <2>5, MaxFetchesType DEF FetchTypes
    <2>7. banner' \in BOOLEAN
        BY <1>4 DEF RInv, PageTypes
    <2>8. PageTypes'
        BY <1>1, <1>4, <2>6, <2>7 DEF RInv, PageTypes
    <2> QED
        BY <1>1, <1>4, <2>2, <2>4, <2>8 DEF RInv, Synced
<1> QED
    BY <1>2, <1>3, <1>4 DEF HandleServerEvent

\* The connection comes and goes.
LEMMA ConnectionRInv == ASSUME RInv, Disconnect \/ Reconnect PROVE RInv'
<1>1. /\ UNCHANGED <<engine, store, call, untold, history, edits, room>>
      /\ subscribed' \in BOOLEAN /\ missed' \in BOOLEAN
      /\ (feed' = <<>> /\ missed' = TRUE) \/ UNCHANGED <<feed, missed>>
      /\ troubles' = troubles \/ Trouble
    BY DEF Disconnect, Reconnect, RInv, TInv, StreamTypes
<1>2. TInv'
    <2>1. troubles' \in 0 .. MaxTroubles
        BY <1>1, TInvTypeOK, TroubleType DEF RInv, TInv, BoundTypes
    <2>2. feed' \in Seq(Event) /\ Len(feed') <= Buffer
        BY <1>1, NoEvents DEF RInv, TInv, StreamTypes
    <2> QED
        BY <1>1, <2>1, <2>2, StreamTInv DEF RInv, TInv, StreamTypes
<1>3. Announced
    <2>1. UNCHANGED <<cache, approve, call, rows, untold>>
        BY <1>1 DEF engine, store
    <2>2. Known' = Known
        BY <2>1 DEF Known, Of, In
    <2> QED
        BY <1>1, <2>1, <2>2 DEF Announced, Due
<1>4. Synced'
    BY <1>1, <1>3, AnnouncedSynced
<1>5. PageTypes'
    BY <1>1 DEF RInv, PageTypes, FetchTypes, room
<1> QED
    BY <1>2, <1>4, <1>5 DEF RInv

LEMMA RoomRestartRInv == ASSUME RInv, RoomRestart PROVE RInv'
<1>1. /\ Restart /\ page' = IF page = "loading" THEN "closed" ELSE page
      /\ fetch' = <<>> /\ missed' = TRUE
      /\ UNCHANGED <<base, strip, orphans, banner, torn>>
    BY DEF RoomRestart, Restart
<1>2. TInv'
    BY <1>1, RestartTypes DEF RInv
<1>3. FetchTypes(fetch)' /\ Len(fetch') <= MaxFetches
    BY <1>1, OneFetch, MaxFetchesType DEF FetchTypes
<1>4. PageTypes'
    BY <1>1, <1>3 DEF RInv, PageTypes
<1>5. Due'
    BY <1>1 DEF Due
<1> QED
    BY <1>2, <1>4, <1>5 DEF RInv, Synced

LEMMA InitRInv == RoomInit => RInv
<1> SUFFICES ASSUME RoomInit PROVE RInv
    OBVIOUS
<1>1. TInv
    BY InitTInv DEF RoomInit
<1>2. /\ page = "closed" /\ base = Empty /\ strip = [f \in File |-> {}] /\ orphans = {}
      /\ banner = FALSE /\ fetch = <<>> /\ torn = FALSE
    BY DEF RoomInit
<1>3. FetchTypes(fetch) /\ Len(fetch) <= MaxFetches
    BY <1>2, OneFetch, MaxFetchesType
<1>4. PageTypes
    BY <1>2, <1>3, EventTypes DEF PageTypes, Shown
<1> QED
    BY <1>1, <1>2, <1>4 DEF RInv, Synced

LEMMA NextRInv == RInv /\ [RoomNext]_allVars => RInv'
<1> SUFFICES ASSUME RInv, [RoomNext]_allVars PROVE RInv'
    OBVIOUS
<1>1. ASSUME Announced, UNCHANGED room, TInv' PROVE RInv'
    <2>1. PageTypes'
        BY <1>1 DEF RInv, PageTypes, FetchTypes, room
    <2> QED
        BY <1>1, <2>1, AnnouncedSynced DEF RInv
<1>2. CASE (WorktreeNext \/ ApproveClears \/ ApproveClearFails \/ ApproveForgets \/ CallNext)
           /\ UNCHANGED room
    <2>1. TInv'
        BY <1>2, NextTInv DEF RInv, Next
    <2>2. Announced
        BY <1>2, WorktreeAnnounced, ApproveAnnounced, CallAnnounced DEF RInv
    <2> QED
        BY <1>1, <1>2, <2>1, <2>2
<1>3. CASE RoomRestart
    BY <1>3, RoomRestartRInv
<1>4. CASE OpenRoom \/ Loaded \/ HandleServerEvent \/ Disconnect \/ Reconnect
    BY <1>4, OpenRoomRInv, LoadedRInv, HandleServerEventRInv, ConnectionRInv
<1>5. ASSUME NEW k \in 1 .. MaxFetches,
             \/ ReadDiff(k) \/ ReadView(k) \/ ReadRows(k) \/ ReadRowsFails(k)
             \/ Apply(k) \/ FetchFails(k)
      PROVE  RInv'
    BY <1>5, ReadDiffRInv, ReadViewRInv, ReadRowsRInv, ReadRowsFailsRInv, ApplyRInv,
       FetchFailsRInv
<1>6. CASE UNCHANGED allVars
    <2>1. UNCHANGED <<vars, room>>
        BY <1>6 DEF allVars
    <2>2. TInv'
        BY <2>1, NextTInv DEF RInv
    <2>3. Announced
        BY <2>1 DEF Announced, Due, Known, Of, In, vars, engine, store, stream
    <2> QED
        BY <1>1, <2>1, <2>2, <2>3
<1> QED
    BY <1>2, <1>3, <1>4, <1>5, <1>6 DEF RoomNext

LEMMA QuietShows == RInv => RoomInSync
<1> SUFFICES ASSUME RInv PROVE RoomInSync
    OBVIOUS
<1>1. RoomTypeOK
    BY TInvTypeOK DEF RInv, PageTypes, FetchTypes, RoomTypeOK
<1>2. ASSUME Quiet, ~ banner PROVE Shows
    <2>1. ~ Due /\ page = "open" /\ ~ torn
        BY <1>2 DEF Quiet, Due
    <2>2. ~ Newest(fetch)
        BY <1>2 DEF Quiet, Newest
    <2> QED
        BY <1>2, <2>1, <2>2 DEF RInv, Synced
<1> QED
    BY <1>1, <1>2 DEF RoomInSync, Shows, Known

\* For every number of worktrees, files, comments, requests and fetches under
\* way: a page that has caught up shows every comment the store answers with,
\* although a page and a fragment are each put together from three reads and
\* answers come in any order (fragments.go, app.js).  A page has not caught up
\* that missed an event (before its stream was open, or by a drop), or whose
\* last fragment was lost, was overtaken or had its read of the store fail.
THEOREM RoomInSyncSound == RoomSpec => []RoomInSync
<1>1. RoomSpec => []RInv
    BY InitRInv, NextRInv, PTL DEF RoomSpec
<1> QED
    BY <1>1, QuietShows, PTL
=============================================================================
