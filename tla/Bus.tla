-------------------------------- MODULE Bus --------------------------------
(***************************************************************************)
(* The rows a terminal client shows against the rows of the daemon.        *)
(*                                                                         *)
(* registry.Registry holds the rows and publishes one event per change,    *)
(* after it has let go of its lock; an event that finds a subscriber's     *)
(* channel full is dropped.  cmd/wtd's handleEvents subscribes, sends a    *)
(* "snapshot" marker and then relays the channel as server-sent events.    *)
(* The client (client/sse.go, tui/conn.go) queues the frames for the       *)
(* update loop of tui/app.go, which edits its rows by each delta, and      *)
(* answers a snapshot and a review.changed by fetching the whole list in a *)
(* goroutine whose answer comes back as one more message.                  *)
(*                                                                         *)
(* The engine writes rows one at a time (refreshMu, see Engine.tla);       *)
(* review toggles write them with no lock shared with the engine.          *)
(***************************************************************************)
EXTENDS Naturals, Sequences

CONSTANTS
    Worktrees,      \* worktree ids
    Diffs,          \* what a row shows of its diff (hash, stats, state, hits)
    MaxReviewed,    \* largest count of reviewed files in a row
    Toggles,        \* concurrent POST /api/review handlers
    Buffer,         \* capacity of a subscriber's channel (64 in handleEvents)
    Inbox,          \* frames between the socket and the update loop
    Fetches,        \* GET /api/worktrees the client may have outstanding
    MaxWrites,      \* bound: writes to the registry
    MaxTroubles     \* bound: lost connections, failed fetches and restarts

Engine == "engine"
Writers == {Engine} \cup Toggles

ASSUME BusAssumption ==
    /\ Engine \notin Toggles
    /\ Buffer \in Nat \ {0}
    /\ Inbox \in Nat \ {0}
    /\ MaxWrites \in Nat /\ MaxTroubles \in Nat

VARIABLES
    reg,        \* Registry.wts
    todo,       \* per writer, the calls it still makes, in order
    conn,       \* "down", "open" (hello sent), "subscribed", "live"
    sub,        \* the subscriber's channel
    inbox,      \* frames received and not yet handled by Update
    fetch,      \* the client's list requests
    view,       \* the rows of the sidebar
    writes, troubles,   \* counters of the bounds
    blame       \* history: what has happened to the view since the client
                \* last subscribed (see Blames)

vars == <<reg, todo, conn, sub, inbox, fetch, view, writes, troubles, blame>>
counters == <<writes, troubles>>

Gone == [diff |-> "none", reviewed |-> 0]
Row == [diff : Diffs, reviewed : 0 .. MaxReviewed]
Rows == [Worktrees -> Row \cup {Gone}]
Empty == [w \in Worktrees |-> Gone]

\* model.Event, as far as the client tells events apart.  diff.ready,
\* guardrail.tripped and review.changed differ from a delta in that they carry
\* no row; diff.ready does not touch the sidebar and only takes up room.
Delta == [type : {"upserted"}, id : Worktrees, row : Row]
         \cup [type : {"removed"}, id : Worktrees, row : {Gone}]
Notice == [type : {"diff.ready", "review.changed"}, id : Worktrees]
Snapshot == [type |-> "snapshot"]
Event == Delta \cup Notice

\* What a writer still has to do: write a row, delete one, or publish.
Step == [do : {"put"}, id : Worktrees, row : Row]
        \cup [do : {"delete"}, id : Worktrees]
        \cup [do : {"publish"}, event : Event]

Publish(e) == [do |-> "publish", event |-> e]
Upserted(w, row) == [type |-> "upserted", id |-> w, row |-> row]
Removed(w) == [type |-> "removed", id |-> w, row |-> Gone]

Idle == [at |-> "idle", rows |-> Empty, old |-> FALSE]
Asked == [at |-> "asked", rows |-> Empty, old |-> FALSE]
Answer(rows) == [at |-> "answered", rows |-> rows, old |-> FALSE]

\* dropped: an event found the channel full.  overtaken: a delta was published
\* that no longer said what the registry held.  late: a list older than the
\* rows it replaced was shown.  failed: a list fetch failed.
Blames == {"dropped", "overtaken", "late", "failed"}

TypeOK ==
    /\ reg \in Rows
    /\ todo \in [Writers -> Seq(Step)]
    /\ conn \in {"down", "open", "subscribed", "live"}
    /\ sub \in Seq(Event) /\ Len(sub) <= Buffer
    /\ inbox \in Seq(Event \cup {Snapshot}) /\ Len(inbox) <= Inbox
    /\ fetch \in [Fetches -> [at : {"idle", "asked", "answered"},
                              rows : Rows, old : BOOLEAN]]
    /\ view \in Rows
    /\ writes \in 0 .. MaxWrites
    /\ troubles \in 0 .. MaxTroubles
    /\ blame \subseteq Blames

Init ==
    /\ reg \in Rows
    /\ todo = [p \in Writers |-> <<>>]
    /\ conn = "down"
    /\ sub = <<>>
    /\ inbox = <<>>
    /\ \E f \in Fetches : fetch = [g \in Fetches |-> IF g = f THEN Asked ELSE Idle]
    /\ view = Empty
    /\ writes = 0
    /\ troubles = 0
    /\ blame = {}

-----------------------------------------------------------------------------
(* The daemon's writers.                                                   *)

\* refreshWorktree announces a new diff and then writes the row of it.
Refresh ==
    /\ todo[Engine] = <<>>
    /\ writes < MaxWrites
    /\ \E w \in Worktrees, row \in Row :
          LET put == [do |-> "put", id |-> w, row |-> row]
              ready == Publish([type |-> "diff.ready", id |-> w]) IN
          todo' = [todo EXCEPT ![Engine] =
                      IF reg[w].diff = row.diff THEN <<put>> ELSE <<ready, put>>]
    /\ writes' = writes + 1
    /\ UNCHANGED <<reg, conn, sub, inbox, fetch, view, troubles, blame>>

\* The sweep of a scan and a finished approve remove a row.
Forget ==
    /\ todo[Engine] = <<>>
    /\ writes < MaxWrites
    /\ \E w \in Worktrees :
          todo' = [todo EXCEPT ![Engine] = <<[do |-> "delete", id |-> w]>>]
    /\ writes' = writes + 1
    /\ UNCHANGED <<reg, conn, sub, inbox, fetch, view, troubles, blame>>

\* SetReviewed reads the row, recounts, upserts it and announces the change.
Toggle(t) ==
    /\ todo[t] = <<>>
    /\ writes < MaxWrites
    /\ \E w \in {v \in Worktrees : reg[v] # Gone}, n \in 0 .. MaxReviewed :
          todo' = [todo EXCEPT ![t] =
              <<[do |-> "put", id |-> w, row |-> [reg[w] EXCEPT !.reviewed = n]],
                Publish([type |-> "review.changed", id |-> w])>>]
    /\ writes' = writes + 1
    /\ UNCHANGED <<reg, conn, sub, inbox, fetch, view, troubles, blame>>

\* Broken on purpose: meaningfullyDiffers that forgets the count of reviewed files.
PutUncounted(p) ==
    /\ todo[p] # <<>> /\ Head(todo[p]).do = "put"
    /\ LET s == Head(todo[p])
           same == reg[s.id] # Gone /\ reg[s.id].diff = s.row.diff
           next == IF same THEN <<>> ELSE <<Publish(Upserted(s.id, s.row))>> IN
       /\ reg' = [reg EXCEPT ![s.id] = s.row]
       /\ todo' = [todo EXCEPT ![p] = next \o Tail(@)]
    /\ UNCHANGED <<conn, sub, inbox, fetch, view, blame, counters>>

\* Upsert, up to the release of its lock: the event is published afterwards,
\* and only if meaningfullyDiffers.
Put(p) ==
    /\ todo[p] # <<>> /\ Head(todo[p]).do = "put"
    /\ LET s == Head(todo[p])
           next == IF reg[s.id] = s.row THEN <<>> ELSE <<Publish(Upserted(s.id, s.row))>> IN
       /\ reg' = [reg EXCEPT ![s.id] = s.row]
       /\ todo' = [todo EXCEPT ![p] = next \o Tail(@)]
    /\ UNCHANGED <<conn, sub, inbox, fetch, view, blame, counters>>

\* Remove, up to the release of its lock.
Delete(p) ==
    /\ todo[p] # <<>> /\ Head(todo[p]).do = "delete"
    /\ LET w == Head(todo[p]).id
           next == IF reg[w] = Gone THEN <<>> ELSE <<Publish(Removed(w))>> IN
       /\ reg' = [reg EXCEPT ![w] = Gone]
       /\ todo' = [todo EXCEPT ![p] = next \o Tail(@)]
    /\ UNCHANGED <<conn, sub, inbox, fetch, view, blame, counters>>

Subscribed == conn \in {"subscribed", "live"}

\* The delta is out of date when it is published: another writer has written
\* the row since.
Overtaken(e) == e.type \in {"upserted", "removed"} /\ e.row # reg[e.id]

\* publish sends to every subscriber without blocking.
PublishEvent(p) ==
    /\ todo[p] # <<>> /\ Head(todo[p]).do = "publish"
    /\ LET e == Head(todo[p]).event
           full == Len(sub) = Buffer IN
       /\ sub' = IF Subscribed /\ ~full THEN Append(sub, e) ELSE sub
       /\ blame' = blame \cup {b \in {"dropped", "overtaken"} :
                      \/ b = "dropped" /\ Subscribed /\ full
                      \/ b = "overtaken" /\ Overtaken(e)}
    /\ todo' = [todo EXCEPT ![p] = Tail(@)]
    /\ UNCHANGED <<reg, conn, inbox, fetch, view, counters>>

-----------------------------------------------------------------------------
(* One connection of the event stream: handleEvents and client.Events.     *)

\* Broken on purpose: a client that gives up when its connection is lost.
ConnectOnce ==
    /\ conn = "down"
    /\ troubles = 0
    /\ conn' = "open"
    /\ UNCHANGED <<reg, todo, sub, inbox, fetch, view, blame, counters>>

\* The client dials and the server answers with the hello frame, which the
\* client skips.
Connect ==
    /\ conn = "down"
    /\ conn' = "open"
    /\ UNCHANGED <<reg, todo, sub, inbox, fetch, view, blame, counters>>

Subscribe ==
    /\ conn = "open"
    /\ conn' = "subscribed"
    /\ sub' = <<>>
    /\ blame' = {}
    /\ UNCHANGED <<reg, todo, inbox, fetch, view, counters>>

\* The snapshot marker is written to the stream before anything of the channel.
Prime ==
    /\ conn = "subscribed"
    /\ Len(inbox) < Inbox
    /\ conn' = "live"
    /\ inbox' = Append(inbox, Snapshot)
    /\ UNCHANGED <<reg, todo, sub, fetch, view, blame, counters>>

Relay ==
    /\ conn = "live"
    /\ sub # <<>>
    /\ Len(inbox) < Inbox
    /\ inbox' = Append(inbox, Head(sub))
    /\ sub' = Tail(sub)
    /\ UNCHANGED <<reg, todo, conn, fetch, view, blame, counters>>

Trouble == troubles < MaxTroubles /\ troubles' = troubles + 1

\* The connection is lost at any point, and with it what the channel held;
\* frames the client has already received stay in its own channels.
Disconnect ==
    /\ conn # "down"
    /\ Trouble
    /\ conn' = "down"
    /\ sub' = <<>>
    /\ UNCHANGED <<reg, todo, inbox, fetch, view, writes, blame>>

\* The daemon starts again with an empty registry; its engine fills it again
\* by ordinary refreshes.
Restart ==
    /\ Trouble
    /\ reg' = Empty
    /\ todo' = [p \in Writers |-> <<>>]
    /\ conn' = "down"
    /\ sub' = <<>>
    /\ UNCHANGED <<inbox, fetch, view, writes, blame>>

-----------------------------------------------------------------------------
(* The client: appModel.Update and its commands.                           *)

\* Deltas shown after a list was read make that list old.
Older == [f \in Fetches |->
            IF fetch[f].at = "answered" THEN [fetch[f] EXCEPT !.old = TRUE] ELSE fetch[f]]

\* sidebar.upsert and sidebar.remove.
ApplyDelta ==
    /\ inbox # <<>> /\ Head(inbox).type \in {"upserted", "removed"}
    /\ view' = [view EXCEPT ![Head(inbox).id] = Head(inbox).row]
    /\ inbox' = Tail(inbox)
    /\ fetch' = Older
    /\ UNCHANGED <<reg, todo, conn, sub, blame, counters>>

\* A diff.ready is the diff pane's business.
Ignore ==
    /\ inbox # <<>> /\ Head(inbox).type = "diff.ready"
    /\ inbox' = Tail(inbox)
    /\ UNCHANGED <<reg, todo, conn, sub, fetch, view, blame, counters>>

\* A snapshot and a review.changed start a list fetch.
Refetch ==
    /\ inbox # <<>> /\ Head(inbox).type \in {"snapshot", "review.changed"}
    /\ inbox' = Tail(inbox)
    /\ \E f \in Fetches :
          /\ fetch[f] = Idle
          /\ fetch' = [fetch EXCEPT ![f] = Asked]
    /\ UNCHANGED <<reg, todo, conn, sub, view, blame, counters>>

\* Registry.List, under its read lock.
List(f) ==
    /\ fetch[f] = Asked
    /\ fetch' = [fetch EXCEPT ![f] = Answer(reg)]
    /\ UNCHANGED <<reg, todo, conn, sub, inbox, view, blame, counters>>

\* sidebar.setWorktrees.
ApplyList(f) ==
    /\ fetch[f].at = "answered"
    /\ view' = fetch[f].rows
    /\ blame' = IF fetch[f].old THEN blame \cup {"late"} ELSE blame
    /\ fetch' = [Older EXCEPT ![f] = Idle]
    /\ UNCHANGED <<reg, todo, conn, sub, inbox, counters>>

\* listErrMsg: a toast at most; the list is not asked for again.
FailList(f) ==
    /\ fetch[f].at # "idle"
    /\ Trouble
    /\ fetch' = [fetch EXCEPT ![f] = Idle]
    /\ blame' = blame \cup {"failed"}
    /\ UNCHANGED <<reg, todo, conn, sub, inbox, view, writes>>

-----------------------------------------------------------------------------
Write == Refresh \/ Forget \/ \E t \in Toggles : Toggle(t)
Work == \E p \in Writers : Put(p) \/ Delete(p) \/ PublishEvent(p)
Stream == Connect \/ Subscribe \/ Prime \/ Relay
Client == \/ ApplyDelta \/ Ignore \/ Refetch
          \/ \E f \in Fetches : List(f) \/ ApplyList(f)
Failure == Disconnect \/ Restart \/ \E f \in Fetches : FailList(f)

Next == Write \/ Work \/ Stream \/ Client \/ Failure

Spec == Init /\ [][Next]_vars

\* Goroutines run, the client reconnects forever, and a connection that stays
\* up relays what it holds.  Nobody has to write, and nothing has to fail.
FairSpec ==
    /\ Spec
    /\ \A p \in Writers : WF_vars(Put(p) \/ Delete(p) \/ PublishEvent(p))
    /\ WF_vars(Stream)
    /\ WF_vars(ApplyDelta \/ Ignore \/ Refetch)
    /\ \A f \in Fetches : WF_vars(List(f) \/ ApplyList(f))

-----------------------------------------------------------------------------
(* What the client may rely on.                                            *)

\* Nothing is under way anywhere between the registry and the sidebar.
AtRest ==
    /\ conn = "live"
    /\ \A p \in Writers : todo[p] = <<>>
    /\ sub = <<>>
    /\ inbox = <<>>
    /\ \A f \in Fetches : fetch[f] = Idle

\* When nothing is under way, the sidebar shows the rows of the registry,
\* unless since the client last subscribed an event was dropped, a delta
\* overtaken, a list shown late or a fetch failed: deltas that start before
\* the list, a list read after the subscription, and the refetch on
\* review.changed leave no other gap, and every reconnect closes the old ones
\* (handleEvents subscribes before it sends the marker, applyEvent).  (And every
\* variable has its type.)
InSync == TypeOK /\ (AtRest /\ blame = {} => view = reg)

\* Once nobody writes any more, the sidebar ends up showing the registry: no
\* full queue, lost connection or restart leaves client and daemon waiting for
\* each other.
CatchesUp == <>[](blame = {} => view = reg)

=============================================================================
