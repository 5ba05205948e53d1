------------------------------ MODULE Cockpit ------------------------------
(***************************************************************************)
(* The terminal client between its keys, the daemon's events and the       *)
(* answers of its own requests (tui/app.go, radar.go, approve.go,          *)
(* sidebar.go).                                                            *)
(*                                                                         *)
(* One update loop handles keys, events and answers one at a time.  Every  *)
(* request runs in a goroutine of its own, so the daemon may serve them,   *)
(* and the loop hear their answers, in any order.  The pane shows the diff *)
(* of the selected worktree from a small cache; a toggle of a review mark  *)
(* is shown before it is confirmed; a dialog submits an approve.           *)
(*                                                                         *)
(* A worktree has one file, named alike everywhere, whose hash is its      *)
(* diff.  The daemon is what the client sees of it: a diff and a mark per  *)
(* worktree, announced as engine.go does.  How the rows follow the daemon  *)
(* is Bus's subject; here a list is read when its answer is handled.       *)
(***************************************************************************)
EXTENDS Naturals, Sequences

CONSTANTS
    Worktree,       \* worktree ids
    Hash,           \* hashes of the one file of a diff
    None,           \* no worktree, no diff, no mark
    CacheCap,       \* diffLRUCap (4 in the code)
    MaxCalls,       \* bound: requests under way
    MaxInbox,       \* bound: events not yet handled
    MaxWork         \* bound: keys pressed (a dialog's esc costs nothing), and
                    \* twice the changes made by others and the failures

ASSUME CockpitAssumption ==
    /\ None \notin Worktree \cup Hash
    /\ CacheCap \in Nat \ {0}
    /\ MaxCalls \in Nat /\ MaxInbox \in Nat /\ MaxWork \in Nat

VARIABLES
    disk,       \* Engine.cache: the diff of each worktree, None when gone
    mark,       \* the hash each worktree's file was marked reviewed at
    up,         \* the event stream is connected
    inbox,      \* events sent and not yet handled
    listing,    \* a GET /api/worktrees is under way
    rows,       \* sidebar.rows
    hidden,     \* the worktrees the query and the active-only toggle hide
    selected,   \* sidebar.selectedID
    current,    \* radarView.currentID
    failed,     \* radarView.diffErr is set
    pane,       \* radarView.pane.diff
    cache,      \* radarView.diffs, most recently used first
    reviewing,  \* screen = screenReview
    dialog,     \* the approve dialog
    calls,      \* requests under way, those served last in the order of service
    work,       \* what MaxWork bounds
    blame       \* history: per worktree, what befell the client's copy of
                \* its diff since it last heard a fresh one (see Blames)

daemon == <<disk, mark>>
stream == <<up, inbox>>
sidebar == <<rows, hidden, selected>>
radar == <<current, failed, pane, cache>>
vars == <<daemon, stream, listing, sidebar, radar, reviewing, dialog, calls,
          work, blame>>

Diff == [id : Worktree, hash : Hash, on : BOOLEAN]
\* shared: the pane's map of marks is the one the cache holds
Blank == [id |-> None, hash |-> None, on |-> FALSE, shared |-> FALSE]
Show(d) == [id |-> d.id, hash |-> d.hash, on |-> d.on, shared |-> TRUE]

Event == [type : {"upserted", "removed", "review.changed"}, id : Worktree]
         \cup [type : {"diff.ready"}, id : Worktree, hash : Hash]
         \cup {[type |-> "snapshot"]}

\* What a request comes to.  SetReviewed's 409 is a conflict; every other error,
\* the refusal of an approve too, is treated alike.  unread: a diff is answered
\* with every mark off, because the store could not be read.
Outcome == {"ok", "unread", "conflict", "failed"}

\* A fetch is served in three steps: the diff is read (read), the cache again for
\* the hash the mark is compared with (found), the mark.
Stage == {"asked", "read", "found"}

\* A request; hash and on are what it carries, or what the answer to a fetch
\* does; seen is the hash found the second time.  old: since it was served, the
\* client has heard something newer about its worktree (a later answer, an
\* event), or missed it.
Call == [do : {"diff", "review", "approve"}, id : Worktree,
         hash : Hash \cup {None}, on : BOOLEAN, seen : Hash \cup {None},
         at : Stage \cup Outcome, old : BOOLEAN]
Ask(do, w, h, on) ==
    [do |-> do, id |-> w, hash |-> h, on |-> on, seen |-> None,
     at |-> "asked", old |-> FALSE]

Closed == [id |-> None, submitting |-> FALSE, error |-> None]
Open(w) == [Closed EXCEPT !.id = w]

\* ignored: a diff.ready came while another worktree was open.  missed: an
\* event was lost with the connection.  overtaken: an answer was applied after
\* one the daemon had served later.  failed: a request failed.  elsewhere:
\* another client toggled the mark.  misaimed: space was pressed on a diff of
\* this worktree while another was selected.  reborn: the worktree was removed
\* and added again; the cache forgets neither its diff nor its marks.
\* misapplied: the answer of another worktree's toggle was shown on its diff.
\* unheard: the answer of its own toggle came while another was open.  unread:
\* its diff came without marks, because the store could not be read.
Blames == {"ignored", "missed", "overtaken", "failed", "elsewhere", "misaimed",
           "reborn", "misapplied", "unheard", "unread"}
Blamed(w, why) == [blame EXCEPT ![w] = @ \cup {why}]

Visible(rs) == rs \ hidden
Living == {w \in Worktree : disk[w] # None}

\* The invariant of the types.
TypeOK ==
    /\ disk \in [Worktree -> Hash \cup {None}]
    /\ mark \in [Worktree -> Hash \cup {None}]
    /\ up \in BOOLEAN /\ listing \in BOOLEAN /\ failed \in BOOLEAN
    /\ inbox \in Seq(Event)
    /\ rows \subseteq Worktree /\ hidden \subseteq Worktree
    /\ selected \in Visible(rows) \cup {None}
    /\ selected = None => Visible(rows) = {}
    /\ current \in Worktree \cup {None}
    /\ pane = Blank \/ pane \in [id : Worktree, hash : Hash, on : BOOLEAN, shared : BOOLEAN]
    /\ cache \in Seq(Diff) /\ Len(cache) <= CacheCap
    /\ \A i, j \in DOMAIN cache : cache[i].id = cache[j].id => i = j
    /\ reviewing \in BOOLEAN
    /\ dialog.id = None => dialog = Closed
    /\ calls \in Seq(Call)
    /\ work \in 0 .. MaxWork
    /\ blame \in [Worktree -> SUBSET Blames]

Init ==
    /\ disk \in [Worktree -> Hash]
    /\ mark = [w \in Worktree |-> None]
    /\ up = FALSE /\ inbox = <<>> /\ listing = TRUE
    /\ rows = {} /\ hidden = {} /\ selected = None
    /\ current = None /\ failed = FALSE /\ pane = Blank /\ cache = <<>>
    /\ reviewing = FALSE /\ dialog = Closed /\ calls = <<>>
    /\ work = 0
    /\ blame = [w \in Worktree |-> {}]

-----------------------------------------------------------------------------
(* The cache and the pane.                                                 *)

Without(s, i) == SubSeq(s, 1, i - 1) \o SubSeq(s, i + 1, Len(s))
Capped(s, n) == SubSeq(s, 1, IF Len(s) < n THEN Len(s) ELSE n)

\* diffLRU.idx: where the entry of w is, if there is one.
Cached(w) == {i \in DOMAIN cache : cache[i].id = w}

\* diffLRU.get: the i-th entry moves to the front.
Get(i) == <<cache[i]>> \o Without(cache, i)

\* diffLRU.put.
Others(w) == IF Cached(w) = {} THEN cache
             ELSE Without(cache, CHOOSE i \in Cached(w) : TRUE)
Put(d) == Capped(<<d>> \o Others(d.id), CacheCap)

\* Broken on purpose: a hit of the cache forgets to say what is open now.
EnsureDiffSilent(w, cs) ==
    \/ w = None /\ calls' = cs /\ UNCHANGED radar
    \/ \E i \in Cached(w) :
       /\ w # None
       /\ failed' = FALSE
       /\ cache' = Get(i)
       /\ pane' = Show(cache[i])
       /\ calls' = cs /\ UNCHANGED current
    \/ /\ w # None /\ Cached(w) = {} /\ w = current /\ ~failed
       /\ calls' = cs /\ UNCHANGED radar
    \/ /\ w # None /\ Cached(w) = {} /\ (w # current \/ failed)
       /\ current' = w /\ failed' = FALSE
       /\ calls' = Append(cs, Ask("diff", w, None, FALSE))
       /\ UNCHANGED <<pane, cache>>

\* ensureDiff, and ensureDiffForSelection for no worktree at all.
EnsureDiff(w, cs) ==
    \/ /\ w = None
       /\ calls' = cs /\ UNCHANGED radar
    \/ \E i \in Cached(w) :
       /\ w # None
       /\ current' = w /\ failed' = FALSE
       /\ cache' = Get(i)
       /\ pane' = Show(cache[i])
       /\ calls' = cs
    \/ /\ w # None /\ Cached(w) = {} /\ w = current /\ ~failed
       /\ calls' = cs /\ UNCHANGED radar
    \/ /\ w # None /\ Cached(w) = {} /\ (w # current \/ failed)
       /\ current' = w /\ failed' = FALSE
       /\ calls' = Append(cs, Ask("diff", w, None, FALSE))
       /\ UNCHANGED <<pane, cache>>

\* setReviewed: the entry of the cache changes with the pane while they share
\* the map.
SetReviewed(on) ==
    /\ pane' = [pane EXCEPT !.on = on]
    /\ cache' = [i \in DOMAIN cache |->
                   IF pane.shared /\ cache[i].id = pane.id
                   THEN [cache[i] EXCEPT !.on = on] ELSE cache[i]]

\* fixSelection, the order of the rows left open.
FixSelection(rs, keep) ==
    /\ rows' = rs
    /\ IF keep \in Visible(rs) THEN selected' = keep
       ELSE IF Visible(rs) = {} THEN selected' = None
       ELSE selected' \in Visible(rs)
    /\ UNCHANGED hidden

-----------------------------------------------------------------------------
(* The daemon: agents, scans and other clients.                            *)

Effort(n) == work + n <= MaxWork /\ work' = work + n
Send(es) == inbox' = IF up THEN inbox \o es ELSE inbox
Room(n) == Len(inbox) + n <= MaxInbox

\* An accident of w: answers served before it are older than it.
Age(w) == [i \in DOMAIN calls |->
             IF calls[i].id = w /\ calls[i].at # "asked"
             THEN [calls[i] EXCEPT !.old = TRUE] ELSE calls[i]]

\* refreshWorktree finds another diff, or a worktree that was not there.
Edit(w, h) ==
    /\ Effort(2) /\ Room(2)
    /\ disk[w] # h
    /\ disk' = [disk EXCEPT ![w] = h]
    /\ Send(<<[type |-> "diff.ready", id |-> w, hash |-> h],
              [type |-> "upserted", id |-> w]>>)
    /\ LET why == (IF up THEN {} ELSE {"missed"})
                  \cup (IF disk[w] = None THEN {"reborn"} ELSE {}) IN
       /\ blame' = [blame EXCEPT ![w] = @ \cup why]
       /\ calls' = IF why = {} THEN calls ELSE Age(w)
    /\ UNCHANGED <<mark, up, listing, sidebar, radar, reviewing, dialog>>

\* The sweep of a scan finds a worktree gone.
Forget(w) ==
    /\ Effort(2) /\ Room(1)
    /\ disk[w] # None
    /\ disk' = [disk EXCEPT ![w] = None]
    /\ Send(<<[type |-> "removed", id |-> w]>>)
    /\ UNCHANGED <<mark, up, listing, sidebar, radar, reviewing, dialog, calls, blame>>

\* Another client toggles the mark.
ToggleElsewhere(w) ==
    /\ Effort(2) /\ Room(2)
    /\ disk[w] # None
    /\ mark' = [mark EXCEPT ![w] = IF @ = disk[w] THEN None ELSE disk[w]]
    /\ Send(<<[type |-> "upserted", id |-> w],
              [type |-> "review.changed", id |-> w]>>)
    /\ calls' = Age(w)
    /\ blame' = Blamed(w, "elsewhere")
    /\ UNCHANGED <<disk, up, listing, sidebar, radar, reviewing, dialog>>

\* A served request takes its place behind those served before it.
Served(i, r) == calls' = Append(Without(calls, i), r)

\* handleDiff reads the diff.
ServeDiff(i) ==
    /\ calls[i].do = "diff" /\ calls[i].at = "asked"
    /\ LET w == calls[i].id IN
       Served(i, IF disk[w] = None THEN [calls[i] EXCEPT !.at = "failed"]
                 ELSE [calls[i] EXCEPT !.at = "read", !.hash = disk[w]])
    /\ UNCHANGED <<daemon, stream>>

\* ReviewedMap looks at the cache, and does not say that the worktree is gone:
\* the answer then has no marks.  (The pane makes a map of its own for them,
\* taken here for the cache's: should such a worktree come back it is reborn.)
FindFiles(i) ==
    /\ calls[i].do = "diff" /\ calls[i].at = "read"
    /\ LET w == calls[i].id IN
       calls' = [calls EXCEPT ![i] = IF disk[w] = None THEN [@ EXCEPT !.at = "ok"]
                                     ELSE [@ EXCEPT !.at = "found", !.seen = disk[w]]]
    /\ UNCHANGED <<daemon, stream>>

\* ReviewedMap reads the store: a mark counts for the hash found before.
ReadMark(i) ==
    /\ calls[i].do = "diff" /\ calls[i].at = "found"
    /\ LET w == calls[i].id IN
       calls' = [calls EXCEPT ![i] = [@ EXCEPT !.at = "ok", !.seen = None,
                                               !.on = (mark[w] = calls[i].seen)]]
    /\ UNCHANGED <<daemon, stream>>

\* handleReview and Engine.SetReviewed.
ServeReview(i) ==
    /\ calls[i].do = "review" /\ calls[i].at = "asked" /\ Room(2)
    /\ LET w == calls[i].id IN
       \/ /\ disk[w] \notin {None, calls[i].hash}
          /\ Served(i, [calls[i] EXCEPT !.at = "conflict"])
          /\ UNCHANGED <<mark, inbox>>
       \/ /\ disk[w] = None
          /\ Served(i, [calls[i] EXCEPT !.at = "failed"])
          /\ UNCHANGED <<mark, inbox>>
       \/ /\ disk[w] = calls[i].hash
          /\ mark' = [mark EXCEPT ![w] = IF calls[i].on THEN disk[w] ELSE None]
          /\ Send(<<[type |-> "upserted", id |-> w],
                    [type |-> "review.changed", id |-> w]>>)
          /\ Served(i, [calls[i] EXCEPT !.at = "ok"])
    /\ UNCHANGED <<disk, up>>

\* handleApprove: a gate refuses, or the worktree is merged and removed.
ServeApprove(i) ==
    /\ calls[i].do = "approve" /\ calls[i].at = "asked" /\ Room(1)
    /\ LET w == calls[i].id IN
       \/ /\ Served(i, [calls[i] EXCEPT !.at = "failed"])
          /\ UNCHANGED <<daemon, inbox>>
       \/ /\ disk[w] # None /\ mark[w] = disk[w]
          /\ disk' = [disk EXCEPT ![w] = None]
          /\ mark' = [mark EXCEPT ![w] = None]
          /\ Send(<<[type |-> "removed", id |-> w]>>)
          /\ Served(i, [calls[i] EXCEPT !.at = "ok"])
    /\ UNCHANGED up

Serve ==
    /\ \E i \in DOMAIN calls :
          \/ ServeDiff(i) \/ FindFiles(i) \/ ReadMark(i)
          \/ ServeReview(i) \/ ServeApprove(i)
    /\ UNCHANGED <<listing, sidebar, radar, reviewing, dialog, work, blame>>

\* A request times out or its connection breaks, before or after it was served.
Fail(i) ==
    /\ Effort(2)
    /\ calls[i].at # "failed"
    /\ calls' = [calls EXCEPT ![i].at = "failed"]
    /\ UNCHANGED <<daemon, stream, listing, sidebar, radar, reviewing, dialog, blame>>

\* The store cannot be read: ReviewedMap ignores the error, and every mark is off.
UnreadMark(i) ==
    /\ Effort(2)
    /\ calls[i].do = "diff" /\ calls[i].at = "found"
    /\ calls' = [calls EXCEPT ![i] = [@ EXCEPT !.at = "unread", !.seen = None]]
    /\ UNCHANGED <<daemon, stream, listing, sidebar, radar, reviewing, dialog, blame>>

\* The stream ends; what was not read from it is lost.
Disconnect ==
    /\ up /\ Effort(2)
    /\ \E n \in 0 .. Len(inbox) :
          LET lost == {inbox[i].id : i \in {j \in n + 1 .. Len(inbox) :
                                             inbox[j].type = "diff.ready"}} IN
          /\ inbox' = SubSeq(inbox, 1, n)
          /\ blame' = [w \in Worktree |-> IF w \in lost THEN blame[w] \cup {"missed"}
                                          ELSE blame[w]]
          /\ calls' = [i \in DOMAIN calls |->
                         IF calls[i].id \in lost /\ calls[i].at # "asked"
                         THEN [calls[i] EXCEPT !.old = TRUE] ELSE calls[i]]
    /\ up' = FALSE
    /\ UNCHANGED <<daemon, listing, sidebar, radar, reviewing, dialog>>

\* runConn dials again; handleEvents sends the snapshot first.
Connect ==
    /\ ~up /\ Room(1)
    /\ up' = TRUE
    /\ inbox' = Append(inbox, [type |-> "snapshot"])
    /\ UNCHANGED <<daemon, listing, sidebar, radar, reviewing, dialog, calls, work, blame>>

-----------------------------------------------------------------------------
(* The update loop: events.                                                *)

\* A handler that may send a request waits while the bound allows no more.
Free == Len(calls) < MaxCalls

OnUpserted(w) ==
    /\ FixSelection(rows \cup {w}, selected)
    /\ EnsureDiff(selected', calls)
    /\ UNCHANGED <<listing, blame>>

OnRemoved(w) ==
    /\ FixSelection(rows \ {w}, IF selected = w THEN None ELSE selected)
    /\ EnsureDiff(selected', calls)
    /\ UNCHANGED <<listing, blame>>

\* Broken on purpose: a diff.ready is taken for known once any diff is cached.
OnDiffReadyOnce(w, h) ==
    /\ IF w # current
       THEN /\ blame' = Blamed(w, "ignored") /\ calls' = Age(w)
       ELSE /\ UNCHANGED blame
            /\ calls' = IF Cached(w) # {} THEN calls
                        ELSE Append(calls, Ask("diff", w, None, FALSE))
    /\ UNCHANGED <<listing, sidebar, radar>>

\* applyDiffReady.
OnDiffReady(w, h) ==
    \/ /\ w # current
       /\ blame' = Blamed(w, "ignored") /\ calls' = Age(w)
       /\ UNCHANGED <<listing, sidebar, radar>>
    \/ /\ w = current /\ Cached(w) = {}
       /\ calls' = Append(calls, Ask("diff", w, None, FALSE))
       /\ UNCHANGED <<listing, sidebar, radar, blame>>
    \/ \E i \in Cached(w) :
       /\ w = current
       /\ cache' = Get(i)
       /\ calls' = IF cache[i].hash = h THEN Age(w)
                   ELSE Append(calls, Ask("diff", w, None, FALSE))
       /\ UNCHANGED <<listing, sidebar, current, failed, pane, blame>>

\* review.changed and a snapshot fetch the list, and no diff.
OnListed ==
    /\ listing' = TRUE
    /\ UNCHANGED <<sidebar, radar, calls, blame>>

\* applyEvent.
Handle ==
    /\ inbox # <<>> /\ Free
    /\ inbox' = Tail(inbox)
    /\ LET e == Head(inbox) IN
       \/ e.type = "upserted" /\ OnUpserted(e.id)
       \/ e.type = "removed" /\ OnRemoved(e.id)
       \/ e.type = "diff.ready" /\ OnDiffReady(e.id, e.hash)
       \/ e.type \in {"review.changed", "snapshot"} /\ OnListed
    /\ UNCHANGED <<daemon, up, reviewing, dialog, work>>

\* setWorktrees, on the answer of a list.
List ==
    /\ listing /\ Free
    /\ listing' = FALSE
    /\ FixSelection(Living, selected)
    /\ EnsureDiff(selected', calls)
    /\ UNCHANGED <<daemon, stream, reviewing, dialog, work, blame>>

FailList ==
    /\ listing /\ Effort(2)
    /\ listing' = FALSE
    /\ UNCHANGED <<daemon, stream, sidebar, radar, reviewing, dialog, calls, blame>>

-----------------------------------------------------------------------------
(* The update loop: answers.                                               *)

\* The requests without the i-th; answers about its worktree that were served
\* before it are old from now on.
Rest(i) ==
    Without([j \in DOMAIN calls |->
               IF j < i /\ calls[j].id = calls[i].id /\ calls[j].at # "asked"
               THEN [calls[j] EXCEPT !.old = TRUE] ELSE calls[j]], i)

\* applyDiffMsg.
OnDiff(i) ==
    LET c == calls[i]
        d == [id |-> c.id, hash |-> c.hash, on |-> c.on] IN
    /\ c.do = "diff" /\ c.at \in {"ok", "unread"}
    /\ cache' = Put(d)
    /\ IF c.id = current THEN pane' = Show(d) /\ failed' = FALSE
       ELSE /\ pane' = [pane EXCEPT !.shared = @ /\ pane.id # c.id]
            /\ UNCHANGED failed
    /\ blame' = [blame EXCEPT ![c.id] = (IF c.old THEN @ \cup {"overtaken"} ELSE {})
                                        \cup (IF c.at = "unread" THEN {"unread"} ELSE {})]
    /\ calls' = Rest(i)
    /\ UNCHANGED <<sidebar, current, reviewing, dialog>>

\* applyDiffErrMsg.
OnDiffFailed(i) ==
    LET c == calls[i] IN
    /\ c.do = "diff" /\ c.at = "failed"
    /\ failed' = (failed \/ c.id = current)
    /\ blame' = Blamed(c.id, "failed")
    /\ calls' = Rest(i)
    /\ UNCHANGED <<sidebar, current, pane, cache, reviewing, dialog>>

\* The answer of a toggle is lost on the cache when another worktree is open,
\* and hits the diff the pane still holds when its own is open but not loaded.
Misapplied(c, why) ==
    [w \in Worktree |->
       blame[w] \cup (IF w = c.id THEN why ELSE {})
                \cup (IF w = c.id /\ w # current THEN {"unheard"} ELSE {})
                \cup (IF w = pane.id /\ c.id = current /\ w # c.id
                      THEN {"misapplied"} ELSE {})]

\* applyReviewOK.
OnReviewed(i) ==
    LET c == calls[i] IN
    /\ c.do = "review" /\ c.at = "ok"
    /\ IF c.id = current /\ pane.id # None THEN SetReviewed(c.on)
       ELSE UNCHANGED <<pane, cache>>
    /\ blame' = Misapplied(c, IF c.old THEN {"overtaken"} ELSE {})
    /\ calls' = Rest(i)
    /\ UNCHANGED <<sidebar, current, failed, reviewing, dialog>>

\* Broken on purpose: a refused toggle is undone by inverting what is shown.
OnReviewRefusedInvert(i) ==
    LET c == calls[i] IN
    /\ c.do = "review" /\ c.at \in {"conflict", "failed"}
    /\ IF c.id = current /\ pane.id # None THEN SetReviewed(~pane.on)
       ELSE UNCHANGED <<pane, cache>>
    /\ blame' = Misapplied(c, IF c.at = "failed" THEN {"failed"} ELSE {})
    /\ calls' = Rest(i)
    /\ UNCHANGED <<sidebar, current, failed, reviewing, dialog>>

\* applyReviewErr: the toggle is undone; a conflict also fetches the diff.
OnReviewRefused(i) ==
    LET c == calls[i] IN
    /\ c.do = "review" /\ c.at \in {"conflict", "failed"}
    /\ IF c.id = current /\ pane.id # None THEN SetReviewed(~c.on)
       ELSE UNCHANGED <<pane, cache>>
    /\ blame' = Misapplied(c, IF c.at = "failed" THEN {"failed"} ELSE {})
    /\ calls' = IF c.at = "failed" THEN Rest(i)
                ELSE Append(Rest(i), Ask("diff", c.id, None, FALSE))
    /\ UNCHANGED <<sidebar, current, failed, reviewing, dialog>>

\* approveOKMsg: whatever dialog is open is closed.
OnApproved(i) ==
    /\ calls[i].do = "approve" /\ calls[i].at = "ok"
    /\ dialog' = Closed
    /\ reviewing' = FALSE
    /\ calls' = Rest(i)
    /\ UNCHANGED <<sidebar, radar, blame>>

\* applyApproveErr: whatever dialog is open shows the error.
OnApproveRefused(i) ==
    /\ calls[i].do = "approve" /\ calls[i].at = "failed"
    /\ dialog' = IF dialog.id = None THEN dialog
                 ELSE [dialog EXCEPT !.submitting = FALSE, !.error = calls[i].id]
    /\ calls' = Rest(i)
    /\ UNCHANGED <<sidebar, radar, reviewing, blame>>

Answer ==
    /\ \E i \in DOMAIN calls :
          OnDiff(i) \/ OnDiffFailed(i) \/ OnReviewed(i) \/ OnReviewRefused(i)
             \/ OnApproved(i) \/ OnApproveRefused(i)
    /\ UNCHANGED <<daemon, stream, listing, work>>

-----------------------------------------------------------------------------
(* The update loop: keys.  An open dialog takes them all.                  *)

Shell == dialog.id = None

\* Up and down, in the radar.
Move(w) ==
    /\ Shell /\ ~reviewing /\ Free
    /\ selected # None /\ w \in Visible(rows) \ {selected}
    /\ selected' = w
    /\ EnsureDiff(w, calls)
    /\ UNCHANGED <<rows, hidden, reviewing, dialog, blame>>

\* A keystroke of the search, the active-only toggle, or esc, which shows all.
Filter(S) ==
    /\ Shell /\ ~reviewing /\ Free
    /\ hidden' = S /\ S # hidden
    /\ rows' = rows
    /\ IF selected \in rows \ S THEN selected' = selected
       ELSE IF rows \subseteq S THEN selected' = None
       ELSE selected' \in rows \ S
    /\ EnsureDiff(selected', calls)
    /\ UNCHANGED <<reviewing, dialog, blame>>

\* r, with a worktree selected, and esc.
Review ==
    /\ Shell
    /\ IF reviewing THEN reviewing' = FALSE
       ELSE selected # None /\ reviewing' = TRUE
    /\ UNCHANGED <<sidebar, radar, dialog, calls, blame>>

\* toggleReviewedCurrentFile: the worktree comes from the sidebar, the file
\* and its hash from the pane.
Toggle ==
    /\ Shell /\ reviewing /\ Free
    /\ selected # None /\ pane.id # None
    /\ SetReviewed(~pane.on)
    /\ calls' = Append(calls, Ask("review", selected, pane.hash, ~pane.on))
    /\ blame' = IF pane.id = selected THEN blame ELSE Blamed(pane.id, "misaimed")
    /\ UNCHANGED <<sidebar, current, failed, reviewing, dialog>>

\* openApprove, and esc in the dialog.
OpenApprove ==
    /\ Shell /\ selected # None
    /\ dialog' = Open(selected)
    /\ UNCHANGED <<sidebar, radar, reviewing, calls, blame>>

Cancel ==
    /\ ~Shell
    /\ dialog' = Closed
    /\ UNCHANGED <<sidebar, radar, reviewing, calls, blame>>

\* Broken on purpose: enter shows "approving" and sends nothing when a request
\* is already under way.
SubmitOnce ==
    /\ ~Shell /\ ~dialog.submitting /\ Free
    /\ dialog' = [dialog EXCEPT !.submitting = TRUE, !.error = None]
    /\ calls' = IF \E i \in DOMAIN calls : calls[i].do = "approve" THEN calls
                ELSE Append(calls, Ask("approve", dialog.id, None, FALSE))
    /\ UNCHANGED <<sidebar, radar, reviewing, blame>>

\* enter in the dialog.
Submit ==
    /\ ~Shell /\ ~dialog.submitting /\ Free
    /\ dialog' = [dialog EXCEPT !.submitting = TRUE, !.error = None]
    /\ calls' = Append(calls, Ask("approve", dialog.id, None, FALSE))
    /\ UNCHANGED <<sidebar, radar, reviewing, blame>>

\* The esc of a dialog costs no work: the key that opened it has paid for it.
Key ==
    /\ \/ /\ Effort(1)
          /\ \/ \E w \in Worktree : Move(w)
             \/ \E S \in SUBSET Worktree : Filter(S)
             \/ Review \/ Toggle \/ OpenApprove \/ Submit
       \/ Effort(0) /\ Cancel
    /\ UNCHANGED <<daemon, stream, listing>>

Outside ==
    \/ \E w \in Worktree : \/ \E h \in Hash : Edit(w, h)
                           \/ Forget(w) \/ ToggleElsewhere(w)
    \/ \E i \in DOMAIN calls : Fail(i) \/ UnreadMark(i)
    \/ Disconnect \/ FailList

Next == Outside \/ Serve \/ Connect \/ Handle \/ List \/ Answer \/ Key

Spec == Init /\ [][Next]_vars

-----------------------------------------------------------------------------
(* Properties.                                                             *)

\* Nothing is under way: what is on the screen now stays there.
Quiet == up /\ inbox = <<>> /\ ~listing /\ calls = <<>>

\* The diff of the selected worktree is on the screen.  (That a row may outlive
\* its worktree is Bus's subject.)
Shown == selected \in Living /\ ~failed /\ pane.id = selected

\* Once nothing is under way, the selected worktree's diff or an error is on
\* the screen: "loading diff" (radar.go:204) never stays.  (And every variable
\* has its type.)
NeverStuck == TypeOK /\ (Quiet /\ selected # None => failed \/ pane.id = selected)

\* Once nothing is under way, the diff on the screen is the daemon's, unless
\* its diff.ready was ignored or lost, a request failed, or an answer came out
\* of order (ensureDiff, applyDiffMsg and applyDiffReady in radar.go).
PaneFresh ==
    Quiet /\ Shown =>
        \/ pane.hash = disk[selected]
        \/ blame[selected] \cap {"ignored", "missed", "overtaken", "failed"} # {}

\* Once nothing is under way, the mark on the screen is the daemon's, unless
\* one of the accidents of Blames happened: toggles shown before they are
\* confirmed, refused toggles and fetches that cross them leave the pane right
\* (applyReviewOK and applyReviewErr in radar.go), and so does a diff that moves
\* while its fetch reads it and its marks: the diff.ready of the move fetches it
\* again ("self-heals", main.go:700-704).
MarkAgrees ==
    Quiet /\ Shown =>
        \/ pane.on = (mark[selected] = disk[selected])
        \/ blame[selected] # {}

\* A dialog that says "approving" has its own request under way, whatever
\* other dialogs were opened, cancelled and answered (approve.go).
ApprovingIsTrue ==
    dialog.submitting =>
        \E i \in DOMAIN calls : calls[i].do = "approve" /\ calls[i].id = dialog.id
=============================================================================
