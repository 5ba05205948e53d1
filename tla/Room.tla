-------------------------------- MODULE Room --------------------------------
(***************************************************************************)
(* The web reading room (internal/web, static/app.js) beside the comment   *)
(* operations: one page of one worktree, kept up to date by the fragments  *)
(* it fetches whenever an event of its stream says so.                     *)
(*                                                                         *)
(* A fragment is put together from three reads with nothing held between   *)
(* them: the cached diff, the cache again in Engine.Comments, the store.   *)
(* The page itself is made of the same three reads, and subscribes to the  *)
(* stream only when its script runs.                                       *)
(***************************************************************************)
EXTENDS Comments

CONSTANT MaxFetches     \* bound: fragments under way at once

ASSUME RoomAssumption == MaxFetches \in Nat \ {0}

VARIABLES
    page,           \* "closed", "loading", "open" or "over" (approved or removed)
    base,           \* the diff the page was made from: its containers, its hash
    strip,          \* what the container of each file shows
    orphans,        \* what #orphaned-comments shows
    banner,         \* the page tells the user to reload it
    fetch,          \* the reads under way, oldest first; the page's own when loading
    torn            \* history: the page, or the fragment last due, was lost, or put
                    \* in torn

room == <<page, base, strip, orphans, banner, fetch, torn>>
allVars == <<vars, room>>

Shown == SUBSET (Id \X State)
\* torn: overtaken by a later fragment, or its comments could not be read.
Fetch == [at : {"diff", "comments", "rows", "done"}, diff : Content \cup {None},
          view : Content \cup {None}, rows : [Id -> Comment \cup {None}], torn : BOOLEAN]

NoRows == [i \in Id |-> None]
NewFetch == [at |-> "diff", diff |-> None, view |-> None, rows |-> NoRows, torn |-> FALSE]

RoomInit ==
    /\ Init
    /\ page = "closed" /\ base = Empty
    /\ strip = [f \in File |-> {}] /\ orphans = {} /\ banner = FALSE
    /\ fetch = <<>> /\ torn = FALSE

Blank ==
    /\ base' = Empty /\ strip' = [f \in File |-> {}] /\ orphans' = {} /\ banner' = FALSE
    /\ torn' = FALSE

\* A page load, also location.reload(): the old page's stream is closed.
Load ==
    /\ page' = "loading"
    /\ Blank
    /\ fetch' = <<NewFetch>>
    /\ feed' = <<>> /\ subscribed' = FALSE /\ missed' = FALSE /\ untold' = {}

OpenRoom ==
    /\ page \in {"closed", "over"} /\ page = "over" => edits < MaxEdits
    /\ Load
    /\ UNCHANGED <<engine, store, call, history, edits, troubles>>

-----------------------------------------------------------------------------
(* The three reads of handleRoom and handleFragmentComments.               *)

At(k, s) == k \in DOMAIN fetch /\ fetch[k].at = s

Dropped(k) == [n \in 1 .. Len(fetch) - 1 |-> IF n < k THEN fetch[n] ELSE fetch[n + 1]]

\* What began before k and is put in after it, or although k never is.
Overtake(k) == [n \in DOMAIN Dropped(k) |->
                    IF n < k THEN [Dropped(k)[n] EXCEPT !.torn = TRUE] ELSE Dropped(k)[n]]

\* 404: the page says so; a fragment is not put in.
NotFound(k) ==
    /\ fetch' = Dropped(k)
    /\ page' = IF page = "loading" THEN "closed" ELSE page

ReadDiff(k) ==
    /\ At(k, "diff")
    /\ IF cache[Room] = None THEN NotFound(k)
       ELSE /\ fetch' = [fetch EXCEPT ![k].at = "comments", ![k].diff = cache[Room]]
            /\ UNCHANGED page
    /\ UNCHANGED <<base, strip, orphans, banner, torn, vars>>

\* An unknown worktree is an error here, which both handlers ignore.
ReadView(k) ==
    /\ At(k, "comments")
    /\ fetch' = [fetch EXCEPT ![k].at = IF cache[Room] = None THEN "done" ELSE "rows",
                              ![k].view = cache[Room]]
    /\ UNCHANGED <<page, base, strip, orphans, banner, torn, vars>>

ReadRows(k) ==
    /\ At(k, "rows")
    /\ fetch' = [fetch EXCEPT ![k].at = "done",
                              ![k].rows = [i \in Id |-> IF i \in Of(Room) THEN rows[i] ELSE None]]
    /\ UNCHANGED <<page, base, strip, orphans, banner, torn, vars>>

\* The store cannot be read: both handlers ignore this error too, and show no
\* comments.  jsonStore answers from its map and never fails.
ReadRowsFails(k) ==
    /\ At(k, "rows") /\ backend = "sqlite" /\ Trouble
    /\ fetch' = [fetch EXCEPT ![k].at = "done", ![k].torn = TRUE]
    /\ UNCHANGED <<page, base, strip, orphans, banner, torn, engine, store, call, stream,
                   history, edits>>

\* fileCommentGroups: the comments of a file, whatever Engine.Comments says of it.
StripOf(q, f) == {<<i, q.rows[i].state>> : i \in {j \in Id : q.rows[j] # None /\ q.rows[j].file = f}}

\* orphanedComments: those whose file Engine.Comments did not find in the diff.
OrphansOf(q) == UNION {StripOf(q, f) : f \in {g \in File : q.view # None /\ q.view[g] = Same}}

Files(d) == {f \in File : d[f] # Same}

\* The page arrives, its script runs and opens the stream.
Loaded ==
    /\ page = "loading" /\ At(1, "done")
    /\ LET q == fetch[1] IN
        /\ base' = q.diff
        /\ strip' = [f \in File |-> IF f \in Files(q.diff) THEN StripOf(q, f) ELSE {}]
        /\ orphans' = OrphansOf(q)
        /\ torn' = q.torn
    /\ page' = "open" /\ fetch' = <<>> /\ banner' = FALSE
    /\ subscribed' = TRUE
    /\ UNCHANGED <<engine, store, call, feed, missed, untold, history, edits, troubles>>

\* Broken on purpose: a file without a container is passed over.
ApplyQuietly(k) ==
    /\ page = "open" /\ At(k, "done")
    /\ LET q == fetch[k] IN
        /\ strip' = [f \in File |-> IF f \in Files(base) \cap Files(q.diff)
                                    THEN StripOf(q, f) ELSE strip[f]]
        /\ orphans' = OrphansOf(q)
        /\ torn' = q.torn
    /\ fetch' = Overtake(k)
    /\ UNCHANGED <<page, base, banner, vars>>

\* applyCommentsFragment: every file of the fragment goes into its container,
\* and a file without one raises the banner.
Apply(k) ==
    /\ page = "open" /\ At(k, "done")
    /\ LET q == fetch[k] IN
        /\ strip' = [f \in File |-> IF f \in Files(base) \cap Files(q.diff)
                                    THEN StripOf(q, f) ELSE strip[f]]
        /\ orphans' = OrphansOf(q)
        /\ banner' = (banner \/ Files(q.diff) \ Files(base) # {})
        /\ torn' = q.torn
    /\ fetch' = Overtake(k)
    /\ UNCHANGED <<page, base, vars>>

\* The connection fails: the promise is rejected, nothing is put in.
FetchFails(k) ==
    /\ Trouble
    /\ k \in DOMAIN fetch
    /\ fetch' = Overtake(k)
    /\ page' = IF page = "loading" THEN "closed" ELSE page
    /\ torn' = (page = "open")
    /\ UNCHANGED <<base, strip, orphans, banner, engine, store, call, stream, history, edits>>

-----------------------------------------------------------------------------
(* The event stream.                                                       *)

refreshComments == fetch' = Append(fetch, NewFetch)

\* hasOpenDraft decides whether a changed diff reloads the page at once.
HandleServerEvent ==
    /\ page = "open" /\ feed # <<>> /\ Len(fetch) < MaxFetches
    /\ LET e == Head(feed) IN
        \/ /\ e.type = "worktree.removed"
           /\ page' = "over" /\ fetch' = <<>> /\ Blank
           /\ feed' = <<>> /\ subscribed' = FALSE /\ missed' = FALSE /\ untold' = {}
        \/ /\ e.type = "diff.ready" /\ e.diff # base
           /\ Load
        \/ /\ e.type # "worktree.removed"
           /\ refreshComments
           /\ banner' = (banner \/ (e.type = "diff.ready" /\ e.diff # base))
           /\ feed' = Tail(feed) /\ missed' = FALSE /\ untold' = {}
           /\ UNCHANGED <<page, base, strip, orphans, subscribed, torn>>
    /\ UNCHANGED <<engine, store, call, history, edits, troubles>>

\* The stream breaks; EventSource opens it again, and nothing is fetched then.
Disconnect ==
    /\ subscribed /\ Trouble
    /\ subscribed' = FALSE /\ feed' = <<>> /\ missed' = TRUE
    /\ UNCHANGED <<engine, store, call, untold, history, edits, room>>

Reconnect ==
    /\ page = "open" /\ ~ subscribed
    /\ subscribed' = TRUE
    /\ UNCHANGED <<engine, store, call, feed, missed, untold, history, edits, troubles, room>>

\* The requests under way die with the daemon.
RoomRestart ==
    /\ Restart
    /\ page' = IF page = "loading" THEN "closed" ELSE page
    /\ fetch' = <<>>
    /\ UNCHANGED <<base, strip, orphans, banner, torn>>

RoomNext ==
    \/ (WorktreeNext \/ ApproveClears \/ ApproveClearFails \/ ApproveForgets \/ CallNext)
       /\ UNCHANGED room
    \/ RoomRestart
    \/ OpenRoom \/ Loaded \/ HandleServerEvent \/ Disconnect \/ Reconnect
    \/ \E k \in 1 .. MaxFetches :
          \/ ReadDiff(k) \/ ReadView(k) \/ ReadRows(k) \/ ReadRowsFails(k)
          \/ Apply(k) \/ FetchFails(k)

RoomSpec == RoomInit /\ [][RoomNext]_allVars

-----------------------------------------------------------------------------

RoomTypeOK ==
    /\ TypeOK
    /\ page \in {"closed", "loading", "open", "over"}
    /\ base \in Content
    /\ strip \in [File -> Shown] /\ orphans \in Shown
    /\ banner \in BOOLEAN /\ torn \in BOOLEAN
    /\ fetch \in Seq(Fetch) /\ Len(fetch) <= MaxFetches
    /\ page = "loading" => Len(fetch) = 1
    /\ page \in {"closed", "over"} => fetch = <<>>

\* Nothing that the page has yet to hear of or to put in.
Quiet ==
    /\ page = "open" /\ subscribed /\ fetch = <<>> /\ feed = <<>>
    /\ ~ missed /\ ~ torn
    /\ cache[Room] # None
    /\ \A c \in Caller : call[c].at = "publish" => call[c].wt # Room
    /\ approve.wt # Room

OnPage == orphans \cup UNION {strip[f] : f \in Files(base)}

(* Once the page has caught up with its events, every comment the store has  *)
(* for its worktree is on it, with its present state, in the strip of its    *)
(* file or among the orphans, or the page asks to be reloaded: although the  *)
(* diff, the cache and the store are read one after another, and the         *)
(* containers are those of the day the page was loaded (fragments.go:37-49,  *)
(* app.js:431-465).  Three things the page learns of with a later event      *)
(* only: an event it did not get, because its stream was not open yet        *)
(* (events between its reads and its script's EventSource), had broken or    *)
(* was full; a fragment that was lost, came after a later one, or whose read *)
(* of the store failed (missed, torn: Quiet waits for the event); and what a *)
(* failed write has left in jsonStore's map (untold).                        *)
(* (And every variable has its type.)                                        *)
RoomInSync ==
    /\ RoomTypeOK
    /\ Quiet => banner \/ \A i \in Of(Room) :
          i \notin untold => <<i, rows[i].state>> \in OnPage
=============================================================================
