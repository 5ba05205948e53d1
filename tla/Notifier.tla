------------------------------ MODULE Notifier ------------------------------
(***************************************************************************)
(* The desktop notifier: Notifier.Run of internal/notify/notify.go over    *)
(* the coalescer of coalesce.go.                                           *)
(*                                                                         *)
(* One goroutine reads guardrail hits from its registry channel, holds     *)
(* them for a window that the first hit opens, and then fires one          *)
(* notification per worktree, or a single one for all of them when more    *)
(* than StormThreshold are waiting.  While it fires it reads nothing, and  *)
(* the registry drops what the full channel does not take.  A hit that was *)
(* taken on is not taken on again during its cooldown.                     *)
(*                                                                         *)
(* Time is counted in ticks, and the clocks as the ticks they have left: a *)
(* cooldown of 0 is one that has passed or was never started, which accept *)
(* treats alike, so that pruning passed ones changes nothing here.         *)
(***************************************************************************)
EXTENDS Naturals, Sequences

CONSTANTS
    Worktree,
    Rule,           \* (rule, file) pairs a hit may name in a worktree
    Severity,       \* of each rule: "warn" or "danger"
    Floor,          \* the configured severity
    Buffer,         \* capacity of the channel (256 in cmd/wtd)
    StormThreshold,
    Window,         \* ticks of coalesceWindow
    Cooldown,       \* ticks of Config.Cooldown
    None            \* no window

ASSUME NotifierAssumption ==
    /\ Severity \in [Rule -> {"warn", "danger"}]
    /\ Floor \in {"warn", "danger"}
    /\ Buffer \in Nat /\ StormThreshold \in Nat
    /\ Window \in Nat /\ Cooldown \in Nat \ {0}
    /\ None \notin Nat

\* passesSeverity
Loud == {r \in Rule : Floor = "warn" \/ Severity[r] = "danger"}
Hit == Worktree \X Loud

VARIABLES
    ch,         \* the channel: guardrail hits as <<worktree, rule>>
    cool,       \* ticks left of each hit's cooldown
    pending,    \* hits of each worktree taken on in this window
    order,      \* the worktrees with pending hits, in the order of the first
    window,     \* ticks left of windowC, or None
    batch,      \* hits of each worktree that the last flush is telling of
    firing,     \* its notifications not fired yet: the worktrees each names
    running,    \* Run has not returned
    told        \* history: the worktrees the last step notified of

vars == <<ch, cool, pending, order, window, batch, firing, running, told>>

TypeOK ==
    /\ ch \in Seq(Worktree \X Rule) /\ Len(ch) <= Buffer
    /\ cool \in [Hit -> 0 .. Cooldown]
    /\ pending \in [Worktree -> Nat]
    /\ order \in Seq(Worktree)
    /\ window \in 0 .. Window \cup {None}
    /\ batch \in [Worktree -> Nat]
    /\ firing \in Seq(SUBSET Worktree)
    /\ running \in BOOLEAN
    /\ told \in SUBSET Worktree

Nothing == [w \in Worktree |-> 0]
Named(s) == {s[i] : i \in DOMAIN s}

Init ==
    /\ ch = <<>>
    /\ cool = [h \in Hit |-> 0]
    /\ pending = Nothing
    /\ order = <<>>
    /\ window = None
    /\ batch = Nothing
    /\ firing = <<>>
    /\ running = TRUE
    /\ told = {}

-----------------------------------------------------------------------------
\* The registry publishes a hit, to this subscriber if there is room.
Publish(w, r) ==
    /\ Len(ch) < Buffer
    /\ ch' = Append(ch, <<w, r>>)
    /\ told' = {}
    /\ UNCHANGED <<cool, pending, order, window, batch, firing, running>>

\* Run is in its select: it is not in flushAndFire.
Selecting == running /\ firing = <<>>

\* What accept takes on: nothing within its cooldown.
Taken(h) == h[2] \in Loud /\ cool[h] = 0

\* A hit below the floor or within its cooldown is read and dropped.
Skip ==
    /\ Selecting
    /\ ch # <<>>
    /\ ~ Taken(Head(ch))
    /\ ch' = Tail(ch)
    /\ told' = {}
    /\ UNCHANGED <<cool, pending, order, window, batch, firing, running>>

\* Broken on purpose: the coalescer looks for an empty window after the hit is
\* in it, and finds none.
ArmedLate(h) == window

\* The first hit of a window starts its timer.
Armed(h) == IF order = <<>> /\ window = None THEN Window ELSE window

\* ingest and accept: the hit joins its worktree's group or starts a new one.
Ingest ==
    /\ Selecting
    /\ ch # <<>>
    /\ LET h == Head(ch) IN
          /\ Taken(h)
          /\ cool' = [cool EXCEPT ![h] = Cooldown]
          /\ pending' = [pending EXCEPT ![h[1]] = @ + 1]
          /\ order' = IF h[1] \in Named(order) THEN order ELSE Append(order, h[1])
          /\ window' = Armed(h)
    /\ ch' = Tail(ch)
    /\ told' = {}
    /\ UNCHANGED <<batch, firing, running>>

\* Broken on purpose: a storm's groups beyond the threshold are forgotten.
NotificationsFew ==
    [i \in 1 .. (IF Len(order) > StormThreshold THEN StormThreshold ELSE Len(order))
       |-> {order[i]}]

\* flush: one notification for each group, or a single one in a storm.
Notifications ==
    IF Len(order) > StormThreshold
    THEN <<Named(order)>> ELSE [i \in DOMAIN order |-> {order[i]}]

\* The window ends.
Flush ==
    /\ Selecting
    /\ window = 0
    /\ window' = None
    /\ firing' = Notifications
    /\ batch' = pending
    /\ pending' = Nothing
    /\ order' = <<>>
    /\ told' = {}
    /\ UNCHANGED <<ch, cool, running>>

\* Broken on purpose: a notification that fails is put back to the end.
FireAgain ==
    /\ running
    /\ firing # <<>>
    /\ told' = {}
    /\ firing' = Append(Tail(firing), Head(firing))
    /\ UNCHANGED <<ch, cool, pending, order, window, batch, running>>

\* One notification is executed, for as many ticks as it takes up to the
\* timeout.  An error is logged and the next one follows.
Fire ==
    /\ running
    /\ firing # <<>>
    /\ told' = Head(firing)
    /\ firing' = Tail(firing)
    /\ batch' = [w \in Worktree |-> IF w \in Head(firing) THEN 0 ELSE batch[w]]
    /\ UNCHANGED <<ch, cool, pending, order, window, running>>

\* The context is cancelled or the channel closed: what waits is not told.
Stop ==
    /\ running
    /\ running' = FALSE
    /\ told' = {}
    /\ UNCHANGED <<ch, cool, pending, order, window, batch, firing>>

Less(n) == IF n > 0 THEN n - 1 ELSE 0

\* A tick is long against a turn of the loop: a window that has ended is
\* served before the next one.
Tick ==
    /\ ~ (Selecting /\ window = 0)
    /\ cool' = [h \in Hit |-> Less(cool[h])]
    /\ window' = IF window = None THEN None ELSE Less(window)
    /\ told' = {}
    /\ UNCHANGED <<ch, pending, order, batch, firing, running>>

Next ==
    \/ \E w \in Worktree, r \in Rule : Publish(w, r)
    \/ Skip \/ Ingest \/ Flush \/ Fire \/ Stop \/ Tick

Spec == Init /\ [][Next]_vars

\* Time passes, the loop takes its turns, and an exec ends: CommandContext
\* kills it after execTimeout.
FairSpec ==
    /\ Spec
    /\ WF_vars(Flush)
    /\ WF_vars(Fire)
    /\ WF_vars(Tick)

-----------------------------------------------------------------------------
\* The hits taken on and not told of, wherever they wait.
Untold == [w \in Worktree |-> pending[w] + batch[w]]

\* The notifier implements Alerts: a key taken on is not taken on again within
\* its cooldown (accept), every hit taken on is told in exactly one
\* notification with its worktree's others, by groups or in a storm, and none
\* is lost between accept, flush and flushAndFire.
Promise == INSTANCE Alerts WITH owed <- Untold, quiet <- cool

Implements == Promise!Spec

\* A hit that waits has a running window: no order of hits, timer and firing
\* leaves a group behind that nothing will flush (Run's windowC and the
\* coalescer's windowArmed agree).
WindowArmed == \A w \in Worktree : pending[w] > 0 => window # None

\* Every hit taken on is told, unless the daemon stops first.
EveryHitTold == \A w \in Worktree : Untold[w] > 0 ~> (Untold[w] = 0 \/ ~ running)
=============================================================================
