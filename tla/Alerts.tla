------------------------------- MODULE Alerts -------------------------------
(***************************************************************************)
(* What the desktop notifier promises (internal/notify), without its       *)
(* channel, window, groups and storms.                                     *)
(*                                                                         *)
(* A hit is taken on only when it has been quiet for its cooldown, and the *)
(* user is owed a notification of its worktree from then on.  Telling of   *)
(* some worktrees settles all that is owed for them at once.  Nothing else *)
(* changes what is owed: no hit is taken on and forgotten, and none is told*)
(* twice.                                                                  *)
(***************************************************************************)
EXTENDS Naturals

CONSTANTS
    Worktree,
    Loud,       \* the rules whose severity passes the floor
    Cooldown    \* ticks for which a hit that was taken on is not again

Hit == Worktree \X Loud

VARIABLES
    owed,       \* hits of each worktree taken on and not told of yet
    quiet,      \* ticks each hit must still wait
    told        \* the worktrees the last step told of

Init ==
    /\ owed = [w \in Worktree |-> 0]
    /\ quiet = [h \in Hit |-> 0]
    /\ told = {}

Accept(h) ==
    /\ quiet[h] = 0
    /\ owed' = [owed EXCEPT ![h[1]] = @ + 1]
    /\ quiet' = [quiet EXCEPT ![h] = Cooldown]
    /\ told' = {}

Tell(S) ==
    /\ S # {}
    /\ \A w \in S : owed[w] > 0
    /\ owed' = [w \in Worktree |-> IF w \in S THEN 0 ELSE owed[w]]
    /\ told' = S
    /\ UNCHANGED quiet

Tick ==
    /\ quiet' = [h \in Hit |-> IF quiet[h] > 0 THEN quiet[h] - 1 ELSE 0]
    /\ told' = {}
    /\ UNCHANGED owed

\* Steps that are the notifier's own business.
Quiet == told' = {} /\ UNCHANGED <<owed, quiet>>

Next ==
    \/ \E h \in Hit : Accept(h)
    \/ \E S \in SUBSET Worktree : Tell(S)
    \/ Tick
    \/ Quiet

Spec == Init /\ [][Next]_<<owed, quiet, told>>
=============================================================================
