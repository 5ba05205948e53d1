------------------------------ MODULE Resolver ------------------------------
(***************************************************************************)
(* guardrail/resolver.go: which rules judge a repository's worktrees.      *)
(*                                                                         *)
(* Refreshes, approves and GET /api/rules resolve the rules of a           *)
(* repository, at the same time, while somebody edits the pack in its main *)
(* worktree.  A resolution stats the pack, takes the lock, and uses the    *)
(* last resolution when the time and size of the file are still those; it  *)
(* reads the file otherwise.  A pack that does not parse, or whose merged  *)
(* rules do not compile, leaves the global rules in force.                 *)
(*                                                                         *)
(* One repository: resolutions of several share only the lock.             *)
(***************************************************************************)
EXTENDS Guardrail, DiffParse, TLC

CONSTANTS
    Caller,         \* goroutines that resolve
    Evaluator,      \* those that evaluate a diff with what they resolved
    Absent,         \* no file, no entry, nobody
    Global,         \* the rules of config.toml, or DefaultRules
    Content,        \* what the pack file may hold: [parses, disable, rules]
    Diffs,          \* the diffs evaluated, each a sequence of changes
    Changes,        \* those to compare Parse with what is meant on
    Globs, Paths,   \* patterns and paths to compare GlobMatch with its comment on
    MaxEdits,       \* bound: edits of the pack
    MaxTroubles     \* bound: reads that fail

ASSUME ResolverAssumption ==
    /\ Evaluator \subseteq Caller
    /\ Absent \notin Caller /\ Absent \notin Content
    /\ Compiles(Global) /\ Named(Global) = Global   \* NewResolver
    /\ \A r \in ToSet(Global) : r.name # ""
    /\ Global \in Seq(ToSet(Global))
    /\ \A k \in Content : k.rules \in Seq(ToSet(k.rules))
    /\ \A k \in Content : \A r \in ToSet(k.rules) : IsRule(r)
    /\ \A s \in Globs \cup Paths : s \in Seq(ToSet(s))
    /\ \A cs \in Changes \cup Diffs :
          cs \in Seq(ToSet(cs)) /\ \A i \in DOMAIN cs : GitChange(cs[i])
    /\ MaxEdits \in Nat /\ MaxTroubles \in Nat

VARIABLES
    file,       \* the pack file: its content and stamp (time and size), or Absent
    clock,      \* the latest stamp
    cache,      \* Resolver.cache of the repository, or Absent
    lock,       \* Resolver.mu
    call,       \* per caller: where it is, what its Stat said, what it resolved
    found,      \* the last evaluation: by which resolution, of which diff
    edits, troubles,
    blurred     \* history: the file was edited without changing its stamp

vars == <<file, clock, cache, lock, call, found, edits, troubles, blurred>>

Source == "global"
taggedGlobal == Renamed(Tagged(Global, Source))

\* resolverEntry: hash is the content, which stands for its sha1 and, with the
\* global rules, for the compiled rules made from it (see Applied).
Entry(stamp, pack, status, hash) ==
    [stamp |-> stamp, pack |-> pack, status |-> status, hash |-> hash]
NoPack == Entry(0, FALSE, "none", Absent)

Idle == [at |-> "idle", stat |-> 0, got |-> Absent]
Nothing == [by |-> NoPack, diff |-> <<>>]

\* The invariant of the types.
TypeOK ==
    /\ file = Absent \/ (file.content \in Content /\ file.stamp \in 0 .. MaxEdits)
    /\ clock \in 0 .. MaxEdits
    /\ cache = Absent \/ /\ cache.status \in {"none", "ok", "error"}
                         /\ cache.pack = (cache.status # "none")
    /\ lock \in Caller \cup {Absent}
    /\ \A c \in Caller : /\ call[c].at \in {"idle", "stat", "load", "done"}
                         /\ (call[c].at = "load") <=> (lock = c)
    /\ edits \in 0 .. MaxEdits /\ troubles \in 0 .. MaxTroubles
    /\ blurred \in BOOLEAN

Init ==
    /\ file = Absent
    /\ clock = 0
    /\ cache = Absent
    /\ lock = Absent
    /\ call = [c \in Caller |-> Idle]
    /\ found = Nothing
    /\ edits = 0 /\ troubles = 0
    /\ blurred = FALSE

-----------------------------------------------------------------------------
\* Somebody writes the pack; the stamp is coarser than the edits may be.
EditPack(c) ==
    /\ edits < MaxEdits
    /\ \E tick \in {0, 1} :
          /\ tick = 1 \/ clock > 0
          /\ clock' = clock + tick
          /\ blurred' = (tick = 0)
    /\ file' = [content |-> c, stamp |-> clock']
    /\ edits' = edits + 1
    /\ UNCHANGED <<cache, lock, call, found, troubles>>

RemovePack ==
    /\ edits < MaxEdits
    /\ file # Absent /\ file' = Absent
    /\ edits' = edits + 1
    /\ UNCHANGED <<clock, cache, lock, call, found, troubles, blurred>>

\* resolve, before the lock.
Stat(c) ==
    /\ call[c].at = "idle"
    /\ call' = [call EXCEPT ![c].at = "stat",
                            ![c].stat = IF file = Absent THEN Absent ELSE file.stamp]
    /\ UNCHANGED <<file, clock, cache, lock, found, edits, troubles, blurred>>

Resolved(c, entry) ==
    /\ cache' = entry
    /\ call' = [call EXCEPT ![c].at = "done", ![c].got = entry]

\* Broken on purpose: a pack once read is never read again.
FreshForGood(c) == cache # Absent /\ cache.pack

Fresh(c) == cache # Absent /\ cache.pack /\ cache.stamp = call[c].stat

\* resolve, under the lock, when it need not read the file.
Known(c) ==
    /\ call[c].at = "stat" /\ lock = Absent
    /\ \/ /\ call[c].stat = Absent
          /\ Resolved(c, NoPack)
       \/ /\ call[c].stat # Absent /\ Fresh(c)
          /\ Resolved(c, cache)
    /\ UNCHANGED <<file, clock, lock, found, edits, troubles, blurred>>

MustRead(c) ==
    /\ call[c].at = "stat" /\ lock = Absent
    /\ call[c].stat # Absent /\ ~Fresh(c)
    /\ lock' = c
    /\ call' = [call EXCEPT ![c].at = "load"]
    /\ UNCHANGED <<file, clock, cache, found, edits, troubles, blurred>>

\* The packs that parse and whose merged rules compile.
Accepted ==
    {k \in Content :
        /\ k.parses
        /\ LET merged == Merge(Global, Source, k)
           IN  Compiles([i \in DOMAIN merged |-> merged[i].rule])}

\* Broken on purpose: a pack that is no good leaves no rules.
AppliedOpen(content) ==
    IF content \in Accepted THEN Renamed(Merge(Global, Source, content)) ELSE <<>>

Applied(content) ==
    IF content \in Accepted THEN Renamed(Merge(Global, Source, content)) ELSE taggedGlobal

\* The rules of a resolution: its engine's, and those that Effective shows.
Rules(entry) == IF entry.status = "none" THEN taggedGlobal ELSE Applied(entry.hash)

\* Broken on purpose: a pack that is no good leaves the last resolution in
\* place, with the new stamp.
LoadsKeepingLast(c) ==
    /\ call[c].at = "load" /\ file # Absent
    /\ LET content == file.content
           new == Entry(call[c].stat, TRUE, "ok", content) IN
       Resolved(c, IF content \in Accepted \/ cache = Absent THEN new
                   ELSE [cache EXCEPT !.stamp = call[c].stat, !.pack = TRUE])
    /\ lock' = Absent
    /\ UNCHANGED <<file, clock, found, edits, troubles, blurred>>

\* loadPack: the entry has the stamp of the Stat and the content of the read.
Loads(c) ==
    /\ call[c].at = "load" /\ file # Absent
    /\ LET content == file.content IN
       Resolved(c, Entry(call[c].stat, TRUE, IF content \in Accepted THEN "ok" ELSE "error",
                         content))
    /\ lock' = Absent
    /\ UNCHANGED <<file, clock, found, edits, troubles, blurred>>

\* The file vanished since the Stat, or cannot be read.
LoadFails(c) ==
    /\ call[c].at = "load"
    /\ \/ file = Absent /\ UNCHANGED troubles
       \/ troubles < MaxTroubles /\ troubles' = troubles + 1
    /\ Resolved(c, NoPack)
    /\ lock' = Absent
    /\ UNCHANGED <<file, clock, found, edits, blurred>>

\* For's caller evaluates a diff (the hits are Eval's); Effective's answers a request.
Return(c) ==
    /\ call[c].at = "done"
    /\ \/ c \notin Evaluator /\ UNCHANGED found
       \/ /\ c \in Evaluator
          /\ \E d \in Diffs : found' = [by |-> call[c].got, diff |-> d]
    /\ call' = [call EXCEPT ![c] = Idle]
    /\ UNCHANGED <<file, clock, cache, lock, edits, troubles, blurred>>

Work(c) == Stat(c) \/ Known(c) \/ MustRead(c) \/ Loads(c) \/ LoadFails(c) \/ Return(c)

Next == \/ \E k \in Content : EditPack(k)
        \/ RemovePack
        \/ \E c \in Caller : Work(c)

\* A refresh follows every tick for ever, and every call runs to its end.
Spec == Init /\ [][Next]_vars /\ \A c \in Caller : WF_vars(Work(c))

-----------------------------------------------------------------------------
(* Properties.                                                             *)

\* What is in force for a content, said without Merge: of a good pack all the
\* rules, and the global ones it neither disables nor names.
Expected(content) ==
    LET named == {r.name : r \in ToSet(content.rules)}
        stay == {r \in ToSet(Global) : r.name \notin named \cup content.disable}
    IN  IF content \in Accepted
        THEN {[rule |-> r, source |-> Source] : r \in stay}
             \cup {[rule |-> r, source |-> "pack"] : r \in ToSet(content.rules)}
        ELSE {[rule |-> r, source |-> Source] : r \in ToSet(Global)}

\* A rule that the pack does not spell out has its name from its place.
Nameless(content, t) ==
    IF t.source = "pack" /\ t.rule \notin ToSet(content.rules)
    THEN [t EXCEPT !.rule = [@ EXCEPT !.name = ""]] ELSE t

\* The rules of an entry are those of the content it was made from: a pack that
\* is no good, or whose rules clash with the rest, changes nothing, and a good
\* one loses no rule of its own or of the global list (Merge, loadPack).
RulesInForce ==
    cache # Absent =>
        LET rules == Rules(cache) IN
        /\ Len(rules) = Cardinality(ToSet(rules))
        /\ IF cache.hash = Absent THEN ToSet(rules) = ToSet(taggedGlobal)
           ELSE {Nameless(cache.hash, t) : t \in ToSet(rules)} = Expected(cache.hash)

\* An entry that the next Stat will find fresh was made from what the file
\* holds, whatever was edited between the Stat, the lock and the read, unless
\* an edit left time and size as they were (resolve, resolver.go:125).
StampTells ==
    cache # Absent /\ cache.pack /\ file # Absent /\ cache.stamp = file.stamp =>
        cache.hash = file.content \/ blurred

\* A global rule is never lost: an evaluation has every hit of a global rule
\* but those of the rules a pack that is good as a whole disables or names, and
\* so all of them when the pack is no good (For, loadPack, Parse, Eval).  Of a
\* diff with a provisional path this is not said: a rule may go by the path.
FailsClosed ==
    LET hits == Eval({t.rule : t \in ToSet(Rules(found.by))}, Parse(TextOf(found.diff)))
        pack == found.by.hash IN
    (\A i \in DOMAIN found.diff : ~Provisional(found.diff[i])) =>
    \A r \in ToSet(Global) :
        \/ /\ pack \in Accepted
           /\ r.name \in pack.disable \cup {q.name : q \in ToSet(pack.rules)}
        \/ Eval({r}, [i \in DOMAIN found.diff |-> Meant(found.diff[i])]) \subseteq hits

\* What an evaluation rests on, over all samples: constant, so TLC computes it once.
GlobsAgree == \A p \in Globs, s \in Paths : GlobMatch(p, s) <=> GlobMeans(p, s)
ParsesBack ==
    \A cs \in Changes \cup Diffs \cup {<<>>} :
        LET files == Parse(TextOf(cs)) IN
        /\ Len(files) = Len(cs)
        /\ \A i \in DOMAIN cs : AsMeant(files[i], cs[i])

\* Where a diff is evaluated, the matcher of token rows says of every pattern and
\* path what the comments of GlobMatch and globTokenize say of them.
GlobsExact == found.diff # <<>> => GlobsAgree

\* Where a diff is evaluated, Parse gives back the changes, each as it was meant,
\* its text whatever looks like a header, its lines under their numbers; but for
\* the paths of one that only the line with the naive split tells (Parse,
\* parseDiffGitPaths).
ParseExact == found.diff # <<>> => ParsesBack

\* When the pack is no longer edited, the rules in force become and stay its
\* own, unless its last edit left time and size as they were (resolve).
Taken == IF file = Absent THEN cache # Absent /\ ~cache.pack
         ELSE blurred \/ (cache # Absent /\ cache.hash = file.content)
EditTaken == <>[]Taken
=============================================================================
