----------------------------- MODULE DiffParse -----------------------------
(***************************************************************************)
(* diffparse.Parse: unified diff text to files, hunks and numbered lines.  *)
(*                                                                         *)
(* A line of the text is a record: what git prints it as ("is"), and what  *)
(* it carries.  A line of a hunk has a mark (+, - or a space) and a text;  *)
(* of a text the parser can be confused by, "starts" tells what it begins  *)
(* with, so that a deleted "-- " line looks like a "--- " header.          *)
(* A path is a sequence of characters.  The quoting of odd characters,     *)
(* control bytes and a hunk's function name are left out.                  *)
(***************************************************************************)
EXTENDS Naturals, Sequences, FiniteSets, SequencesExt

Nobody == [is |-> "no file"]

StripPrefix(p) ==
    IF Len(p) >= 2 /\ p[1] \in {"a", "b"} /\ p[2] = "/" THEN SubSeq(p, 3, Len(p)) ELSE p

\* parseDiffGitPaths: cut at the first space, wherever that is.
DiffGitPaths(ln) ==
    LET rest == <<"a", "/">> \o ln.old \o <<" ", "b", "/">> \o ln.new
        cut == CHOOSE i \in DOMAIN rest :
                  rest[i] = " " /\ \A j \in 1 .. i - 1 : rest[j] # " "
    IN  [old |-> StripPrefix(SubSeq(rest, 1, cut - 1)),
         new |-> StripPrefix(SubSeq(rest, cut + 1, Len(rest)))]

\* DiffFile, of a "diff --git" line.
NewFile(ln) ==
    [path |-> DiffGitPaths(ln).new, oldPath |-> DiffGitPaths(ln).old,
     status |-> "modified", binary |-> FALSE, blobs |-> <<>>, hunks |-> <<>>,
     add |-> 0, del |-> 0]

\* strings.HasPrefix of "--- " and "+++ ".
LooksOld(ln) == ln.is = "---" \/ (ln.is = "body" /\ ln.mark = "-" /\ ln.text.starts = "-- ")
LooksNew(ln) == ln.is = "+++" \/ (ln.is = "body" /\ ln.mark = "+" /\ ln.text.starts = "++ ")
PathOn(ln) == IF ln.is = "body" THEN <<"?">> ELSE StripPrefix(ln.path)

-----------------------------------------------------------------------------
(* One line, to the file it belongs to.                                    *)

InHunk(f) == f.hunks # <<>>

\* Broken on purpose: a header line is one wherever it stands.
IsHeaderAnywhere(f, ln) == ln.is # "body" \/ LooksOld(ln) \/ LooksNew(ln)

IsHeader(f, ln) == ~InHunk(f) /\ (ln.is # "body" \/ LooksOld(ln) \/ LooksNew(ln))

\* The lines before a file's first hunk; /dev/null is <<>>.
Header(f, ln) ==
    CASE ln.is = "new file"     -> [f EXCEPT !.status = "added", !.oldPath = <<>>]
      [] ln.is = "deleted file" -> [f EXCEPT !.status = "deleted"]
      [] ln.is = "rename from"  -> [f EXCEPT !.status = "renamed", !.oldPath = ln.path]
      [] ln.is = "rename to"    -> [f EXCEPT !.status = "renamed", !.path = ln.path]
      [] ln.is = "index"        -> [f EXCEPT !.blobs = ln.blobs]
      [] ln.is = "Binary files" -> [f EXCEPT !.binary = TRUE]
      [] LooksOld(ln) /\ PathOn(ln) # <<>> ->
            [f EXCEPT !.oldPath = PathOn(ln),
                      !.path = IF f.status = "deleted" THEN PathOn(ln) ELSE @]
      [] LooksNew(ln) /\ PathOn(ln) # <<>> -> [f EXCEPT !.path = PathOn(ln)]
      [] OTHER -> f

\* "@@": the hunk that is open takes the lines that follow; next numbers them.
Hunk(f, ln) ==
    [f EXCEPT !.hunks = Append(@, [oldStart |-> ln.old, newStart |-> ln.new, lines |-> <<>>])]

\* A line of a hunk is numbered on the sides it is on.
Body(f, nums, ln) ==
    LET kind == CASE ln.mark = "+" -> "add" [] ln.mark = "-" -> "del" [] OTHER -> "context"
        line == [kind |-> kind, text |-> ln.text,
                 oldNum |-> IF kind = "add" THEN 0 ELSE nums.old,
                 newNum |-> IF kind = "del" THEN 0 ELSE nums.new]
        n == Len(f.hunks)
    IN  [f EXCEPT !.hunks[n].lines = Append(@, line),
                  !.add = IF kind = "add" THEN @ + 1 ELSE @,
                  !.del = IF kind = "del" THEN @ + 1 ELSE @]

Numbers(nums, ln) ==
    CASE ln.is = "@@" -> [old |-> ln.old, new |-> ln.new]
      [] ln.is = "body" -> [old |-> IF ln.mark = "+" THEN nums.old ELSE nums.old + 1,
                            new |-> IF ln.mark = "-" THEN nums.new ELSE nums.new + 1]
      [] OTHER -> nums

Flushed(s) == IF s.cur = Nobody THEN s.files ELSE Append(s.files, s.cur)

Take(s, ln) ==
    CASE ln.is = "diff --git" -> [s EXCEPT !.files = Flushed(s), !.cur = NewFile(ln)]
      [] ln.is # "diff --git" /\ s.cur = Nobody -> s
      [] ln.is = "@@" /\ s.cur # Nobody ->
            [s EXCEPT !.cur = Hunk(s.cur, ln), !.nums = Numbers(@, ln)]
      [] ln.is \notin {"diff --git", "@@"} /\ s.cur # Nobody /\ IsHeader(s.cur, ln) ->
            [s EXCEPT !.cur = Header(s.cur, ln)]
      [] ln.is = "body" /\ s.cur # Nobody /\ InHunk(s.cur) /\ ~IsHeader(s.cur, ln) ->
            [s EXCEPT !.cur = Body(s.cur, s.nums, ln), !.nums = Numbers(@, ln)]
      [] OTHER -> s

\* The loop of Parse over the lines of a text, from s on.
Scan(s, text) ==
    LET after[i \in 0 .. Len(text)] == IF i = 0 THEN s ELSE Take(after[i - 1], text[i])
    IN  after[Len(text)]

State(files, cur, nums) == [files |-> files, cur |-> cur, nums |-> nums]

Parse(text) == Flushed(Scan(State(<<>>, Nobody, [old |-> 0, new |-> 0]), text))

-----------------------------------------------------------------------------
(* git's side: how a change is printed, and what is meant by it.           *)

\* A change has an old and a new path, a status, the blobs unless they are the
\* same, and is binary or has hunks: [old, new, body], body of marks and texts.
StatusLines(ch) ==
    CASE ch.status = "added"   -> <<[is |-> "new file"]>>
      [] ch.status = "deleted" -> <<[is |-> "deleted file"]>>
      [] ch.status = "renamed" -> <<[is |-> "rename from", path |-> ch.old],
                                    [is |-> "rename to", path |-> ch.new]>>
      [] OTHER                 -> <<>>

IndexLines(ch) == IF ch.blobs = <<>> THEN <<>> ELSE <<[is |-> "index", blobs |-> ch.blobs]>>

PathLines(ch) ==
    IF ch.binary THEN <<[is |-> "Binary files"]>>
    ELSE IF ch.hunks = <<>> THEN <<>>
    ELSE <<[is |-> "---", path |-> IF ch.status = "added" THEN <<>> ELSE <<"a", "/">> \o ch.old],
           [is |-> "+++", path |-> IF ch.status = "deleted" THEN <<>> ELSE <<"b", "/">> \o ch.new]>>

HunkLines(h) ==
    <<[is |-> "@@", old |-> h.old, new |-> h.new]>>
    \o [j \in DOMAIN h.body |-> [is |-> "body", mark |-> h.body[j].mark, text |-> h.body[j].text]]

Printed(ch) ==
    <<[is |-> "diff --git", old |-> ch.old, new |-> ch.new]>>
    \o StatusLines(ch) \o IndexLines(ch) \o PathLines(ch)
    \o FlattenSeq([i \in DOMAIN ch.hunks |-> HunkLines(ch.hunks[i])])

TextOf(changes) == FlattenSeq([i \in DOMAIN changes |-> Printed(changes[i])])

\* What git prints a change of: only a rename has two paths, only a file that is
\* not binary has hunks.
GitChange(ch) ==
    /\ ch.status \in {"modified", "added", "deleted", "renamed"}
    /\ ch.old \in Seq(ToSet(ch.old)) /\ ch.new \in Seq(ToSet(ch.new))
    /\ ch.old # <<>> /\ ch.new # <<>>
    /\ ch.status # "renamed" => ch.old = ch.new
    /\ ch.binary \in BOOLEAN /\ (ch.binary => ch.hunks = <<>>)
    /\ ch.hunks \in Seq(ToSet(ch.hunks))
    /\ \A h \in ToSet(ch.hunks) :
          /\ h.old \in Nat /\ h.new \in Nat
          /\ h.body \in Seq(ToSet(h.body))
          /\ \A l \in ToSet(h.body) : l.mark \in {"+", "-", " "}

\* How many of the first n lines of a hunk are on the side that lacks "mark".
On(h, n, mark) == Cardinality({j \in 1 .. n : h.body[j].mark # mark})

\* How many lines of a change have a mark.
Marked(ch, mark) ==
    Cardinality(UNION {{<<i, j>> : j \in {l \in DOMAIN ch.hunks[i].body :
                                             ch.hunks[i].body[l].mark = mark}} :
                       i \in DOMAIN ch.hunks})

MeantLine(h, j) ==
    [kind |-> CASE h.body[j].mark = "+" -> "add" [] h.body[j].mark = "-" -> "del"
                [] OTHER -> "context",
     text |-> h.body[j].text,
     oldNum |-> IF h.body[j].mark = "+" THEN 0 ELSE h.old + On(h, j - 1, "+"),
     newNum |-> IF h.body[j].mark = "-" THEN 0 ELSE h.new + On(h, j - 1, "-")]

MeantHunk(h) == [oldStart |-> h.old, newStart |-> h.new,
                 lines |-> [j \in DOMAIN h.body |-> MeantLine(h, j)]]

Meant(ch) ==
    [path |-> ch.new, oldPath |-> IF ch.status = "added" THEN <<>> ELSE ch.old,
     status |-> ch.status, binary |-> ch.binary, blobs |-> ch.blobs,
     hunks |-> [i \in DOMAIN ch.hunks |-> MeantHunk(ch.hunks[i])],
     add |-> Marked(ch, "+"), del |-> Marked(ch, "-")]

\* A path with a space that only the "diff --git" line tells.
Provisional(ch) ==
    /\ ch.hunks = <<>> /\ ch.status # "renamed"
    /\ \E i \in DOMAIN ch.new : ch.new[i] = " "

\* A change read as it was meant, but for paths that are provisional.
AsMeant(f, ch) ==
    \/ f = Meant(ch)
    \/ /\ Provisional(ch)
       /\ [f EXCEPT !.path = Meant(ch).path, !.oldPath = Meant(ch).oldPath] = Meant(ch)
=============================================================================
