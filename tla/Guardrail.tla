----------------------------- MODULE Guardrail -----------------------------
(***************************************************************************)
(* The rule language of internal/guardrail: what makes a list of rules     *)
(* valid (Compile), how a repository's pack changes the global list        *)
(* (Merge), what a list finds in a diff (Eval), and the glob matcher.      *)
(*                                                                         *)
(* A path and a glob are sequences of characters.  A regular expression is *)
(* a name; a text says which names match it and which tokens it has, with  *)
(* their length and entropy.  Messages are left out: none carries what was *)
(* matched.                                                                *)
(***************************************************************************)
EXTENDS Naturals, Integers, Sequences, FiniteSets, SequencesExt, FiniteSetsExt

CONSTANTS
    ScanCap,    \* maxAddedLinesScanned (5000 in the code)
    Regexps     \* the added_patterns that compile

\* Rule, with nothing set.  pathGlob is <<>> when unset; a ratio is a whole number.
NoRule == [name |-> "", severity |-> "", pathGlob |-> <<>>, pathGlobs |-> {},
           exclude |-> {}, status |-> "", binary |-> FALSE, minNetDeleted |-> 0,
           minChanged |-> 0, pattern |-> "", minEntropy |-> 0, minTokenLen |-> 0,
           ratio |-> 0, minFiles |-> 0, minTotal |-> 0]

\* A rule has these fields and no other.
IsRule(r) == r = [x \in DOMAIN NoRule |-> r[x]]

-----------------------------------------------------------------------------
(* Globs.                                                                  *)

Literal(c) == [kind |-> "literal", char |-> c]
Question == [kind |-> "?", char |-> ""]
Star == [kind |-> "*", char |-> ""]
DoubleStar == [kind |-> "**", char |-> ""]

At(s, i) == IF i \in DOMAIN s THEN s[i] ELSE ""

\* globTokenize: "**" takes a slash that follows it along.
Tokenize(p) ==
    LET from[i \in 1 .. Len(p) + 3] ==
          IF i > Len(p) THEN <<>>
          ELSE IF p[i] = "*" /\ At(p, i + 1) = "*"
               THEN <<DoubleStar>> \o from[IF At(p, i + 2) = "/" THEN i + 3 ELSE i + 2]
          ELSE IF p[i] = "*" THEN <<Star>> \o from[i + 1]
          ELSE IF p[i] = "?" THEN <<Question>> \o from[i + 1]
          ELSE <<Literal(p[i])>> \o from[i + 1]
    IN  from[1]

\* Broken on purpose: "*" that runs over a slash.
NextRowLoose(tok, prev, path) ==
    LET cur[j \in 0 .. Len(path)] ==
          CASE tok.kind \in {"**", "*"} -> prev[j] \/ (j > 0 /\ cur[j - 1])
            [] tok.kind = "?"  -> j > 0 /\ path[j] # "/" /\ prev[j - 1]
            [] OTHER           -> j > 0 /\ path[j] = tok.char /\ prev[j - 1]
    IN  cur

\* One row of globTokensMatch: cur[j] says that the tokens up to this one match
\* the first j characters, prev that the tokens before it do.
NextRow(tok, prev, path) ==
    LET cur[j \in 0 .. Len(path)] ==
          CASE tok.kind = "**" -> prev[j] \/ (j > 0 /\ cur[j - 1])
            [] tok.kind = "*"  -> prev[j] \/ (j > 0 /\ path[j] # "/" /\ cur[j - 1])
            [] tok.kind = "?"  -> j > 0 /\ path[j] # "/" /\ prev[j - 1]
            [] OTHER           -> j > 0 /\ path[j] = tok.char /\ prev[j - 1]
    IN  cur

GlobTokensMatch(toks, path) ==
    LET row[i \in 0 .. Len(toks)] ==
          IF i = 0 THEN [j \in 0 .. Len(path) |-> j = 0]
          ELSE NextRow(toks[i], row[i - 1], path)
    IN  row[Len(toks)][Len(path)]

GlobMatch(pattern, path) == GlobTokensMatch(Tokenize(pattern), path)

\* What GlobMatch's comment says of a pattern, character by character: where
\* the rest of the pattern may go on after a run of characters.
GlobMeans(pattern, path) ==
    LET m == Len(pattern)
        n == Len(path)
        reads[i \in 1 .. m + 3] ==
          [j \in 1 .. n + 1 |->
            CASE i > m -> j = n + 1
              [] i <= m /\ pattern[i] = "*" /\ At(pattern, i + 1) = "*" ->
                   \E k \in j .. n + 1 :
                      reads[IF At(pattern, i + 2) = "/" THEN i + 3 ELSE i + 2][k]
              [] i <= m /\ pattern[i] = "*" /\ At(pattern, i + 1) # "*" ->
                   \E k \in j .. n + 1 :
                      (\A l \in j .. k - 1 : path[l] # "/") /\ reads[i + 1][k]
              [] OTHER ->
                   /\ j <= n
                   /\ IF pattern[i] = "?" THEN path[j] # "/" ELSE path[j] = pattern[i]
                   /\ reads[i + 1][j + 1]]
    IN  reads[1][1]

-----------------------------------------------------------------------------
(* Which lists of rules are valid.                                         *)

HasFileCond(r) ==
    \/ r.pathGlob # <<>> \/ r.pathGlobs # {} \/ r.status # "" \/ r.binary
    \/ r.minNetDeleted > 0 \/ r.minChanged > 0 \/ r.pattern # "" \/ r.minEntropy > 0

HasWorktreeCond(r) == r.ratio > 0 \/ r.minFiles > 0 \/ r.minTotal > 0

NegativeThreshold(r) ==
    \E n \in {r.minNetDeleted, r.minChanged, r.minEntropy, r.ratio, r.minFiles,
              r.minTotal} : n < 0

\* What Compile asks of one rule.
Valid(r) ==
    /\ r.severity \in {"", "warn", "danger"}
    /\ ~NegativeThreshold(r)
    /\ r.pathGlob = <<>> \/ r.pathGlobs = {}
    /\ HasWorktreeCond(r) => ~HasFileCond(r) /\ r.exclude = {}
    /\ r.minEntropy > 0 => r.minTokenLen >= 8
    /\ r.pattern = "" \/ r.pattern \in Regexps

\* A nameless rule is named after its place in the list.
Named(rules) ==
    [i \in DOMAIN rules |->
       IF rules[i].name # "" THEN rules[i]
       ELSE [rules[i] EXCEPT !.name = "rule-" \o ToString(i)]]

Distinct(rules) == \A i, j \in DOMAIN rules : rules[i].name = rules[j].name => i = j

Compiles(rules) ==
    /\ Distinct(Named(rules))
    /\ \A i \in DOMAIN rules : Valid(rules[i])

-----------------------------------------------------------------------------
(* Packs.                                                                  *)

Tagged(rules, source) == [i \in DOMAIN rules |-> [rule |-> rules[i], source |-> source]]

\* Broken on purpose: of two rules of a pack with one name the last one wins.
MergeLast(global, source, pack) ==
    LET kept == SelectSeq(global, LAMBDA r : r.name \notin pack.disable)
        Wins(i) == \A j \in i + 1 .. Len(pack.rules) :
                      pack.rules[j].name # pack.rules[i].name
        last == SelectSeq([i \in DOMAIN pack.rules |-> i], LAMBDA i : Wins(i))
        names == {r.name : r \in ToSet(pack.rules)}
    IN  SelectSeq(Tagged(kept, source), LAMBDA t : t.rule.name \notin names)
          \o Tagged([k \in DOMAIN last |-> pack.rules[last[k]]], "pack")

\* The elements of s that are in S, in their order.
Select(s, S) ==
    LET of[i \in 0 .. Len(s)] ==
          IF i = 0 THEN <<>>
          ELSE IF s[i] \in S THEN Append(of[i - 1], s[i]) ELSE of[i - 1]
    IN  of[Len(s)]

\* Merge: the first rule of the pack with the name of a global rule that is not
\* disabled takes its place; every other one is added at the end.
Merge(global, source, pack) ==
    LET kept == Select(global, {r \in ToSet(global) : r.name \notin pack.disable})
        First(i) == \A j \in 1 .. i - 1 : pack.rules[j].name # pack.rules[i].name
        Replaces(i, r) == First(i) /\ pack.rules[i].name = r.name
        added == Select([i \in DOMAIN pack.rules |-> i],
                        {i \in DOMAIN pack.rules : \A r \in ToSet(kept) : ~Replaces(i, r)})
    IN  [k \in DOMAIN kept |->
           LET by == {i \in DOMAIN pack.rules : Replaces(i, kept[k])} IN
           IF by = {} THEN [rule |-> kept[k], source |-> source]
           ELSE [rule |-> pack.rules[CHOOSE i \in by : TRUE], source |-> "pack"]]
        \o Tagged([k \in DOMAIN added |-> pack.rules[added[k]]], "pack")

\* The names Compile gives the merged list.
Renamed(tagged) ==
    LET named == Named([i \in DOMAIN tagged |-> tagged[i].rule])
    IN  [i \in DOMAIN tagged |-> [tagged[i] EXCEPT !.rule = named[i]]]

-----------------------------------------------------------------------------
(* What the rules find in a diff.                                          *)

SeverityOrDefault(r) == IF r.severity = "" THEN "warn" ELSE r.severity

\* Stats of the diff.
Total(diff, field) == FoldFunction(+, 0, [i \in DOMAIN diff |-> diff[i][field]])

\* worktreeMatches.
WorktreeMatches(r, add, del, files) ==
    /\ r.ratio > 0 => del > 0 /\ add < del /\ del >= r.ratio * (IF add > 1 THEN add ELSE 1)
    /\ r.minFiles > 0 => files >= r.minFiles
    /\ r.minTotal > 0 => add + del >= r.minTotal

AddedPatternMatches(r, text) == r.pattern \in text.matches

HasHighEntropyToken(text, minLen, minEntropy) ==
    \E t \in text.tokens : t.len >= minLen /\ t.entropy >= minEntropy

\* scanContent: the matching lines among the first ScanCap added ones.
Matching(r, f) ==
    LET lines == FlattenSeq([i \in DOMAIN f.hunks |-> f.hunks[i].lines])
        added == SelectSeq(lines, LAMBDA l : l.kind = "add")
        seen == SubSeq(added, 1, IF Len(added) < ScanCap THEN Len(added) ELSE ScanCap)
    IN  SelectSeq(seen, LAMBDA l :
           /\ r.pattern # "" => AddedPatternMatches(r, l.text)
           /\ r.minEntropy > 0 => HasHighEntropyToken(l.text, r.minTokenLen, r.minEntropy))

HasContentCond(r) == r.pattern # "" \/ r.minEntropy > 0

\* fileMatches.
FileMatches(r, f) ==
    /\ r.pathGlob # <<>> => GlobMatch(r.pathGlob, f.path)
    /\ r.pathGlobs # {} => \E p \in r.pathGlobs : GlobMatch(p, f.path)
    /\ \A p \in r.exclude : ~GlobMatch(p, f.path)
    /\ r.status # "" => f.status = r.status
    /\ r.binary => f.binary
    /\ r.minNetDeleted > 0 => f.del - f.add >= r.minNetDeleted
    /\ r.minChanged > 0 => f.add + f.del >= r.minChanged
    /\ HasContentCond(r) => ~f.binary /\ Matching(r, f) # <<>>

Line(r, f) == IF HasContentCond(r) THEN Head(Matching(r, f)).newNum ELSE 0

\* Engine.Eval: a hit for the whole diff, or one for each file that trips the rule.
Eval(rules, diff) ==
    LET add == Total(diff, "add")
        del == Total(diff, "del")
        wide == {r \in rules : /\ HasWorktreeCond(r)
                               /\ WorktreeMatches(r, add, del, Len(diff))}
        narrow == {r \in rules : ~HasWorktreeCond(r) /\ HasFileCond(r)}
    IN  {[rule |-> r.name, severity |-> SeverityOrDefault(r), file |-> <<>>, line |-> 0] :
            r \in wide}
        \cup UNION {{[rule |-> r.name, severity |-> SeverityOrDefault(r),
                      file |-> f.path, line |-> Line(r, f)] :
                        f \in {g \in ToSet(diff) : FileMatches(r, g)}} :
                    r \in narrow}
=============================================================================
