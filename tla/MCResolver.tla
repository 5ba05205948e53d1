----------------------------- MODULE MCResolver -----------------------------
(* Constants for the model checking of Resolver.                           *)
EXTENDS Resolver

CONSTANTS Letters, MaxGlob, MaxPath

MCGlobs == UNION {[1 .. n -> Letters \cup {"*", "?"}] : n \in 1 .. MaxGlob}
MCPaths == UNION {[1 .. n -> Letters] : n \in 1 .. MaxPath}

Glob(name, p) == [NoRule EXCEPT !.name = name, !.pathGlob = p]

\* A content rule, a threshold and a rule that took its name from its place.
MCGlobal ==
    <<[NoRule EXCEPT !.name = "secrets", !.severity = "danger", !.pattern = "key",
                     !.exclude = {<<"a", "/", "*">>}],
      [NoRule EXCEPT !.name = "rule-2", !.minTotal = 3],
      [NoRule EXCEPT !.name = "net", !.ratio = 2],
      [NoRule EXCEPT !.name = "random", !.minEntropy = 4, !.minTokenLen = 8]>>

Pack(disable, rules) == [parses |-> TRUE, disable |-> disable, rules |-> rules]

MCContent ==
    {Pack({}, <<Glob("new", <<"*", "*", "a">>)>>),
          [parses |-> FALSE, disable |-> {}, rules |-> <<>>],
          Pack({"secrets"}, <<[NoRule EXCEPT !.name = "rule-2", !.minFiles = 1]>>),
          \* two rules of one name, the first of them in a global rule's place
          Pack({}, <<[NoRule EXCEPT !.name = "net", !.minFiles = 1],
                     [NoRule EXCEPT !.name = "net", !.minFiles = 2]>>),
          \* a rule that mixes the two classes of conditions
          Pack({}, <<[NoRule EXCEPT !.name = "mix", !.minFiles = 1, !.binary = TRUE]>>),
          \* the nameless rule becomes rule-2, which the global list has already
          Pack({"secrets", "net"}, <<[NoRule EXCEPT !.status = "added"]>>),
          Pack({}, <<[NoRule EXCEPT !.status = "added"]>>)}

Text(starts, ms) == [starts |-> starts, matches |-> ms, tokens |-> {}]
Plain == Text("", {})
Random == [Plain EXCEPT !.tokens = {[len |-> 8, entropy |-> 4]}]
Key == Text("", {"key"})

Body1(n) == [1 .. n -> [mark : {"+", "-", " "}, text : {Plain, Text("-- ", {}), Text("++ ", {})}]]
Hunks(old, new) == {[old |-> old, new |-> new, body |-> b] : b \in Body1(1) \cup Body1(2)}

MCNames == {<<"a">>, <<"b", "/", "a">>, <<"a", " ", "a">>}

Change(old, new, status, hunks) ==
    [old |-> old, new |-> new, status |-> status, hunks |-> hunks,
     blobs |-> IF hunks = <<>> /\ status \in {"renamed", "modified"} THEN <<>>
               ELSE <<"old", "new">>,
     binary |-> FALSE]

\* A file of every status, with no text, a binary one, or one or two hunks.
MCFiles ==
    LET placed == {x \in MCNames \X MCNames \X {"modified", "added", "deleted", "renamed"} :
                      (x[1] # x[2]) = (x[3] = "renamed")}
        text == {<<>>} \cup {<<h>> : h \in Hunks(1, 1)}
                \cup {<<g, h>> : g, h \in {k \in Hunks(3, 4) : Len(k.body) = 1}}
    IN  {Change(x[1], x[2], x[3], t) : x \in placed, t \in text}
        \cup {[Change(x[1], x[2], x[3], <<>>) EXCEPT !.binary = TRUE,
                                                    !.blobs = <<"old", "new">>] : x \in placed}

\* Two files: few of the first, and one line of each.
MCChanges ==
    {<<c>> : c \in MCFiles}
    \cup {<<c, d>> : c, d \in {e \in MCFiles : /\ e.new = <<"b", "/", "a">>
                                               /\ Len(e.hunks) <= 1
                                               /\ \A i \in DOMAIN e.hunks :
                                                     Len(e.hunks[i].body) = 1}}

\* Keys beyond the first two added lines, within them, in an exempt file, after
\* a line that looks like a header, and deleted.
Line1(mark, text) == [mark |-> mark, text |-> text]
Of(path, status, body) ==
    Change(path, path, status, <<[old |-> 1, new |-> 1, body |-> body]>>)

MCDiffs ==
    {<<>>,
     <<Of(<<"a">>, "added", <<Line1("+", Plain), Line1("+", Random), Line1("+", Key)>>),
       Of(<<"b", "/", "a">>, "modified",
          <<Line1("-", Text("-- ", {"key"})), Line1("+", Text("++ ", {})), Line1("+", Key)>>)>>,
     <<Of(<<"a", "/", "a">>, "added", <<Line1("+", Key)>>)>>,
     <<Of(<<"a">>, "deleted", <<Line1("-", Key), Line1("-", Key)>>)>>}
=============================================================================
