--------------------------- MODULE ResolverProofs ---------------------------
(***************************************************************************)
(* Proofs about Resolver, for every set of callers, contents and rules and *)
(* every bound: its types, that the stamp of a resolution tells, that the  *)
(* glob matcher does what its comment says, that the diff parser gives     *)
(* back what git printed, that the rules in force are those of one         *)
(* content, and that no global rule is lost.                               *)
(*                                                                         *)
(* StampTells is not inductive: a resolution enters the cache with the     *)
(* stamp of a Stat made before the lock was taken.  What carries it is     *)
(* that no stamp is later than the file's (Stamped, CacheStamp) and that   *)
(* the file, when there, has the latest (FileStamp).                       *)
(***************************************************************************)
EXTENDS Resolver, FiniteSetTheorems, SequenceTheorems, WellFoundedInduction, TLAPS

Entries == [stamp : Nat, pack : BOOLEAN, status : {"none", "ok", "error"},
            hash : Content \cup {Absent}]

Calls == [at : {"idle", "stat", "load", "done"}, stat : Nat \cup {Absent},
          got : Entries \cup {Absent}]

CallTypes == cache \in Entries \cup {Absent} /\ call \in [Caller -> Calls]

\* The stamp that a Stat has seen is no later than the latest.
Stamped ==
    \A c \in Caller :
        /\ call[c].at = "stat" => call[c].stat = Absent \/ call[c].stat \in 0 .. clock
        /\ call[c].at = "load" => call[c].stat \in 0 .. clock

FileStamp == clock <= edits /\ (file # Absent => file.stamp = clock)

CacheStamp ==
    cache # Absent /\ cache.pack =>
        /\ cache.stamp \in 0 .. clock
        /\ cache.stamp = clock /\ file # Absent => cache.hash = file.content \/ blurred

RInv == TypeOK /\ CallTypes /\ Stamped /\ FileStamp /\ CacheStamp

-----------------------------------------------------------------------------
LEMMA Bounds == MaxEdits \in Nat /\ MaxTroubles \in Nat
    BY ResolverAssumption

LEMMA InitRInv == Init => RInv
<1> SUFFICES ASSUME Init PROVE RInv
    OBVIOUS
<1>1. \A c \in Caller : call[c].at = "idle" /\ lock # c
    BY ResolverAssumption DEF Init, Idle
<1>2. TypeOK
    <2>1. /\ file = Absent /\ cache = Absent /\ lock = Absent /\ blurred \in BOOLEAN
          /\ clock = 0 /\ edits = 0 /\ troubles = 0
        BY DEF Init
    <2>2. \A c \in Caller : /\ call[c].at \in {"idle", "stat", "load", "done"}
                            /\ (call[c].at = "load") <=> (lock = c)
        BY <1>1
    <2> QED
        BY <2>1, <2>2, Bounds DEF TypeOK
<1>3. CallTypes
    BY DEF Init, CallTypes, Calls, Idle
<1>4. Stamped /\ FileStamp /\ CacheStamp
    BY <1>1 DEF Init, Stamped, FileStamp, CacheStamp
<1> QED
    BY <1>2, <1>3, <1>4 DEF RInv

\* An edit leaves every stamp seen so far no later than the new one; when it
\* does not move the clock, the cache's claim about it is excused.
LEMMA EditPackRInv == ASSUME NEW k \in Content, RInv, EditPack(k) PROVE RInv'
<1> USE Bounds DEF RInv
<1>1. PICK tick \in {0, 1} : clock' = clock + tick /\ blurred' = (tick = 0)
    BY DEF EditPack
<1>2. /\ clock \in Nat /\ clock' \in Nat /\ edits \in Nat /\ edits < MaxEdits
      /\ edits' = edits + 1 /\ clock <= edits
      /\ file'.content = k /\ file'.stamp = clock'
    BY <1>1 DEF TypeOK, EditPack, FileStamp
<1>3. UNCHANGED <<cache, lock, call, found, troubles>>
    BY DEF EditPack
<1>4. TypeOK'
    BY <1>1, <1>2, <1>3 DEF TypeOK
<1>5. CallTypes'
    BY <1>3 DEF CallTypes
<1>6. Stamped'
    BY <1>1, <1>2, <1>3 DEF Stamped
<1>7. FileStamp'
    BY <1>1, <1>2 DEF FileStamp
<1>8. ASSUME cache # Absent, cache.pack
      PROVE  /\ cache.stamp \in 0 .. clock'
             /\ cache.stamp = clock' => blurred'
    <2>1. cache.stamp \in 0 .. clock
        BY <1>8 DEF CacheStamp
    <2>2. CASE tick = 0
        <3>1. blurred'
            BY <1>1, <2>2
        <3>2. cache.stamp \in 0 .. clock'
            BY <1>1, <1>2, <2>1, <2>2
        <3> QED
            BY <3>1, <3>2
    <2>3. CASE tick = 1
        <3>1. clock' = clock + 1
            BY <1>1, <2>3
        <3>2. cache.stamp \in 0 .. clock' /\ cache.stamp # clock'
            BY <1>2, <2>1, <3>1
        <3> QED
            BY <3>2
    <2> QED
        BY <2>2, <2>3
<1>9. CacheStamp'
    BY <1>3, <1>8 DEF CacheStamp
<1> QED
    BY <1>4, <1>5, <1>6, <1>7, <1>9

LEMMA RemovePackRInv == ASSUME RInv, RemovePack PROVE RInv'
<1> USE Bounds DEF RInv
<1>1. /\ UNCHANGED <<clock, cache, lock, call, found, troubles, blurred>>
      /\ file' = Absent /\ edits < MaxEdits /\ edits' = edits + 1
      /\ edits \in Nat /\ clock \in Nat
    BY DEF RemovePack, TypeOK
<1>2. TypeOK'
    BY <1>1 DEF TypeOK
<1>3. CallTypes' /\ Stamped' /\ CacheStamp'
    BY <1>1 DEF CallTypes, Stamped, CacheStamp
<1>4. FileStamp'
    BY <1>1 DEF FileStamp
<1> QED
    BY <1>2, <1>3, <1>4

LEMMA StatRInv == ASSUME NEW c \in Caller, RInv, Stat(c) PROVE RInv'
<1> USE DEF RInv
<1>1. UNCHANGED <<file, clock, cache, lock, found, edits, troubles, blurred>>
    BY DEF Stat
<1>2. /\ call \in [Caller -> Calls] /\ call[c].at = "idle" /\ clock \in Nat
      /\ file # Absent => file.stamp = clock
    BY DEF Stat, CallTypes, TypeOK, FileStamp
<1>3. PICK s \in {Absent, clock} : call' = [call EXCEPT ![c].at = "stat", ![c].stat = s]
    BY <1>2 DEF Stat
<1>4. call' \in [Caller -> Calls]
    <2>1. [call[c] EXCEPT !.at = "stat", !.stat = s] \in Calls
        BY <1>2 DEF Calls
    <2> QED
        BY <1>2, <1>3, <2>1
<1>5. /\ call'[c].at = "stat" /\ call'[c].stat = s
      /\ \A d \in Caller \ {c} : call'[d] = call[d]
    BY <1>2, <1>3 DEF Calls
<1>6. TypeOK'
    BY <1>1, <1>2, <1>5 DEF TypeOK
<1>7. Stamped'
    BY <1>1, <1>2, <1>5 DEF Stamped
<1> QED
    BY <1>1, <1>4, <1>6, <1>7 DEF CallTypes, FileStamp, CacheStamp

\* What Known, Loads and LoadFails have in common.
LEMMA ResolvedRInv ==
    ASSUME NEW c \in Caller, NEW e \in Entries, RInv, Resolved(c, e),
           UNCHANGED <<file, clock, edits, blurred>>,
           call[c].at \in {"stat", "load"},
           lock' = IF call[c].at = "load" THEN Absent ELSE lock,
           troubles' \in 0 .. MaxTroubles,
           e.pack = (e.status # "none"),
           e.pack => /\ e.stamp \in 0 .. clock
                     /\ e.stamp = clock /\ file # Absent => e.hash = file.content \/ blurred
    PROVE  RInv'
<1> USE DEF RInv
<1>1. call \in [Caller -> Calls]
    BY DEF CallTypes
<1>2. /\ cache' = e
      /\ call' = [call EXCEPT ![c].at = "done", ![c].got = e]
    BY DEF Resolved
<1>3. call' \in [Caller -> Calls]
    <2>1. [call[c] EXCEPT !.at = "done", !.got = e] \in Calls
        BY <1>1 DEF Calls
    <2> QED
        BY <1>1, <1>2, <2>1
<1>4. /\ call'[c].at = "done"
      /\ \A d \in Caller \ {c} : call'[d] = call[d]
    BY <1>1, <1>2 DEF Calls
<1>5. \A d \in Caller : (call'[d].at = "load") <=> (lock' = d)
    BY <1>4, ResolverAssumption DEF TypeOK
<1>6. e.status \in {"none", "ok", "error"}
    BY DEF Entries
<1>7. TypeOK'
    BY <1>2, <1>3, <1>5, <1>6 DEF TypeOK, Calls
<1>8. CallTypes' /\ CacheStamp'
    BY <1>2, <1>3 DEF CallTypes, CacheStamp
<1>9. Stamped'
    BY <1>4 DEF Stamped
<1> QED
    BY <1>7, <1>8, <1>9 DEF FileStamp

LEMMA NoPackEntry ==
    /\ NoPack \in Entries
    /\ NoPack.pack = (NoPack.status # "none")
    /\ NoPack.pack = FALSE
    BY DEF NoPack, Entry, Entries

LEMMA KnownRInv == ASSUME NEW c \in Caller, RInv, Known(c) PROVE RInv'
<1>1. /\ UNCHANGED <<file, clock, lock, edits, troubles, blurred>>
      /\ call[c].at = "stat"
    BY DEF Known
<1>2. troubles' \in 0 .. MaxTroubles
    BY <1>1 DEF RInv, TypeOK
<1>3. CASE Resolved(c, NoPack)
    BY <1>1, <1>2, <1>3, NoPackEntry, ResolvedRInv
<1>4. CASE Fresh(c) /\ Resolved(c, cache)
    <2>1. cache \in Entries /\ cache.pack = (cache.status # "none")
        BY <1>4 DEF RInv, TypeOK, CallTypes, Fresh
    <2>2. cache.pack => /\ cache.stamp \in 0 .. clock
                        /\ cache.stamp = clock /\ file # Absent =>
                              cache.hash = file.content \/ blurred
        BY <1>4 DEF RInv, CacheStamp, Fresh
    <2> QED
        BY <1>1, <1>2, <1>4, <2>1, <2>2, ResolvedRInv
<1> QED
    BY <1>3, <1>4 DEF Known

LEMMA MustReadRInv == ASSUME NEW c \in Caller, RInv, MustRead(c) PROVE RInv'
<1> USE DEF RInv
<1>1. /\ UNCHANGED <<file, clock, cache, found, edits, troubles, blurred>>
      /\ call[c].at = "stat" /\ call[c].stat # Absent /\ lock = Absent /\ lock' = c
      /\ call' = [call EXCEPT ![c].at = "load"]
    BY DEF MustRead
<1>2. call \in [Caller -> Calls]
    BY DEF CallTypes
<1>3. call' \in [Caller -> Calls]
    BY <1>1, <1>2 DEF Calls
<1>4. /\ call'[c].at = "load" /\ call'[c].stat = call[c].stat
      /\ \A d \in Caller \ {c} : call'[d] = call[d]
    BY <1>1, <1>2 DEF Calls
<1>5. \A d \in Caller : (call'[d].at = "load") <=> (lock' = d)
    BY <1>1, <1>4, ResolverAssumption DEF TypeOK
<1>6. TypeOK'
    BY <1>1, <1>3, <1>5 DEF TypeOK, Calls
<1>7. Stamped'
    BY <1>1, <1>4 DEF Stamped
<1> QED
    BY <1>1, <1>3, <1>6, <1>7 DEF CallTypes, FileStamp, CacheStamp

\* The read comes after the Stat: a stamp that is still the latest belongs to
\* the content read, and one that is not will never be.
LEMMA LoadsRInv == ASSUME NEW c \in Caller, RInv, Loads(c) PROVE RInv'
<1> DEFINE e == Entry(call[c].stat, TRUE,
                      IF file.content \in Accepted THEN "ok" ELSE "error", file.content)
<1>1. /\ UNCHANGED <<file, clock, edits, troubles, blurred>>
      /\ call[c].at = "load" /\ file # Absent /\ lock' = Absent /\ Resolved(c, e)
    BY DEF Loads
<1>2. call[c].stat \in 0 .. clock /\ file.content \in Content /\ clock \in Nat
    BY <1>1 DEF RInv, TypeOK, Stamped
<1>3. /\ e.stamp = call[c].stat /\ e.pack = TRUE /\ e.hash = file.content
      /\ e.status \in {"ok", "error"}
    BY DEF Entry
<1>4. e \in Entries
    BY <1>2 DEF Entry, Entries
<1>5. troubles' \in 0 .. MaxTroubles
    BY <1>1 DEF RInv, TypeOK
<1> HIDE DEF e
<1> QED
    BY <1>1, <1>2, <1>3, <1>4, <1>5, ResolvedRInv

LEMMA LoadFailsRInv == ASSUME NEW c \in Caller, RInv, LoadFails(c) PROVE RInv'
<1>1. /\ UNCHANGED <<file, clock, edits, blurred>>
      /\ call[c].at = "load" /\ lock' = Absent /\ Resolved(c, NoPack)
    BY DEF LoadFails
<1>2. troubles' \in 0 .. MaxTroubles
    BY Bounds DEF LoadFails, RInv, TypeOK
<1> QED
    BY <1>1, <1>2, NoPackEntry, ResolvedRInv

LEMMA ReturnRInv == ASSUME NEW c \in Caller, RInv, Return(c) PROVE RInv'
<1> USE DEF RInv
<1>1. /\ UNCHANGED <<file, clock, cache, lock, edits, troubles, blurred>>
      /\ call[c].at = "done" /\ call' = [call EXCEPT ![c] = Idle]
    BY DEF Return
<1>2. call \in [Caller -> Calls]
    BY DEF CallTypes
<1>3. Idle \in Calls /\ Idle.at = "idle"
    BY DEF Idle, Calls
<1>4. /\ call' \in [Caller -> Calls] /\ call'[c] = Idle
      /\ \A d \in Caller \ {c} : call'[d] = call[d]
    BY <1>1, <1>2, <1>3
<1>5. TypeOK'
    BY <1>1, <1>3, <1>4 DEF TypeOK
<1>6. Stamped'
    BY <1>1, <1>3, <1>4 DEF Stamped
<1> QED
    BY <1>1, <1>4, <1>5, <1>6 DEF CallTypes, FileStamp, CacheStamp

LEMMA NextRInv == RInv /\ [Next]_vars => RInv'
<1> SUFFICES ASSUME RInv, [Next]_vars PROVE RInv'
    OBVIOUS
<1>1. ASSUME NEW k \in Content, EditPack(k) PROVE RInv'
    BY <1>1, EditPackRInv
<1>2. CASE RemovePack
    BY <1>2, RemovePackRInv
<1>3. ASSUME NEW c \in Caller, Work(c) PROVE RInv'
    BY <1>3, StatRInv, KnownRInv, MustReadRInv, LoadsRInv, LoadFailsRInv, ReturnRInv DEF Work
<1>4. CASE UNCHANGED vars
    BY <1>4 DEF vars, RInv, TypeOK, CallTypes, Stamped, FileStamp, CacheStamp
<1> QED
    BY <1>1, <1>2, <1>3, <1>4 DEF Next

LEMMA RInvHolds == Spec => []RInv
    BY InitRInv, NextRInv, PTL DEF Spec

-----------------------------------------------------------------------------
\* Every variable keeps its type, and at most the caller that has the lock
\* reads the pack (resolve).
THEOREM TypeCorrect == Spec => []TypeOK
<1>1. RInv => TypeOK
    BY DEF RInv
<1> QED
    BY <1>1, RInvHolds, PTL

\* An entry that the next Stat will find fresh was made from what the file
\* holds, for any number of callers, edits and failing reads (resolve, line 125).
THEOREM StampSound == Spec => []StampTells
<1>1. RInv => StampTells
    BY DEF RInv, FileStamp, CacheStamp, StampTells
<1> QED
    BY <1>1, RInvHolds, PTL
-----------------------------------------------------------------------------
(* Induction over the natural numbers, for a set in place of a property.   *)
LEMMA Induct ==
    ASSUME NEW T, 0 \in T, \A n \in Nat : n \in T => n + 1 \in T
    PROVE  Nat \subseteq T
<1> DEFINE R == OpToRel(<, Nat)
           Rest == Nat \ T
<1>1. IsWellFoundedOn(R, Nat)
    BY NatLessThanWellFounded
<1>2. \A x, y \in Nat : <<x, y>> \in R <=> x < y
    BY DEF OpToRel
<1> HIDE DEF R
<1> SUFFICES ASSUME Rest # {} PROVE FALSE
    OBVIOUS
<1>3. PICK m \in Rest : \A y \in Rest : ~ (<<y, m>> \in R)
    BY <1>1, WFMin
<1>4. m \in Nat /\ m # 0 /\ m - 1 \in Nat /\ m - 1 < m /\ (m - 1) + 1 = m
    BY <1>3
<1>5. m - 1 \in T
    BY <1>2, <1>3, <1>4
<1>6. m \in T
    BY <1>4, <1>5
<1> QED
    BY <1>3, <1>6

(* A function on 0 .. N can be defined by giving each value from those     *)
(* before it.                                                              *)
Gives(G, N, D) == \A n \in 0 .. N : \A f \in [0 .. n - 1 -> D] : G[n][f] \in D
Obeys(f, G, N) == \A n \in 0 .. N : f[n] = G[n][[k \in 0 .. n - 1 |-> f[k]]]

LEMMA Recursion ==
    ASSUME NEW D, NEW N \in Nat, NEW G, Gives(G, N, D)
    PROVE  \E f \in [0 .. N -> D] : Obeys(f, G, N)
<1> DEFINE Part(f, n) == \A i \in 0 .. n - 1 : f[i] = G[i][[k \in 0 .. i - 1 |-> f[k]]]
           T == {n \in Nat : n <= N + 1 => \E f \in [0 .. n - 1 -> D] : Part(f, n)}
<1>1. 0 \in T
  <2>1. [i \in 0 .. 0 - 1 |-> {}] \in [0 .. 0 - 1 -> D]
    OBVIOUS
  <2>2. Part([i \in 0 .. 0 - 1 |-> {}], 0)
    OBVIOUS
  <2> QED BY <2>1, <2>2
<1>2. ASSUME NEW n \in Nat, n \in T PROVE n + 1 \in T
  <2> SUFFICES ASSUME n + 1 <= N + 1
               PROVE  \E g \in [0 .. n -> D] : Part(g, n + 1)
    BY SMT
  <2>1. PICK f \in [0 .. n - 1 -> D] : Part(f, n)
    BY <1>2
  <2> DEFINE g == [i \in 0 .. n |-> IF i < n THEN f[i] ELSE G[n][f]]
  <2>2. n \in 0 .. N /\ G[n][f] \in D
    BY DEF Gives
  <2>3. g \in [0 .. n -> D]
    BY <2>2
  <2>4. (\A i \in 0 .. n - 1 : g[i] = f[i]) /\ g[n] = G[n][f]
    OBVIOUS
  <2> HIDE DEF g
  <2>5. ASSUME NEW i \in 0 .. n PROVE g[i] = G[i][[k \in 0 .. i - 1 |-> g[k]]]
    <3>1. CASE i < n
      <4>1. [k \in 0 .. i - 1 |-> g[k]] = [k \in 0 .. i - 1 |-> f[k]]
        BY <2>4, <3>1
      <4> QED BY <2>1, <2>4, <3>1, <4>1
    <3>2. CASE i = n
      <4>1. [k \in 0 .. i - 1 |-> g[k]] = f
        BY <2>4, <3>2
      <4> QED BY <2>4, <3>2, <4>1
    <3> QED BY <3>1, <3>2
  <2>6. (n + 1) - 1 = n
    OBVIOUS
  <2>7. Part(g, n + 1)
    BY <2>5, <2>6
  <2> QED BY <2>3, <2>7
<1> HIDE DEF T
<1>3. N + 1 \in T
  BY <1>1, <1>2, Induct
<1>4. PICK f \in [0 .. (N + 1) - 1 -> D] : Part(f, N + 1)
  BY <1>3 DEF T
<1>5. (N + 1) - 1 = N
  OBVIOUS
<1> QED BY <1>4, <1>5 DEF Obeys

-----------------------------------------------------------------------------
(* The glob matcher.                                                       *)

Cell(tok, prev, path, cur, j) ==
    CASE tok.kind = "**" -> prev[j] \/ (j > 0 /\ cur[j - 1])
      [] tok.kind = "*"  -> prev[j] \/ (j > 0 /\ path[j] # "/" /\ cur[j - 1])
      [] tok.kind = "?"  -> j > 0 /\ path[j] # "/" /\ prev[j - 1]
      [] OTHER           -> j > 0 /\ path[j] = tok.char /\ prev[j - 1]

LEMMA NextRowCell ==
    ASSUME NEW n \in Nat, NEW path, Len(path) = n, NEW tok, NEW prev \in [0 .. n -> BOOLEAN]
    PROVE  NextRow(tok, prev, path) =
              [j \in 0 .. n |-> Cell(tok, prev, path, NextRow(tok, prev, path), j)]
<1> DEFINE B == BOOLEAN
           G == [j \in 0 .. n |-> [f \in [0 .. j - 1 -> B] |-> Cell(tok, prev, path, f, j)]]
<1>1. Gives(G, n, B)
  BY DEF Cell, Gives
<1>2. \A j \in 0 .. n : \A f \in [0 .. j - 1 -> B] : G[j][f] = Cell(tok, prev, path, f, j)
  OBVIOUS
<1> HIDE DEF G, B
<1>3. PICK f \in [0 .. n -> B] : Obeys(f, G, n)
  BY <1>1, Recursion
<1>4. ASSUME NEW j \in 0 .. n PROVE f[j] = Cell(tok, prev, path, f, j)
  <2> DEFINE h == [k \in 0 .. j - 1 |-> f[k]]
  <2>1. h \in [0 .. j - 1 -> B]
    OBVIOUS
  <2>2. j > 0 => h[j - 1] = f[j - 1]
    OBVIOUS
  <2>3. f[j] = Cell(tok, prev, path, h, j)
    BY <1>2, <1>3, <2>1 DEF Obeys
  <2> HIDE DEF h
  <2> QED BY <2>2, <2>3 DEF Cell
<1>5. f = [j \in 0 .. n |-> Cell(tok, prev, path, f, j)]
  BY <1>4
<1>6. NextRow(tok, prev, path) = CHOOSE cur : cur = [j \in 0 .. n |-> Cell(tok, prev, path, cur, j)]
  BY DEF NextRow, Cell
<1> QED BY <1>5, <1>6

(* The characters after the k-th, up to the j-th, are what the token stands for. *)
Spans(tok, path, k, j) ==
    CASE tok.kind = "**" -> k <= j
      [] tok.kind = "*"  -> k <= j /\ \A l \in k + 1 .. j : path[l] # "/"
      [] tok.kind = "?"  -> j = k + 1 /\ path[j] # "/"
      [] OTHER           -> j = k + 1 /\ path[j] = tok.char

LEMMA NextRowSpans ==
    ASSUME NEW n \in Nat, NEW path, Len(path) = n, NEW tok, NEW prev \in [0 .. n -> BOOLEAN]
    PROVE  /\ NextRow(tok, prev, path) \in [0 .. n -> BOOLEAN]
           /\ \A j \in 0 .. n : NextRow(tok, prev, path)[j] <=>
                                \E k \in 0 .. n : prev[k] /\ Spans(tok, path, k, j)
<1> DEFINE cur == NextRow(tok, prev, path)
           Found(j) == \E k \in 0 .. n : prev[k] /\ Spans(tok, path, k, j)
           T == {j \in Nat : j <= n => (cur[j] <=> Found(j))}
<1>1. cur = [j \in 0 .. n |-> Cell(tok, prev, path, cur, j)]
  BY NextRowCell
<1> HIDE DEF cur
<1>2. cur \in [0 .. n -> BOOLEAN]
  <2>1. \A j \in 0 .. n : Cell(tok, prev, path, cur, j) \in BOOLEAN
    BY DEF Cell
  <2> QED BY <1>1, <2>1
<1>3. \A j \in 0 .. n : cur[j] = Cell(tok, prev, path, cur, j)
  BY <1>1
<1>4. 0 \in T
  <2>1. cur[0] <=> Cell(tok, prev, path, cur, 0)
    BY <1>3
  <2>2. Cell(tok, prev, path, cur, 0) <=> Found(0)
    BY DEF Cell, Spans
  <2> QED BY <2>1, <2>2
<1>5. ASSUME NEW j \in Nat, j \in T PROVE j + 1 \in T
  <2> SUFFICES ASSUME j + 1 <= n PROVE cur[j + 1] <=> Found(j + 1)
    OBVIOUS
  <2>1. (cur[j] <=> Found(j)) /\ j \in 0 .. n /\ j + 1 \in 0 .. n /\ (j + 1) - 1 = j
    BY <1>5
  <2>2. cur[j + 1] <=> Cell(tok, prev, path, cur, j + 1)
    BY <1>3, <2>1
  <2>3. CASE tok.kind = "**"
    <3>1. Found(j + 1) <=> prev[j + 1] \/ Found(j)
      BY <2>1, <2>3 DEF Spans
    <3>2. Cell(tok, prev, path, cur, j + 1) <=> prev[j + 1] \/ cur[j]
      BY <2>1, <2>3 DEF Cell
    <3> HIDE DEF Found
    <3> QED BY <2>1, <2>2, <3>1, <3>2
  <2>4. CASE tok.kind = "*"
    <3>1. Found(j + 1) <=> prev[j + 1] \/ (path[j + 1] # "/" /\ Found(j))
      BY <2>1, <2>4 DEF Spans
    <3>2. Cell(tok, prev, path, cur, j + 1) <=> prev[j + 1] \/ (path[j + 1] # "/" /\ cur[j])
      BY <2>1, <2>4 DEF Cell
    <3> HIDE DEF Found
    <3> QED BY <2>1, <2>2, <3>1, <3>2
  <2>5. CASE tok.kind \notin {"**", "*"}
    <3>1. Cell(tok, prev, path, cur, j + 1) <=> Found(j + 1)
      BY <2>1, <2>5 DEF Spans, Cell
    <3> QED BY <2>2, <3>1
  <2> QED BY <2>3, <2>4, <2>5
<1> HIDE DEF T
<1>6. Nat \subseteq T
  BY <1>4, <1>5, Induct
<1>7. ASSUME NEW j \in 0 .. n PROVE cur[j] <=> Found(j)
  BY <1>6 DEF T
<1> QED BY <1>2, <1>7 DEF cur

(* The path after the k-th character can be cut into pieces, one for each token. *)
Cut(toks, path, k) ==
    \E c \in [0 .. Len(toks) -> 0 .. Len(path)] :
        /\ c[0] = k /\ c[Len(toks)] = Len(path)
        /\ \A l \in 1 .. Len(toks) : Spans(toks[l], path, c[l - 1], c[l])

LEMMA TokensMatch ==
    ASSUME NEW n \in Nat, NEW path, Len(path) = n, NEW m \in Nat, NEW toks, Len(toks) = m
    PROVE  GlobTokensMatch(toks, path) <=> Cut(toks, path, 0)
<1> DEFINE B == [0 .. n -> BOOLEAN]
           First == [j \in 0 .. n |-> j = 0]
           Value(f, i) == IF i = 0 THEN First ELSE NextRow(toks[i], f[i - 1], path)
           row == CHOOSE f : f = [i \in 0 .. m |-> Value(f, i)]
<1>1. GlobTokensMatch(toks, path) = row[m][n]
  BY DEF GlobTokensMatch
<1>2. row = [i \in 0 .. m |-> Value(row, i)]
  <2> DEFINE G == [i \in 0 .. m |-> [f \in [0 .. i - 1 -> B] |-> Value(f, i)]]
  <2>1. Gives(G, m, B)
    <3> SUFFICES ASSUME NEW i \in 0 .. m, NEW f \in [0 .. i - 1 -> B] PROVE Value(f, i) \in B
      BY DEF Gives
    <3>1. CASE i = 0
      BY <3>1
    <3>2. CASE i > 0
      <4>1. f[i - 1] \in B
        BY <3>2
      <4> QED BY <3>2, <4>1, NextRowSpans
    <3> QED BY <3>1, <3>2
  <2>2. \A i \in 0 .. m : \A f \in [0 .. i - 1 -> B] : G[i][f] = Value(f, i)
    OBVIOUS
  <2> HIDE DEF G, B
  <2>3. PICK f \in [0 .. m -> B] : Obeys(f, G, m)
    BY <2>1, Recursion
  <2>4. ASSUME NEW i \in 0 .. m PROVE f[i] = Value(f, i)
    <3> DEFINE h == [k \in 0 .. i - 1 |-> f[k]]
    <3>1. h \in [0 .. i - 1 -> B] /\ (i # 0 => h[i - 1] = f[i - 1])
      OBVIOUS
    <3>2. f[i] = Value(h, i)
      BY <2>2, <2>3, <3>1 DEF Obeys
    <3> HIDE DEF h
    <3> QED BY <3>1, <3>2
  <2>5. f = [i \in 0 .. m |-> Value(f, i)]
    BY <2>4
  <2> QED BY <2>5
<1> HIDE DEF row
<1>3. row[0] = First /\ \A i \in 1 .. m : row[i] = NextRow(toks[i], row[i - 1], path)
  BY <1>2
<1> DEFINE To(c, i, j) == /\ c[0] = 0 /\ c[i] = j
                          /\ \A l \in 1 .. i : Spans(toks[l], path, c[l - 1], c[l])
           Right(i) == /\ row[i] \in B
                       /\ \A j \in 0 .. n : row[i][j] <=> \E c \in [0 .. i -> 0 .. n] : To(c, i, j)
           T == {i \in Nat : i <= m => Right(i)}
<1>4. 0 \in T
  <2>1. row[0] \in B
    BY <1>3
  <2>2. ASSUME NEW j \in 0 .. n PROVE row[0][j] <=> \E c \in [0 .. 0 -> 0 .. n] : To(c, 0, j)
    <3>1. row[0][j] <=> j = 0
      BY <1>3
    <3>2. j = 0 => [l \in 0 .. 0 |-> 0] \in [0 .. 0 -> 0 .. n] /\ To([l \in 0 .. 0 |-> 0], 0, j)
      OBVIOUS
    <3>3. ASSUME NEW c \in [0 .. 0 -> 0 .. n], To(c, 0, j) PROVE j = 0
      BY <3>3
    <3> HIDE DEF To
    <3> QED BY <3>1, <3>2, <3>3
  <2> QED BY <2>1, <2>2
<1>5. ASSUME NEW i \in Nat, i \in T PROVE i + 1 \in T
  <2> HIDE DEF Right
  <2> SUFFICES ASSUME i + 1 <= m PROVE Right(i + 1)
    OBVIOUS
  <2>9. Right(i)
    BY <1>5
  <2> HIDE DEF T
  <2> USE DEF Right
  <2>1. row[i + 1] = NextRow(toks[i + 1], row[i], path)
    <3>1. i + 1 \in 1 .. m /\ (i + 1) - 1 = i
      OBVIOUS
    <3> QED BY <1>3, <3>1
  <2>2. row[i] \in [0 .. n -> BOOLEAN]
    BY <2>9
  <2>3. /\ row[i + 1] \in B
        /\ \A j \in 0 .. n : row[i + 1][j] <=>
              \E k \in 0 .. n : row[i][k] /\ Spans(toks[i + 1], path, k, j)
    <3> DEFINE next == NextRow(toks[i + 1], row[i], path)
    <3>1. /\ next \in [0 .. n -> BOOLEAN]
          /\ \A j \in 0 .. n : next[j] <=>
                \E k \in 0 .. n : row[i][k] /\ Spans(toks[i + 1], path, k, j)
      BY <2>2, NextRowSpans
    <3> HIDE DEF next
    <3> QED BY <2>1, <3>1 DEF next
  <2>4. ASSUME NEW j \in 0 .. n
        PROVE  row[i + 1][j] <=> \E c \in [0 .. i + 1 -> 0 .. n] : To(c, i + 1, j)
    <3>1. ASSUME NEW k \in 0 .. n, Spans(toks[i + 1], path, k, j),
                 NEW c \in [0 .. i -> 0 .. n], To(c, i, k)
          PROVE  \E d \in [0 .. i + 1 -> 0 .. n] : To(d, i + 1, j)
      <4> DEFINE d == [l \in 0 .. i + 1 |-> IF l = i + 1 THEN j ELSE c[l]]
      <4>1. d \in [0 .. i + 1 -> 0 .. n]
        OBVIOUS
      <4>2. d[i + 1] = j /\ \A l \in 0 .. i : d[l] = c[l]
        OBVIOUS
      <4> HIDE DEF d
      <4>3. ASSUME NEW l \in 1 .. i + 1 PROVE Spans(toks[l], path, d[l - 1], d[l])
        <5>1. CASE l = i + 1
          <6>1. d[l - 1] = k
            BY <3>1, <4>2, <5>1
          <6> QED BY <3>1, <4>2, <5>1, <6>1
        <5>2. CASE l \in 1 .. i
          <6>1. d[l - 1] = c[l - 1] /\ d[l] = c[l]
            BY <4>2, <5>2
          <6> QED BY <3>1, <5>2, <6>1
        <5> QED BY <5>1, <5>2
      <4>4. d[0] = 0
        BY <3>1, <4>2
      <4> QED BY <4>1, <4>2, <4>3, <4>4
    <3>2. ASSUME NEW d \in [0 .. i + 1 -> 0 .. n], To(d, i + 1, j)
          PROVE  \E k \in 0 .. n : /\ Spans(toks[i + 1], path, k, j)
                                   /\ \E c \in [0 .. i -> 0 .. n] : To(c, i, k)
      <4> DEFINE c == [l \in 0 .. i |-> d[l]]
      <4>1. c \in [0 .. i -> 0 .. n] /\ d[i] \in 0 .. n
        OBVIOUS
      <4>2. \A l \in 0 .. i : c[l] = d[l]
        OBVIOUS
      <4> HIDE DEF c
      <4>3. ASSUME NEW l \in 1 .. i PROVE Spans(toks[l], path, c[l - 1], c[l])
        <5>1. c[l - 1] = d[l - 1] /\ c[l] = d[l] /\ l \in 1 .. i + 1
          BY <4>2
        <5> QED BY <3>2, <5>1
      <4>4. To(c, i, d[i])
        BY <3>2, <4>2, <4>3
      <4>5. i + 1 \in 1 .. i + 1 /\ (i + 1) - 1 = i
        OBVIOUS
      <4>6. Spans(toks[i + 1], path, d[i], j)
        BY <3>2, <4>5
      <4> HIDE DEF To
      <4> QED BY <4>1, <4>4, <4>6
    <3> HIDE DEF To
    <3>3. \A k \in 0 .. n : row[i][k] <=> \E c \in [0 .. i -> 0 .. n] : To(c, i, k)
      BY <2>9
    <3> QED BY <2>3, <3>1, <3>2, <3>3
  <2> HIDE DEF To, B
  <2> QED BY <2>3, <2>4
<1> HIDE DEF T
<1>6. m \in T
  BY <1>4, <1>5, Induct
<1>7. row[m][n] <=> \E c \in [0 .. m -> 0 .. n] : To(c, m, n)
  <2> HIDE DEF Right
  <2>1. Right(m)
    BY <1>6 DEF T
  <2> USE DEF Right
  <2> HIDE DEF To
  <2>2. \A j \in 0 .. n : row[m][j] <=> \E c \in [0 .. m -> 0 .. n] : To(c, m, j)
    BY <2>1, Zenon
  <2>3. n \in 0 .. n
    OBVIOUS
  <2> QED BY <2>2, <2>3, Zenon
<1> QED BY <1>1, <1>7 DEF Cut

LEMMA CutNil ==
    ASSUME NEW n \in Nat, NEW path, Len(path) = n, NEW k \in 0 .. n
    PROVE  Cut(<<>>, path, k) <=> k = n
<1>1. Len(<<>>) = 0
  OBVIOUS
<1>2. ASSUME k = n PROVE Cut(<<>>, path, k)
  <2> DEFINE c == [l \in 0 .. 0 |-> k]
  <2>1. c \in [0 .. 0 -> 0 .. n] /\ c[0] = k /\ 1 .. 0 = {}
    OBVIOUS
  <2> HIDE DEF c
  <2> QED BY <1>1, <1>2, <2>1 DEF Cut
<1> QED BY <1>1, <1>2 DEF Cut

LEMMA CutCons ==
    ASSUME NEW n \in Nat, NEW path, Len(path) = n, NEW k \in 0 .. n,
           NEW V, NEW t \in V, NEW rest \in Seq(V)
    PROVE  Cut(<<t>> \o rest, path, k) <=>
              \E j \in 0 .. n : Spans(t, path, k, j) /\ Cut(rest, path, j)
<1> DEFINE m == Len(rest)
           toks == <<t>> \o rest
<1>1. m \in Nat /\ Len(toks) = m + 1 /\ toks[1] = t
      /\ \A l \in 1 .. m : toks[l + 1] = rest[l]
  OBVIOUS
<1> HIDE DEF m, toks
<1>2. ASSUME NEW c \in [0 .. m + 1 -> 0 .. n], c[0] = k, c[m + 1] = n,
             \A l \in 1 .. m + 1 : Spans(toks[l], path, c[l - 1], c[l])
      PROVE  \E j \in 0 .. n : Spans(t, path, k, j) /\ Cut(rest, path, j)
  <2> DEFINE d == [l \in 0 .. m |-> c[l + 1]]
  <2>1. d \in [0 .. m -> 0 .. n] /\ c[1] \in 0 .. n
    BY <1>1
  <2>2. \A l \in 0 .. m : d[l] = c[l + 1]
    OBVIOUS
  <2> HIDE DEF d
  <2>3. ASSUME NEW l \in 1 .. m PROVE Spans(rest[l], path, d[l - 1], d[l])
    <3>1. l + 1 \in 1 .. m + 1 /\ (l + 1) - 1 = l
      BY <1>1
    <3>2. d[l - 1] = c[l] /\ d[l] = c[l + 1]
      BY <1>1, <2>2
    <3>3. Spans(toks[l + 1], path, c[l], c[l + 1])
      BY <1>2, <3>1
    <3> QED BY <1>1, <3>2, <3>3
  <2>4. d[0] = c[1] /\ d[m] = n
    BY <1>1, <1>2, <2>2
  <2>5. Cut(rest, path, c[1])
    BY <1>1, <2>1, <2>3, <2>4 DEF Cut, m
  <2>6. Spans(t, path, k, c[1])
    <3>1. 1 \in 1 .. m + 1 /\ 1 - 1 = 0
      BY <1>1
    <3> QED BY <1>1, <1>2, <3>1
  <2> QED BY <2>1, <2>5, <2>6
<1>3. ASSUME NEW j \in 0 .. n, Spans(t, path, k, j), Cut(rest, path, j)
      PROVE  Cut(toks, path, k)
  <2>1. PICK d \in [0 .. m -> 0 .. n] :
           /\ d[0] = j /\ d[m] = n
           /\ \A l \in 1 .. m : Spans(rest[l], path, d[l - 1], d[l])
    BY <1>3 DEF Cut, m
  <2> DEFINE c == [l \in 0 .. m + 1 |-> IF l = 0 THEN k ELSE d[l - 1]]
  <2>2. c \in [0 .. m + 1 -> 0 .. n]
    BY <1>1
  <2>3. c[0] = k /\ \A l \in 0 .. m : c[l + 1] = d[l]
    BY <1>1
  <2> HIDE DEF c
  <2>4. ASSUME NEW l \in 1 .. m + 1 PROVE Spans(toks[l], path, c[l - 1], c[l])
    <3>1. CASE l = 1
      <4>1. 0 \in 0 .. m /\ 0 + 1 = 1 /\ 1 - 1 = 0
        BY <1>1
      <4>2. c[1] = j /\ c[0] = k
        BY <2>1, <2>3, <4>1
      <4> QED BY <1>1, <1>3, <3>1, <4>1, <4>2
    <3>2. CASE l > 1
      <4>1. /\ l - 1 \in 1 .. m /\ (l - 1) + 1 = l /\ l - 1 \in 0 .. m
            /\ (l - 1) - 1 \in 0 .. m /\ ((l - 1) - 1) + 1 = l - 1
        BY <1>1, <3>2
      <4>2. toks[l] = rest[l - 1] /\ c[l] = d[l - 1] /\ c[l - 1] = d[(l - 1) - 1]
        BY <1>1, <2>3, <4>1
      <4> QED BY <2>1, <4>1, <4>2
    <3> QED BY <1>1, <3>1, <3>2
  <2>5. c[m + 1] = n
    BY <1>1, <2>1, <2>3
  <2> QED BY <1>1, <2>2, <2>3, <2>4, <2>5 DEF Cut
<1>4. Cut(toks, path, k) => \E j \in 0 .. n : Spans(t, path, k, j) /\ Cut(rest, path, j)
  BY <1>1, <1>2 DEF Cut
<1> QED BY <1>3, <1>4 DEF toks

LEMMA InductDown ==
    ASSUME NEW N \in Nat, NEW S, \A i \in 1 .. N : (i + 1 .. N) \subseteq S => i \in S
    PROVE  1 .. N \subseteq S
<1> DEFINE T == {k \in Nat : \A i \in 1 .. N : i > N - k => i \in S}
<1>1. 0 \in T
  OBVIOUS
<1>2. ASSUME NEW k \in Nat, k \in T PROVE k + 1 \in T
  <2> SUFFICES ASSUME NEW i \in 1 .. N, i > N - (k + 1) PROVE i \in S
    OBVIOUS
  <2>1. \A j \in i + 1 .. N : j \in 1 .. N /\ j > N - k
    OBVIOUS
  <2>2. (i + 1 .. N) \subseteq S
    BY <1>2, <2>1
  <2> QED BY <2>2
<1> HIDE DEF T
<1>3. N \in T
  BY <1>1, <1>2, Induct
<1> QED BY <1>3 DEF T

(* The same as Recursion, from N down to 1.                                *)
GivesDown(G, N, D) == \A i \in 1 .. N : \A f \in [i + 1 .. N -> D] : G[i][f] \in D
ObeysDown(f, G, N) == \A i \in 1 .. N : f[i] = G[i][[k \in i + 1 .. N |-> f[k]]]

LEMMA RecursionDown ==
    ASSUME NEW D, NEW N \in Nat, N > 0, NEW G, GivesDown(G, N, D)
    PROVE  \E f \in [1 .. N -> D] : ObeysDown(f, G, N)
<1> DEFINE Turned(h, j) == [k \in N - j + 1 .. N |-> h[N - k]]
           H == [j \in 0 .. N - 1 |-> [h \in [0 .. j - 1 -> D] |-> G[N - j][Turned(h, j)]]]
<1>1. \A j \in 0 .. N - 1 : \A h \in [0 .. j - 1 -> D] : H[j][h] = G[N - j][Turned(h, j)]
  OBVIOUS
<1> HIDE DEF H
<1>2. Gives(H, N - 1, D)
  <2> SUFFICES ASSUME NEW j \in 0 .. N - 1, NEW h \in [0 .. j - 1 -> D] PROVE H[j][h] \in D
    BY DEF Gives
  <2>1. N - j \in 1 .. N /\ Turned(h, j) \in [(N - j) + 1 .. N -> D]
    OBVIOUS
  <2> HIDE DEF Turned
  <2> QED BY <1>1, <2>1 DEF GivesDown
<1>3. PICK h \in [0 .. N - 1 -> D] : Obeys(h, H, N - 1)
  <2>1. N - 1 \in Nat
    OBVIOUS
  <2> QED BY <1>2, <2>1, Recursion
<1> DEFINE f == [i \in 1 .. N |-> h[N - i]]
<1>4. f \in [1 .. N -> D]
  OBVIOUS
<1>5. \A i \in 1 .. N : f[i] = h[N - i]
  OBVIOUS
<1> HIDE DEF f
<1>6. ASSUME NEW i \in 1 .. N PROVE f[i] = G[i][[k \in i + 1 .. N |-> f[k]]]
  <2> DEFINE j == N - i
             p == [k \in 0 .. j - 1 |-> h[k]]
  <2>1. j \in 0 .. N - 1 /\ p \in [0 .. j - 1 -> D] /\ N - j = i
    OBVIOUS
  <2>2. Turned(p, j) = [k \in i + 1 .. N |-> f[k]]
    <3>1. \A k \in i + 1 .. N : N - k \in 0 .. j - 1 /\ p[N - k] = f[k]
      BY <1>5
    <3> HIDE DEF p
    <3> QED BY <2>1, <3>1
  <2>3. h[j] = H[j][p]
    BY <1>3, <2>1 DEF Obeys
  <2>4. H[j][p] = G[i][Turned(p, j)]
    BY <1>1, <2>1
  <2> HIDE DEF p, Turned
  <2> QED BY <1>5, <2>2, <2>3, <2>4
<1> QED BY <1>4, <1>6 DEF ObeysDown

(* Which token stands at a place of a pattern, and where the next one does. *)
TokenAt(p, i) ==
    IF p[i] = "*" THEN IF At(p, i + 1) = "*" THEN DoubleStar ELSE Star
    ELSE IF p[i] = "?" THEN Question ELSE Literal(p[i])

NextAt(p, i) ==
    IF p[i] = "*" /\ At(p, i + 1) = "*"
    THEN IF At(p, i + 2) = "/" THEN i + 3 ELSE i + 2 ELSE i + 1

LEMMA Tokens ==
    ASSUME NEW C, NEW p \in Seq(C), NEW m \in Nat, Len(p) = m
    PROVE  \E V : /\ \A i \in 1 .. m : TokenAt(p, i) \in V
                 /\ \E from \in [1 .. m + 3 -> Seq(V)] :
                      /\ from[1] = Tokenize(p)
                      /\ \A i \in 1 .. m + 3 :
                           from[i] = IF i > m THEN <<>>
                                     ELSE <<TokenAt(p, i)>> \o from[NextAt(p, i)]
<1> DEFINE V == {TokenAt(p, i) : i \in 1 .. m}
           D == Seq(V)
           N == m + 3
           Value(f, i) == IF i > m THEN <<>> ELSE <<TokenAt(p, i)>> \o f[NextAt(p, i)]
           Text(f, i) == IF i > m THEN <<>>
                         ELSE IF p[i] = "*" /\ At(p, i + 1) = "*"
                              THEN <<DoubleStar>> \o f[IF At(p, i + 2) = "/" THEN i + 3 ELSE i + 2]
                         ELSE IF p[i] = "*" THEN <<Star>> \o f[i + 1]
                         ELSE IF p[i] = "?" THEN <<Question>> \o f[i + 1]
                         ELSE <<Literal(p[i])>> \o f[i + 1]
           from == CHOOSE f : f = [i \in 1 .. N |-> Text(f, i)]
           G == [i \in 1 .. N |-> [f \in [i + 1 .. N -> D] |-> Value(f, i)]]
<1>1. Tokenize(p) = from[1]
  BY DEF Tokenize
<1>2. \A i \in 1 .. m : NextAt(p, i) \in i + 1 .. N
  BY DEF NextAt
<1>3. \A f, i : Text(f, i) = Value(f, i)
  BY DEF TokenAt, NextAt
<1>4. N \in Nat /\ N > 0
  OBVIOUS
<1>5. ASSUME NEW i \in 1 .. N, NEW f \in [i + 1 .. N -> D] PROVE Value(f, i) \in D
  <2>1. CASE i > m
    BY <2>1
  <2>2. CASE i <= m
    <3>1. f[NextAt(p, i)] \in Seq(V) /\ TokenAt(p, i) \in V
      BY <1>2, <2>2
    <3> HIDE DEF V
    <3>2. <<TokenAt(p, i)>> \in Seq(V)
      BY <3>1
    <3> QED BY <2>2, <3>1, <3>2
  <2> QED BY <2>1, <2>2
<1>6. \A i \in 1 .. N : \A f \in [i + 1 .. N -> D] : G[i][f] = Value(f, i)
  OBVIOUS
<1> HIDE DEF G
<1>7. GivesDown(G, N, D)
  BY <1>5, <1>6 DEF GivesDown
<1>8. PICK f \in [1 .. N -> D] : ObeysDown(f, G, N)
  <2> HIDE DEF N, D
  <2> QED BY <1>4, <1>7, RecursionDown
<1>9. ASSUME NEW i \in 1 .. N PROVE f[i] = Value(f, i)
  <2> DEFINE h == [k \in i + 1 .. N |-> f[k]]
  <2>1. h \in [i + 1 .. N -> D] /\ (i <= m => h[NextAt(p, i)] = f[NextAt(p, i)])
    BY <1>2
  <2>2. f[i] = Value(h, i)
    <3> HIDE DEF D
    <3> QED BY <1>6, <1>8, <2>1 DEF ObeysDown
  <2> HIDE DEF h
  <2> QED BY <2>1, <2>2
<1>10. f = [i \in 1 .. N |-> Value(f, i)]
  BY <1>9
<1>11. f = [i \in 1 .. N |-> Text(f, i)]
  <2> HIDE DEF Value, Text
  <2> QED BY <1>3, <1>10
<1>12. from = [i \in 1 .. N |-> Text(from, i)]
  <2> HIDE DEF Text
  <2> QED BY <1>11
<1> HIDE DEF from, Text
<1>13. \A i \in 1 .. N : from[i] = Value(from, i)
  BY <1>3, <1>12
<1>14. \A i \in 1 .. N : from[i] \in D
  <2> DEFINE S == {i \in 1 .. N : from[i] \in D}
  <2>1. ASSUME NEW i \in 1 .. N, (i + 1 .. N) \subseteq S PROVE i \in S
    <3> DEFINE h == [k \in i + 1 .. N |-> from[k]]
    <3>1. h \in [i + 1 .. N -> D]
      BY <2>1
    <3>2. Value(h, i) \in D
      BY <1>5, <3>1
    <3>3. Value(h, i) = Value(from, i)
      BY <1>2
    <3> HIDE DEF h, Value
    <3> QED BY <1>13, <3>2, <3>3
  <2>2. 1 .. N \subseteq S
    <3> HIDE DEF S, N
    <3> QED BY <1>4, <2>1, InductDown
  <2> QED BY <2>2
<1>15. from \in [1 .. N -> D]
  <2>1. from = [i \in 1 .. N |-> from[i]]
    BY <1>12
  <2> QED BY <1>14, <2>1
<1>16. \A i \in 1 .. m : TokenAt(p, i) \in V
  OBVIOUS
<1> HIDE DEF V
<1> QED BY <1>1, <1>13, <1>15, <1>16

(* What GlobMeans says of the rest of a pattern, in terms of its next token. *)
RestReads(p, path, reads, i, j) ==
    IF i > Len(p) THEN j = Len(path)
    ELSE \E k \in 0 .. Len(path) :
            Spans(TokenAt(p, i), path, j, k) /\ reads[NextAt(p, i)][k + 1]

(* GlobMeans, for a place in the pattern and a place in the path, from what *)
(* f says of later places in the pattern.                                   *)
Reading(p, path, f, i, j) ==
    CASE i > Len(p) -> j = Len(path) + 1
      [] i <= Len(p) /\ p[i] = "*" /\ At(p, i + 1) = "*" ->
           \E k \in j .. Len(path) + 1 : f[IF At(p, i + 2) = "/" THEN i + 3 ELSE i + 2][k]
      [] i <= Len(p) /\ p[i] = "*" /\ At(p, i + 1) # "*" ->
           \E k \in j .. Len(path) + 1 :
              (\A l \in j .. k - 1 : path[l] # "/") /\ f[i + 1][k]
      [] OTHER ->
           /\ j <= Len(path)
           /\ IF p[i] = "?" THEN path[j] # "/" ELSE path[j] = p[i]
           /\ f[i + 1][j + 1]

LEMMA Meaning ==
    ASSUME NEW m \in Nat, NEW p, Len(p) = m, NEW n \in Nat, NEW path, Len(path) = n
    PROVE  \E reads :
              /\ GlobMeans(p, path) <=> reads[1][1]
              /\ \A i \in 1 .. m + 3 : \A j \in 0 .. n :
                    reads[i][j + 1] <=> RestReads(p, path, reads, i, j)
<1> DEFINE N == m + 3
           D == [1 .. n + 1 -> BOOLEAN]
           Value(f, i) == [j \in 1 .. n + 1 |-> Reading(p, path, f, i, j)]
           reads == CHOOSE f : f = [i \in 1 .. N |-> Value(f, i)]
           G == [i \in 1 .. N |-> [f \in [i + 1 .. N -> D] |-> Value(f, i)]]
<1>1. GlobMeans(p, path) = reads[1][1]
  BY DEF GlobMeans, Reading
<1>2. N \in Nat /\ N > 0
  OBVIOUS
<1>3. \A f, i : Value(f, i) \in D
  BY DEF Reading
<1>4. \A i \in 1 .. N : \A f \in [i + 1 .. N -> D] : G[i][f] = Value(f, i)
  OBVIOUS
<1> HIDE DEF G
<1>5. GivesDown(G, N, D)
  <2> HIDE DEF Value
  <2> QED BY <1>3, <1>4 DEF GivesDown
<1>6. PICK f \in [1 .. N -> D] : ObeysDown(f, G, N)
  <2> HIDE DEF N, D
  <2> QED BY <1>2, <1>5, RecursionDown
<1>7. ASSUME NEW i \in 1 .. N PROVE f[i] = Value(f, i)
  <2> DEFINE h == [k \in i + 1 .. N |-> f[k]]
  <2>1. h \in [i + 1 .. N -> D] /\ \A k \in i + 1 .. N : h[k] = f[k]
    OBVIOUS
  <2>2. f[i] = Value(h, i)
    <3> HIDE DEF D, Value
    <3> QED BY <1>4, <1>6, <2>1 DEF ObeysDown
  <2> HIDE DEF h
  <2>3. i <= m => h[NextAt(p, i)] = f[NextAt(p, i)]
    <3> SUFFICES ASSUME i <= m PROVE NextAt(p, i) \in i + 1 .. N
      BY <2>1
    <3> QED BY DEF NextAt
  <2>4. ASSUME NEW j \in 1 .. n + 1
        PROVE  Reading(p, path, h, i, j) = Reading(p, path, f, i, j)
    <3>1. CASE i > m
      <4>1. ~ (i <= Len(p))
        BY <3>1
      <4> QED BY <3>1, <4>1 DEF Reading
    <3>2. CASE i <= m
      <4>1. ~ (i > Len(p)) /\ h[NextAt(p, i)] = f[NextAt(p, i)]
        BY <2>3, <3>2
      <4>2. CASE p[i] = "*" /\ At(p, i + 1) = "*"
        BY <3>2, <4>1, <4>2 DEF Reading, NextAt
      <4>3. CASE p[i] = "*" /\ At(p, i + 1) # "*"
        BY <3>2, <4>1, <4>3 DEF Reading, NextAt
      <4>4. CASE p[i] # "*"
        BY <3>2, <4>1, <4>4 DEF Reading, NextAt
      <4> QED BY <4>2, <4>3, <4>4
    <3> QED BY <3>1, <3>2
  <2>5. Value(h, i) = Value(f, i)
    BY <2>4
  <2> QED BY <2>2, <2>5
<1>8. f = [i \in 1 .. N |-> Value(f, i)]
  <2> HIDE DEF Value
  <2> QED BY <1>7
<1>9. reads = [i \in 1 .. N |-> Value(reads, i)]
  <2> HIDE DEF Value
  <2> QED BY <1>8
<1> HIDE DEF reads
<1>10. ASSUME NEW i \in 1 .. N, NEW j \in 0 .. n
       PROVE  reads[i][j + 1] <=> RestReads(p, path, reads, i, j)
  <2> DEFINE R == Reading(p, path, reads, i, j + 1)
             x == NextAt(p, i)
  <2>1. reads[i][j + 1] = R
    <3>1. j + 1 \in 1 .. n + 1
      OBVIOUS
    <3>2. reads[i] = Value(reads, i)
      <4> HIDE DEF Value
      <4> QED BY <1>9
    <3> QED BY <3>1, <3>2
  <2>2. CASE i > m
    <3>1. ~ (i <= Len(p)) /\ i > Len(p)
      BY <2>2
    <3>2. R = (j + 1 = n + 1)
      BY <3>1 DEF Reading
    <3>3. RestReads(p, path, reads, i, j) = (j = n)
      BY <3>1 DEF RestReads
    <3>4. (j + 1 = n + 1) = (j = n)
      OBVIOUS
    <3> QED BY <2>1, <3>2, <3>3, <3>4, Zenon
  <2>3. CASE i <= m /\ p[i] = "*" /\ At(p, i + 1) = "*"
    <3>1. TokenAt(p, i) = DoubleStar /\ DoubleStar.kind = "**"
      BY <2>3 DEF TokenAt, DoubleStar
    <3>2. R = \E k \in j + 1 .. n + 1 : reads[x][k]
      <4>1. ~ (i > Len(p))
        BY <2>3
      <4> QED BY <2>3, <4>1 DEF Reading, NextAt
    <3>3. \A k : Spans(TokenAt(p, i), path, j, k) <=> j <= k
      BY <3>1 DEF Spans
    <3> HIDE DEF R, x
    <3>4. RestReads(p, path, reads, i, j) <=> \E k \in 0 .. n : j <= k /\ reads[x][k + 1]
      <4>1. ~ (i > Len(p))
        BY <2>3
      <4> QED BY <3>3, <4>1, Zenon DEF RestReads, x
    <3>5. ASSUME NEW k \in j + 1 .. n + 1, reads[x][k]
          PROVE  \E l \in 0 .. n : j <= l /\ reads[x][l + 1]
      <4>1. k - 1 \in 0 .. n /\ j <= k - 1 /\ (k - 1) + 1 = k
        OBVIOUS
      <4> QED BY <3>5, <4>1
    <3>6. ASSUME NEW k \in 0 .. n, j <= k, reads[x][k + 1]
          PROVE  \E l \in j + 1 .. n + 1 : reads[x][l]
      <4>1. k + 1 \in j + 1 .. n + 1
        BY <3>6
      <4> QED BY <3>6, <4>1
    <3> QED BY <2>1, <3>2, <3>4, <3>5, <3>6
  <2>4. CASE i <= m /\ p[i] = "*" /\ At(p, i + 1) # "*"
    <3> DEFINE Clear(k) == \A l \in j + 1 .. k : path[l] # "/"
    <3>1. TokenAt(p, i) = Star /\ Star.kind = "*"
      BY <2>4 DEF TokenAt, Star
    <3>2. R = \E k \in j + 1 .. n + 1 : Clear(k - 1) /\ reads[x][k]
      <4>1. ~ (i > Len(p))
        BY <2>4
      <4> QED BY <2>4, <4>1 DEF Reading, NextAt
    <3>3. \A k : Spans(TokenAt(p, i), path, j, k) <=> j <= k /\ Clear(k)
      BY <3>1 DEF Spans
    <3> HIDE DEF R, x, Clear
    <3>4. RestReads(p, path, reads, i, j) <=>
             \E k \in 0 .. n : (j <= k /\ Clear(k)) /\ reads[x][k + 1]
      <4>1. ~ (i > Len(p))
        BY <2>4
      <4> QED BY <3>3, <4>1, Zenon DEF RestReads, x
    <3>5. ASSUME NEW k \in j + 1 .. n + 1, Clear(k - 1), reads[x][k]
          PROVE  \E l \in 0 .. n : (j <= l /\ Clear(l)) /\ reads[x][l + 1]
      <4>1. k - 1 \in 0 .. n /\ j <= k - 1 /\ (k - 1) + 1 = k
        OBVIOUS
      <4> QED BY <3>5, <4>1
    <3>6. ASSUME NEW k \in 0 .. n, j <= k, Clear(k), reads[x][k + 1]
          PROVE  \E l \in j + 1 .. n + 1 : Clear(l - 1) /\ reads[x][l]
      <4>1. k + 1 \in j + 1 .. n + 1 /\ (k + 1) - 1 = k
        BY <3>6
      <4> QED BY <3>6, <4>1
    <3> QED BY <2>1, <3>2, <3>4, <3>5, <3>6
  <2>5. CASE i <= m /\ p[i] # "*"
    <3> DEFINE Fits == IF p[i] = "?" THEN path[j + 1] # "/" ELSE path[j + 1] = p[i]
    <3>1. R = (j + 1 <= n /\ Fits /\ reads[x][(j + 1) + 1])
      <4>1. ~ (i > Len(p))
        BY <2>5
      <4> QED BY <2>5, <4>1 DEF Reading, NextAt
    <3>2. \A k : Spans(TokenAt(p, i), path, j, k) <=> k = j + 1 /\ Fits
      <4>1. CASE p[i] = "?"
        <5>1. TokenAt(p, i).kind = "?"
          BY <2>5, <4>1 DEF TokenAt, Question
        <5> QED BY <4>1, <5>1 DEF Spans
      <4>2. CASE p[i] # "?"
        <5>1. TokenAt(p, i).kind = "literal" /\ TokenAt(p, i).char = p[i]
          BY <2>5, <4>2 DEF TokenAt, Literal
        <5> QED BY <4>2, <5>1 DEF Spans
      <4> QED BY <4>1, <4>2
    <3> HIDE DEF R, x, Fits
    <3>3. RestReads(p, path, reads, i, j) <=>
             \E k \in 0 .. n : (k = j + 1 /\ Fits) /\ reads[x][k + 1]
      <4>1. ~ (i > Len(p))
        BY <2>5
      <4> QED BY <3>2, <4>1, Zenon DEF RestReads, x
    <3>4. j + 1 <= n <=> j + 1 \in 0 .. n
      OBVIOUS
    <3> QED BY <2>1, <3>1, <3>3, <3>4
  <2> QED BY <2>2, <2>3, <2>4, <2>5
<1> QED BY <1>1, <1>10

\* The matcher of token rows, with "**" taking a slash along, says of every
\* pattern and every path, of any length, what the comments of GlobMatch and
\* globTokenize say of them (guardrail.go:545-641).
THEOREM GlobsSound ==
    ASSUME NEW C, NEW p \in Seq(C), NEW D, NEW path \in Seq(D)
    PROVE  GlobMatch(p, path) <=> GlobMeans(p, path)
<1> DEFINE m == Len(p)
           n == Len(path)
           N == m + 3
<1>1. m \in Nat /\ n \in Nat /\ N \in Nat
  OBVIOUS
<1>2. PICK V : /\ \A i \in 1 .. m : TokenAt(p, i) \in V
               /\ \E from \in [1 .. m + 3 -> Seq(V)] :
                    /\ from[1] = Tokenize(p)
                    /\ \A i \in 1 .. m + 3 :
                         from[i] = IF i > m THEN <<>>
                                   ELSE <<TokenAt(p, i)>> \o from[NextAt(p, i)]
  BY <1>1, Tokens
<1>3. PICK from \in [1 .. N -> Seq(V)] :
           /\ from[1] = Tokenize(p)
           /\ \A i \in 1 .. N : from[i] = IF i > m THEN <<>>
                                          ELSE <<TokenAt(p, i)>> \o from[NextAt(p, i)]
  BY <1>2
<1>4. PICK reads : /\ GlobMeans(p, path) <=> reads[1][1]
                   /\ \A i \in 1 .. N : \A j \in 0 .. n :
                         reads[i][j + 1] <=> RestReads(p, path, reads, i, j)
  BY <1>1, Meaning
<1> DEFINE S == {i \in 1 .. N : \A j \in 0 .. n : reads[i][j + 1] <=> Cut(from[i], path, j)}
<1>5. ASSUME NEW i \in 1 .. N, (i + 1 .. N) \subseteq S PROVE i \in S
  <2> SUFFICES ASSUME NEW j \in 0 .. n PROVE reads[i][j + 1] <=> Cut(from[i], path, j)
    OBVIOUS
  <2>1. reads[i][j + 1] <=> RestReads(p, path, reads, i, j)
    BY <1>4
  <2>2. CASE i > m
    <3>1. from[i] = <<>>
      BY <1>3, <2>2
    <3>2. Cut(<<>>, path, j) <=> j = n
      BY <1>1, CutNil
    <3> QED BY <2>1, <2>2, <3>1, <3>2 DEF RestReads
  <2>3. CASE i <= m
    <3> DEFINE x == NextAt(p, i)
               t == TokenAt(p, i)
    <3>1. x \in i + 1 .. N
      BY <1>1, <2>3 DEF NextAt
    <3>2. \A k \in 0 .. n : reads[x][k + 1] <=> Cut(from[x], path, k)
      BY <1>5, <3>1
    <3>3. t \in V /\ from[x] \in Seq(V) /\ from[i] = <<t>> \o from[x]
      BY <1>1, <1>2, <1>3, <2>3, <3>1
    <3>4. RestReads(p, path, reads, i, j) <=>
            \E k \in 0 .. n : Spans(t, path, j, k) /\ reads[x][k + 1]
      BY <2>3 DEF RestReads
    <3> HIDE DEF x, t, S
    <3>5. Cut(<<t>> \o from[x], path, j) <=>
            \E k \in 0 .. n : Spans(t, path, j, k) /\ Cut(from[x], path, k)
      BY <1>1, <3>3, CutCons
    <3> QED BY <2>1, <3>2, <3>3, <3>4, <3>5
  <2> QED BY <1>1, <2>2, <2>3
<1>6. 1 .. N \subseteq S
  <2> HIDE DEF S, N
  <2> QED BY <1>1, <1>5, InductDown
<1>7. reads[1][1] <=> Cut(Tokenize(p), path, 0)
  <2>1. 1 \in 1 .. N /\ 0 \in 0 .. n /\ 0 + 1 = 1
    BY <1>1
  <2> QED BY <1>3, <1>6, <2>1
<1>8. GlobTokensMatch(Tokenize(p), path) <=> Cut(Tokenize(p), path, 0)
  <2>1. Tokenize(p) \in Seq(V)
    BY <1>1, <1>3
  <2>2. Len(Tokenize(p)) \in Nat
    BY <2>1
  <2> QED BY <1>1, <2>2, TokensMatch
<1> QED BY <1>4, <1>7, <1>8 DEF GlobMatch

\* Where a diff is evaluated, the matcher agrees with its comment on all the
\* patterns and paths there are (GlobMatch).
THEOREM GlobsExactSound == Spec => []GlobsExact
<1>1. ASSUME NEW p \in Globs, NEW s \in Paths PROVE GlobMatch(p, s) <=> GlobMeans(p, s)
    <2>1. p \in Seq(ToSet(p)) /\ s \in Seq(ToSet(s))
        BY ResolverAssumption
    <2> QED
        BY <2>1, GlobsSound
<1>2. GlobsExact
    BY <1>1 DEF GlobsExact, GlobsAgree
<1> QED
    BY <1>2, PTL
-----------------------------------------------------------------------------
(* Sequences, and what is selected from them.                              *)

LEMMA ToSetAppend ==
    ASSUME NEW D, NEW q \in Seq(D), NEW v \in D
    PROVE  ToSet(Append(q, v)) = ToSet(q) \cup {v}
<1>1. /\ DOMAIN Append(q, v) = 1 .. Len(q) + 1 /\ DOMAIN q = 1 .. Len(q) /\ Len(q) \in Nat
      /\ Append(q, v)[Len(q) + 1] = v
      /\ \A k \in 1 .. Len(q) : Append(q, v)[k] = q[k]
  OBVIOUS
<1> QED BY <1>1 DEF ToSet

LEMMA ToSetConcat ==
    ASSUME NEW D, NEW p \in Seq(D), NEW q \in Seq(D)
    PROVE  ToSet(p \o q) = ToSet(p) \cup ToSet(q)
<1>1. /\ DOMAIN (p \o q) = 1 .. Len(p) + Len(q)
      /\ DOMAIN p = 1 .. Len(p) /\ DOMAIN q = 1 .. Len(q) /\ Len(p) \in Nat /\ Len(q) \in Nat
      /\ \A k \in 1 .. Len(p) : (p \o q)[k] = p[k]
      /\ \A k \in 1 .. Len(q) : (p \o q)[Len(p) + k] = q[k]
  OBVIOUS
<1>2. ASSUME NEW k \in 1 .. Len(p) + Len(q) PROVE (p \o q)[k] \in ToSet(p) \cup ToSet(q)
  <2>1. CASE k <= Len(p)
    BY <1>1, <2>1 DEF ToSet
  <2>2. CASE k > Len(p)
    <3>1. k - Len(p) \in 1 .. Len(q) /\ Len(p) + (k - Len(p)) = k
      BY <1>1, <2>2
    <3> QED BY <1>1, <3>1 DEF ToSet
  <2> QED BY <1>1, <2>1, <2>2
<1>3. ASSUME NEW k \in 1 .. Len(q) PROVE q[k] \in ToSet(p \o q)
  <2>1. Len(p) + k \in 1 .. Len(p) + Len(q)
    BY <1>1
  <2> QED BY <1>1, <2>1 DEF ToSet
<1>4. ASSUME NEW k \in 1 .. Len(p) PROVE p[k] \in ToSet(p \o q)
  <2>1. k \in 1 .. Len(p) + Len(q)
    BY <1>1
  <2> QED BY <1>1, <2>1 DEF ToSet
<1>5. ToSet(p \o q) \subseteq ToSet(p) \cup ToSet(q)
  <2>1. ToSet(p \o q) = {(p \o q)[k] : k \in 1 .. Len(p) + Len(q)}
    BY <1>1 DEF ToSet
  <2> QED BY <1>2, <2>1
<1>6. ToSet(p) \subseteq ToSet(p \o q) /\ ToSet(q) \subseteq ToSet(p \o q)
  <2>1. ToSet(p) = {p[k] : k \in 1 .. Len(p)} /\ ToSet(q) = {q[k] : k \in 1 .. Len(q)}
    BY <1>1 DEF ToSet
  <2> QED BY <1>3, <1>4, <2>1
<1> QED BY <1>5, <1>6

LEMMA SelectSet ==
    ASSUME NEW D, NEW s \in Seq(D), NEW S
    PROVE  Select(s, S) \in Seq(D) /\ ToSet(Select(s, S)) = ToSet(s) \cap S
<1> DEFINE n == Len(s)
           E == Seq(D)
           Value(f, i) == IF i = 0 THEN <<>>
                          ELSE IF s[i] \in S THEN Append(f[i - 1], s[i]) ELSE f[i - 1]
           of == CHOOSE f : f = [i \in 0 .. n |-> Value(f, i)]
           G == [i \in 0 .. n |-> [f \in [0 .. i - 1 -> E] |-> Value(f, i)]]
<1>1. Select(s, S) = of[n]
  BY DEF Select
<1>2. n \in Nat /\ DOMAIN s = 1 .. n /\ \A i \in 1 .. n : s[i] \in D
  OBVIOUS
<1>3. ASSUME NEW i \in 0 .. n, NEW f, i > 0 => f[i - 1] \in E PROVE Value(f, i) \in E
  <2>1. CASE i = 0
    BY <2>1
  <2>2. CASE i > 0
    <3>1. f[i - 1] \in Seq(D) /\ s[i] \in D
      BY <1>2, <1>3, <2>2
    <3> QED BY <2>2, <3>1
  <2> QED BY <2>1, <2>2
<1>4. \A i \in 0 .. n : \A f \in [0 .. i - 1 -> E] : G[i][f] = Value(f, i)
  OBVIOUS
<1> HIDE DEF G, n
<1>5. Gives(G, n, E)
  <2> SUFFICES ASSUME NEW i \in 0 .. n, NEW f \in [0 .. i - 1 -> E] PROVE Value(f, i) \in E
    BY <1>4 DEF Gives
  <2>1. i > 0 => f[i - 1] \in E
    BY <1>2
  <2> HIDE DEF Value, E
  <2> QED BY <1>3, <2>1
<1>6. PICK f \in [0 .. n -> E] : Obeys(f, G, n)
  <2> HIDE DEF E
  <2> QED BY <1>2, <1>5, Recursion
<1>7. ASSUME NEW i \in 0 .. n PROVE f[i] = Value(f, i)
  <2> DEFINE h == [k \in 0 .. i - 1 |-> f[k]]
  <2>1. h \in [0 .. i - 1 -> E] /\ (i # 0 => h[i - 1] = f[i - 1])
    BY <1>2
  <2>2. f[i] = Value(h, i)
    <3> HIDE DEF E, Value
    <3> QED BY <1>4, <1>6, <2>1 DEF Obeys
  <2> HIDE DEF h
  <2> QED BY <2>1, <2>2
<1>8. f = [i \in 0 .. n |-> Value(f, i)]
  <2> HIDE DEF Value
  <2> QED BY <1>7
<1>9. of = [i \in 0 .. n |-> Value(of, i)]
  <2> HIDE DEF Value
  <2> QED BY <1>8
<1> HIDE DEF of
<1>10. \A i \in 0 .. n : of[i] = Value(of, i)
  <2> HIDE DEF Value
  <2> QED BY <1>9
<1> DEFINE Right(i) == of[i] \in Seq(D) /\ ToSet(of[i]) = {s[l] : l \in 1 .. i} \cap S
           T == {i \in Nat : i <= n => Right(i)}
<1>11. 0 \in T
  <2>1. of[0] = <<>>
    BY <1>2, <1>10
  <2>2. of[0] \in Seq(D) /\ ToSet(of[0]) = {}
    BY <2>1 DEF ToSet
  <2>3. {s[l] : l \in 1 .. 0} = {}
    OBVIOUS
  <2> QED BY <2>2, <2>3
<1>12. ASSUME NEW i \in Nat, i \in T PROVE i + 1 \in T
  <2> SUFFICES ASSUME i + 1 <= n PROVE Right(i + 1)
    OBVIOUS
  <2>1. of[i] \in Seq(D) /\ ToSet(of[i]) = {s[l] : l \in 1 .. i} \cap S
    <3>1. i <= n
      BY <1>2
    <3> HIDE DEF Right
    <3>2. Right(i)
      BY <1>12, <3>1
    <3> QED BY <3>2 DEF Right
  <2>2. i + 1 \in 0 .. n /\ (i + 1) - 1 = i /\ s[i + 1] \in D
    BY <1>2
  <2>3. of[i + 1] = IF s[i + 1] \in S THEN Append(of[i], s[i + 1]) ELSE of[i]
    BY <1>10, <2>2
  <2>4. {s[l] : l \in 1 .. i + 1} = {s[l] : l \in 1 .. i} \cup {s[i + 1]}
    <3>1. \A l : l \in 1 .. i + 1 <=> l \in 1 .. i \/ l = i + 1
      OBVIOUS
    <3> QED BY <3>1
  <2>5. CASE s[i + 1] \notin S
    <3>1. of[i + 1] = of[i]
      BY <2>3, <2>5
    <3> QED BY <2>1, <2>4, <2>5, <3>1
  <2>6. CASE s[i + 1] \in S
    <3>1. of[i + 1] = Append(of[i], s[i + 1])
      BY <2>3, <2>6
    <3>2. ToSet(of[i + 1]) = ToSet(of[i]) \cup {s[i + 1]} /\ of[i + 1] \in Seq(D)
      BY <2>1, <2>2, <3>1, ToSetAppend
    <3> QED BY <2>1, <2>4, <2>6, <3>2
  <2> QED BY <2>5, <2>6
<1> HIDE DEF T
<1>13. n \in T
  BY <1>2, <1>11, <1>12, Induct
<1>14. Right(n)
  BY <1>2, <1>13 DEF T
<1>15. ToSet(s) = {s[l] : l \in 1 .. n}
  BY <1>2 DEF ToSet
<1> QED BY <1>1, <1>14, <1>15

LEMMA LeastOf ==
    ASSUME NEW P, P \subseteq Nat, P # {}
    PROVE  \E i \in P : \A j \in P : i <= j
<1> DEFINE R == OpToRel(<, Nat)
<1>1. IsWellFoundedOn(R, Nat)
    BY NatLessThanWellFounded
<1>2. \A x, y \in Nat : <<x, y>> \in R <=> x < y
    BY DEF OpToRel
<1> HIDE DEF R
<1>3. PICK m \in P : \A y \in P : ~ (<<y, m>> \in R)
    BY <1>1, WFMin
<1>4. ASSUME NEW j \in P PROVE m <= j
    <2>1. m \in Nat /\ j \in Nat
        BY <1>3
    <2>2. ~ (j < m)
        BY <1>2, <1>3, <2>1
    <2> QED
        BY <2>1, <2>2
<1> QED
    BY <1>3, <1>4

-----------------------------------------------------------------------------
(* What a pack leaves of the global rules, and what it adds.               *)

Put(r, source) == [rule |-> r, source |-> source]

Spares(pack, r) == r.name \notin pack.disable \cup {q.name : q \in ToSet(pack.rules)}

Merged(global, source, pack) ==
    {Put(r, source) : r \in {q \in ToSet(global) : Spares(pack, q)}}
    \cup {Put(r, "pack") : r \in ToSet(pack.rules)}

\* Merge keeps the global rules that the pack spares and adds all the pack's:
\* a rule of the pack that finds its name taken by an earlier one goes to the end.
LEMMA MergeSet ==
    ASSUME NEW D, NEW global \in Seq(D), NEW source, NEW pack, NEW C, pack.rules \in Seq(C)
    PROVE  /\ ToSet(Merge(global, source, pack)) = Merged(global, source, pack)
           /\ \E X : Merge(global, source, pack) \in Seq(X)
<1> DEFINE rules == pack.rules
           N == DOMAIN rules
           kept == Select(global, {r \in ToSet(global) : r.name \notin pack.disable})
           First(a) == \A j \in 1 .. a - 1 : rules[j].name # rules[a].name
           Replaces(a, r) == First(a) /\ rules[a].name = r.name
           places == [a \in N |-> a]
           late == {a \in N : \A r \in ToSet(kept) : ~Replaces(a, r)}
           added == Select(places, late)
           front == [k \in DOMAIN kept |->
                       LET by == {a \in N : Replaces(a, kept[k])} IN
                       IF by = {} THEN [rule |-> kept[k], source |-> source]
                       ELSE [rule |-> rules[CHOOSE a \in by : TRUE], source |-> "pack"]]
           back == Tagged([k \in DOMAIN added |-> rules[added[k]]], "pack")
           fresh == {a \in N : \E r \in ToSet(kept) : Replaces(a, r)}
           Of(A) == {Put(rules[a], "pack") : a \in A}
           stay == {q \in ToSet(global) : Spares(pack, q)}
<1>1. Merge(global, source, pack) = front \o back
  BY DEF Merge
<1>2. kept \in Seq(D) /\ ToSet(kept) = {r \in ToSet(global) : r.name \notin pack.disable}
  <2> DEFINE enabled == {r \in ToSet(global) : r.name \notin pack.disable}
  <2>1. enabled \subseteq ToSet(global)
    OBVIOUS
  <2> HIDE DEF enabled
  <2>2. /\ Select(global, enabled) \in Seq(D)
        /\ ToSet(Select(global, enabled)) = ToSet(global) \cap enabled
    BY SelectSet
  <2> QED BY <2>1, <2>2 DEF enabled
<1>3. N = 1 .. Len(rules) /\ Len(rules) \in Nat
  OBVIOUS
<1>4. added \in Seq(Nat) /\ ToSet(added) = late
  <2>1. places \in Seq(Nat)
    OBVIOUS
  <2>2. ToSet(places) = N
    BY DEF ToSet
  <2>3. late \subseteq N
    OBVIOUS
  <2> HIDE DEF places, late
  <2>4. Select(places, late) \in Seq(Nat) /\ ToSet(Select(places, late)) = ToSet(places) \cap late
    BY <2>1, SelectSet
  <2> QED BY <2>2, <2>3, <2>4
<1> HIDE DEF kept, added
<1>5. ASSUME NEW a \in N, NEW b \in N, First(a), First(b), rules[a].name = rules[b].name
      PROVE  a = b
  <2>1. a \in Nat /\ b \in Nat /\ (a < b => a \in 1 .. b - 1) /\ (b < a => b \in 1 .. a - 1)
    BY <1>3
  <2> QED BY <1>5, <2>1
<1>6. ASSUME NEW a \in N PROVE \E b \in N : First(b) /\ rules[b].name = rules[a].name
  <2> DEFINE P == {b \in N : rules[b].name = rules[a].name}
  <2>1. P \subseteq Nat /\ P # {}
    BY <1>3
  <2>2. PICK b \in P : \A j \in P : b <= j
    BY <2>1, LeastOf
  <2>3. b \in N /\ b \in Nat /\ rules[b].name = rules[a].name
    BY <1>3, <2>2
  <2>4. ASSUME NEW j \in 1 .. b - 1 PROVE rules[j].name # rules[b].name
    <3>1. j \in N /\ ~ (b <= j)
      BY <1>3, <2>3
    <3>2. j \notin P
      BY <2>2, <3>1
    <3> QED BY <2>3, <3>1, <3>2
  <2> QED BY <2>3, <2>4
<1> HIDE DEF First
<1>7. DOMAIN front = DOMAIN kept /\ DOMAIN kept = 1 .. Len(kept) /\ Len(kept) \in Nat
  BY <1>2
<1>8. ASSUME NEW k \in DOMAIN kept, kept[k] \in stay PROVE front[k] = Put(kept[k], source)
  <2>1. {a \in N : Replaces(a, kept[k])} = {}
    <3>1. \A a \in N : rules[a].name # kept[k].name
      BY <1>8 DEF Spares, ToSet
    <3> QED BY <3>1
  <2> QED BY <2>1 DEF Put
<1>9. ASSUME NEW k \in DOMAIN kept, NEW a \in N, Replaces(a, kept[k])
      PROVE  front[k] = Put(rules[a], "pack")
  <2>1. {b \in N : Replaces(b, kept[k])} = {a}
    BY <1>5, <1>9
  <2>2. (CHOOSE b \in {a} : TRUE) = a
    OBVIOUS
  <2> QED BY <2>1, <2>2 DEF Put
<1>10. ASSUME NEW k \in DOMAIN kept, kept[k] \notin stay
       PROVE  \E a \in N : Replaces(a, kept[k])
  <2>1. kept[k] \in ToSet(global) /\ kept[k].name \notin pack.disable
    <3>1. kept[k] \in ToSet(kept)
      BY DEF ToSet
    <3> QED BY <1>2, <3>1
  <2>2. PICK a \in N : rules[a].name = kept[k].name
    BY <1>10, <2>1 DEF Spares, ToSet
  <2> QED BY <1>6, <2>2
<1>11. stay \subseteq ToSet(kept)
  BY <1>2 DEF Spares
<1>12. /\ ToSet(front) = {front[k] : k \in DOMAIN kept}
       /\ ToSet(kept) = {kept[k] : k \in DOMAIN kept}
  BY DEF ToSet
<1> HIDE DEF front, stay, Replaces
<1>13. ToSet(front) = {Put(r, source) : r \in stay} \cup Of(fresh)
  <2>1. ASSUME NEW k \in DOMAIN kept
        PROVE  front[k] \in {Put(r, source) : r \in stay} \cup Of(fresh)
    <3>1. CASE kept[k] \in stay
      BY <1>8, <3>1
    <3>2. CASE kept[k] \notin stay
      <4>1. PICK a \in N : Replaces(a, kept[k])
        BY <1>10, <3>2
      <4>2. a \in fresh
        BY <1>12, <4>1
      <4> QED BY <1>9, <4>1, <4>2
    <3> QED BY <3>1, <3>2
  <2>2. ASSUME NEW r \in stay PROVE Put(r, source) \in ToSet(front)
    BY <1>8, <1>11, <1>12
  <2>3. ASSUME NEW a \in fresh PROVE Put(rules[a], "pack") \in ToSet(front)
    <3>1. PICK k \in DOMAIN kept : Replaces(a, kept[k])
      BY <1>12
    <3> QED BY <1>9, <1>12, <3>1
  <2> HIDE DEF fresh
  <2> QED BY <1>12, <2>1, <2>2, <2>3
<1>14. ToSet(back) = Of(late)
  <2>1. ToSet(added) = {added[k] : k \in DOMAIN added}
    BY DEF ToSet
  <2>2. ToSet(back) = {back[k] : k \in DOMAIN back}
    BY DEF ToSet
  <2>3. DOMAIN back = DOMAIN added /\ \A k \in DOMAIN added : back[k] = Put(rules[added[k]], "pack")
    BY DEF Tagged, Put
  <2> HIDE DEF back, late
  <2> QED BY <1>4, <2>1, <2>2, <2>3
<1>15. DOMAIN back = 1 .. Len(added) /\ Len(added) \in Nat
  BY <1>4 DEF Tagged
<1> HIDE DEF back
<1> DEFINE X == ToSet(front) \cup ToSet(back)
<1>16. front \in Seq(X) /\ back \in Seq(X)
  <2>1. front = [k \in 1 .. Len(kept) |-> front[k]] /\ \A k \in 1 .. Len(kept) : front[k] \in X
    BY <1>7 DEF front, ToSet
  <2>2. back = [k \in 1 .. Len(added) |-> back[k]] /\ \A k \in 1 .. Len(added) : back[k] \in X
    BY <1>15 DEF back, ToSet, Tagged
  <2> HIDE DEF X
  <2>3. front \in [1 .. Len(kept) -> X] /\ back \in [1 .. Len(added) -> X]
    BY <2>1, <2>2
  <2> QED BY <1>7, <1>15, <2>3
<1> HIDE DEF X
<1>17. front \o back \in Seq(X) /\ ToSet(front \o back) = ToSet(front) \cup ToSet(back)
  BY <1>16, ToSetConcat
<1>18. Of(fresh) \cup Of(late) = {Put(r, "pack") : r \in ToSet(rules)}
  <2>1. fresh \cup late = N /\ ToSet(rules) = {rules[a] : a \in N}
    BY DEF ToSet
  <2> HIDE DEF fresh, late
  <2> QED BY <2>1
<1> HIDE DEF Of
<1> QED BY <1>1, <1>13, <1>14, <1>17, <1>18 DEF Merged, stay

HasRule(tagged, r) ==
    \E k \in DOMAIN tagged : \E source : tagged[k] = [rule |-> r, source |-> source]

LEMMA MergeKeeps ==
    ASSUME NEW D, NEW global \in Seq(D), NEW source, NEW pack, NEW C, pack.rules \in Seq(C),
           NEW i \in DOMAIN global, Spares(pack, global[i])
    PROVE  HasRule(Merge(global, source, pack), global[i])
<1>1. Put(global[i], source) \in Merged(global, source, pack)
  BY DEF Merged, ToSet
<1>2. Put(global[i], source) \in ToSet(Merge(global, source, pack))
  BY <1>1, MergeSet
<1> QED BY <1>2 DEF HasRule, Put, ToSet

\* Compile's naming leaves alone a rule that has a name.
LEMMA RenamedKeeps ==
    ASSUME NEW tagged, NEW r, HasRule(tagged, r), r.name # ""
    PROVE  \E t \in ToSet(Renamed(tagged)) : t.rule = r
<1> DEFINE Rule(i) == tagged[i].rule
           rules == [i \in DOMAIN tagged |-> Rule(i)]
<1>1. PICK k \in DOMAIN tagged : \E source : tagged[k] = [rule |-> r, source |-> source]
    BY DEF HasRule
<1>2. PICK source : tagged[k] = [rule |-> r, source |-> source]
    BY <1>1
<1>3. Rule(k) = r
    <2>1. [rule |-> r, source |-> source].rule = r
        OBVIOUS
    <2> QED
        BY <1>2, <2>1, Zenon
<1>4. Renamed(tagged) = [i \in DOMAIN tagged |-> [tagged[i] EXCEPT !.rule = Named(rules)[i]]]
    BY DEF Renamed
<1> HIDE DEF Rule
<1>5. k \in DOMAIN rules /\ rules[k] = r
    BY <1>1, <1>3
<1> HIDE DEF rules
<1>6. Named(rules)[k] = r
    BY <1>5 DEF Named
<1>7. Renamed(tagged)[k] = [tagged[k] EXCEPT !.rule = r] /\ k \in DOMAIN Renamed(tagged)
    BY <1>1, <1>4, <1>6
<1>8. Renamed(tagged)[k].rule = r
    BY <1>2, <1>7
<1> QED
    BY <1>7, <1>8 DEF ToSet

\* Of the global rules, a resolution loses those at most that a good pack
\* disables or names.
LEMMA RulesKept ==
    ASSUME NEW i \in DOMAIN Global, NEW entry,
           entry.hash \notin Accepted \/ Spares(entry.hash, Global[i])
    PROVE  Global[i] \in {t.rule : t \in ToSet(Rules(entry))}
<1> DEFINE r == Global[i]
           pack == entry.hash
<1>1. r.name # "" /\ Global \in Seq(ToSet(Global))
    BY ResolverAssumption DEF ToSet
<1>2. \E t \in ToSet(taggedGlobal) : t.rule = r
    <2> DEFINE tagged == Tagged(Global, Source)
    <2>1. HasRule(tagged, r)
        BY DEF Tagged, HasRule
    <2> HIDE DEF tagged, r
    <2>2. \E t \in ToSet(Renamed(tagged)) : t.rule = r
        BY <1>1, <2>1, RenamedKeeps
    <2> QED
        BY <2>2 DEF taggedGlobal, tagged
<1>3. ASSUME pack \in Accepted PROVE \E t \in ToSet(Applied(pack)) : t.rule = r
    <2> DEFINE merged == Merge(Global, Source, pack)
    <2>1. pack.rules \in Seq(ToSet(pack.rules))
        BY <1>3, ResolverAssumption DEF Accepted
    <2>2. HasRule(merged, r)
        <3>1. Spares(pack, Global[i])
            BY <1>3
        <3> HIDE DEF pack
        <3> QED
            BY <1>1, <2>1, <3>1, MergeKeeps
    <2> HIDE DEF merged, r
    <2>3. \E t \in ToSet(Renamed(merged)) : t.rule = r
        BY <1>1, <2>2, RenamedKeeps
    <2>4. Applied(pack) = Renamed(merged)
        BY <1>3 DEF Applied, merged
    <2> QED
        BY <2>3, <2>4
<1>4. Rules(entry) = taggedGlobal \/ (pack \in Accepted /\ Rules(entry) = Applied(pack))
    BY DEF Rules, Applied
<1> HIDE DEF r, pack
<1>5. \E t \in ToSet(Rules(entry)) : t.rule = r
    BY <1>2, <1>3, <1>4
<1> QED
    BY <1>5 DEF r

\* What a rule hits does not depend on the rules beside it.
LEMMA EvalGrows ==
    ASSUME NEW rules, NEW r \in rules, NEW diff
    PROVE  Eval({r}, diff) \subseteq Eval(rules, diff)
<1> DEFINE Wide(x) == /\ HasWorktreeCond(x)
                      /\ WorktreeMatches(x, Total(diff, "add"), Total(diff, "del"), Len(diff))
           Narrow(x) == ~HasWorktreeCond(x) /\ HasFileCond(x)
           Whole(x) == [rule |-> x.name, severity |-> SeverityOrDefault(x),
                        file |-> <<>>, line |-> 0]
           Hits(x) == {[rule |-> x.name, severity |-> SeverityOrDefault(x),
                        file |-> f.path, line |-> Line(x, f)] :
                          f \in {g \in ToSet(diff) : FileMatches(x, g)}}
           Found(R) == {Whole(x) : x \in {y \in R : Wide(y)}}
                       \cup UNION {Hits(x) : x \in {y \in R : Narrow(y)}}
<1>1. \A R : Eval(R, diff) = Found(R)
    BY DEF Eval
<1> HIDE DEF Wide, Narrow, Whole, Hits
<1>2. Found({r}) \subseteq Found(rules)
    OBVIOUS
<1> HIDE DEF Found
<1> QED
    BY <1>1, <1>2

-----------------------------------------------------------------------------
(* The diff parser: the loop over lines, and text that is put together.    *)

Loops(f, s, text, n) ==
    /\ DOMAIN f = 0 .. n
    /\ f[0] = s
    /\ \A i \in 1 .. n : f[i] = Take(f[i - 1], text[i])

\* The loop of Parse has a state after each line.
LEMMA ScanLoops ==
    ASSUME NEW s, NEW text, Len(text) \in Nat
    PROVE  \E f : Loops(f, s, text, Len(text)) /\ Scan(s, text) = f[Len(text)]
<1> DEFINE n == Len(text)
           Value(f, i) == IF i = 0 THEN s ELSE Take(f[i - 1], text[i])
           after == CHOOSE f : f = [i \in 0 .. n |-> Value(f, i)]
           T == {k \in Nat : \E f : Loops(f, s, text, k)}
<1>1. Scan(s, text) = after[n]
    BY DEF Scan
<1>2. 0 \in T
    <2>1. Loops([i \in 0 .. 0 |-> s], s, text, 0)
        BY DEF Loops
    <2> QED
        BY <2>1
<1>3. ASSUME NEW k \in Nat, k \in T PROVE k + 1 \in T
    <2>1. PICK f : Loops(f, s, text, k)
        BY <1>3
    <2> DEFINE g == [i \in 0 .. k + 1 |-> IF i <= k THEN f[i] ELSE Take(f[k], text[k + 1])]
    <2>2. /\ \A i \in 0 .. k : g[i] = f[i]
          /\ g[k + 1] = Take(f[k], text[k + 1])
          /\ DOMAIN g = 0 .. k + 1
        OBVIOUS
    <2> HIDE DEF g
    <2>3. ASSUME NEW i \in 1 .. k + 1 PROVE g[i] = Take(g[i - 1], text[i])
        <3>1. CASE i <= k
            <4>1. i \in 1 .. k /\ i \in 0 .. k /\ i - 1 \in 0 .. k
                BY <3>1
            <4> QED
                BY <2>1, <2>2, <4>1 DEF Loops
        <3>2. CASE i = k + 1
            <4>1. i - 1 = k /\ k \in 0 .. k
                BY <3>2
            <4> QED
                BY <2>2, <3>2, <4>1
        <3> QED
            BY <3>1, <3>2
    <2>4. g[0] = s
        <3>1. 0 \in 0 .. k
            OBVIOUS
        <3> QED
            BY <2>1, <2>2, <3>1 DEF Loops
    <2>5. Loops(g, s, text, k + 1)
        BY <2>2, <2>3, <2>4 DEF Loops
    <2> QED
        BY <2>5
<1>4. n \in T
    <2> HIDE DEF T
    <2> QED
        BY <1>2, <1>3, Induct
<1>5. PICK f : Loops(f, s, text, n)
    BY <1>4
<1> DEFINE h == [i \in 0 .. n |-> f[i]]
<1>6. Loops(h, s, text, n)
    <2>1. /\ DOMAIN h = 0 .. n /\ h[0] = f[0]
          /\ \A i \in 1 .. n : h[i] = f[i] /\ h[i - 1] = f[i - 1]
        OBVIOUS
    <2> HIDE DEF h
    <2> QED
        BY <1>5, <2>1 DEF Loops
<1> HIDE DEF n
<1>7. h = [i \in 0 .. n |-> Value(h, i)]
    <2>1. ASSUME NEW i \in 0 .. n PROVE h[i] = Value(h, i)
        <3>1. n \in Nat
            BY DEF n
        <3>2. i = 0 \/ i \in 1 .. n
            BY <3>1
        <3> HIDE DEF h
        <3> QED
            BY <1>6, <3>2 DEF Loops
    <2>2. h = [i \in 0 .. n |-> h[i]]
        OBVIOUS
    <2> HIDE DEF h, Value
    <2> QED
        BY <2>1, <2>2
<1>8. after = [i \in 0 .. n |-> Value(after, i)]
    <2> HIDE DEF Value, h
    <2> QED
        BY <1>7
<1> HIDE DEF after, h
<1>9. Loops(after, s, text, n)
    <2>1. DOMAIN after = 0 .. n /\ \A i \in 0 .. n : after[i] = Value(after, i)
        <3> HIDE DEF Value
        <3> QED
            BY <1>8
    <2>2. n \in Nat /\ 0 \in 0 .. n /\ \A i \in 1 .. n : i \in 0 .. n /\ i # 0
        BY DEF n
    <2> QED
        BY <2>1, <2>2 DEF Loops
<1> QED
    BY <1>1, <1>9 DEF n

SameLines(f, k, g, n) ==
    \A i \in 1 .. n : \E ln : f[k + i] = Take(f[k + i - 1], ln) /\ g[i] = Take(g[i - 1], ln)

\* Two runs of the loop over the same lines go the same way.
LEMMA LoopsAgree ==
    ASSUME NEW n \in Nat, NEW f, NEW g, NEW k \in Nat, SameLines(f, k, g, n), f[k] = g[0]
    PROVE  f[k + n] = g[n]
<1> DEFINE T == {i \in Nat : i <= n => f[k + i] = g[i]}
<1>1. 0 \in T
    <2>1. k + 0 = k
        OBVIOUS
    <2> QED
        BY <2>1
<1>2. ASSUME NEW i \in Nat, i \in T PROVE i + 1 \in T
    <2> SUFFICES ASSUME i + 1 <= n PROVE f[k + (i + 1)] = g[i + 1]
        OBVIOUS
    <2>1. i + 1 \in 1 .. n /\ k + (i + 1) - 1 = k + i /\ (i + 1) - 1 = i /\ f[k + i] = g[i]
        BY <1>2
    <2>2. PICK ln : /\ f[k + (i + 1)] = Take(f[k + (i + 1) - 1], ln)
                    /\ g[i + 1] = Take(g[(i + 1) - 1], ln)
        BY <2>1, Zenon DEF SameLines
    <2> QED
        BY <2>1, <2>2
<1> HIDE DEF T
<1>3. n \in T
    BY <1>1, <1>2, Induct
<1> QED
    BY <1>3 DEF T

LEMMA ScanConcat ==
    ASSUME NEW s, NEW X, NEW a \in Seq(X), NEW b \in Seq(X)
    PROVE  Scan(s, a \o b) = Scan(Scan(s, a), b)
<1> DEFINE m == Len(a)
           n == Len(b)
           t == Scan(s, a)
<1>1. /\ m \in Nat /\ n \in Nat /\ Len(a \o b) = m + n /\ Len(a \o b) \in Nat
      /\ \A i \in 1 .. m : (a \o b)[i] = a[i]
      /\ \A i \in 1 .. n : (a \o b)[m + i] = b[i]
    OBVIOUS
<1>2. PICK f : Loops(f, s, a, m) /\ t = f[m]
    BY <1>1, ScanLoops
<1>3. PICK g : Loops(g, t, b, n) /\ Scan(t, b) = g[n]
    BY <1>1, ScanLoops
<1>4. PICK h : Loops(h, s, a \o b, Len(a \o b)) /\ Scan(s, a \o b) = h[Len(a \o b)]
    BY <1>1, ScanLoops
<1> DEFINE c == a \o b
<1>5. Loops(h, s, c, m + n) /\ Scan(s, c) = h[m + n]
    BY <1>1, <1>4
<1>6. /\ \A i \in 1 .. m : c[i] = a[i]
      /\ \A i \in 1 .. n : c[m + i] = b[i]
    BY <1>1
<1> HIDE DEF c, m, n, t
<1>7. h[m] = f[m]
    <2>1. ASSUME NEW i \in 1 .. m
          PROVE  \E ln : h[0 + i] = Take(h[0 + i - 1], ln) /\ f[i] = Take(f[i - 1], ln)
        <3>1. 0 + i = i /\ i \in 1 .. m + n
            BY <1>1 DEF m, n
        <3>2. h[i] = Take(h[i - 1], a[i]) /\ f[i] = Take(f[i - 1], a[i])
            BY <1>2, <1>5, <1>6, <3>1 DEF Loops
        <3> QED
            BY <3>1, <3>2
    <2>2. h[0] = f[0] /\ m \in Nat /\ 0 \in Nat /\ 0 + m = m
        BY <1>1, <1>2, <1>5 DEF Loops, m
    <2>3. SameLines(h, 0, f, m)
        BY <2>1, Zenon DEF SameLines
    <2>4. h[0 + m] = f[m]
        BY <2>2, <2>3, LoopsAgree
    <2> QED
        BY <2>2, <2>4
<1>8. h[m + n] = g[n]
    <2>1. ASSUME NEW i \in 1 .. n
          PROVE  \E ln : h[m + i] = Take(h[m + i - 1], ln) /\ g[i] = Take(g[i - 1], ln)
        <3>1. m + i \in 1 .. m + n
            BY <1>1 DEF m, n
        <3>2. h[m + i] = Take(h[m + i - 1], b[i])
            <4>1. h[m + i] = Take(h[m + i - 1], c[m + i])
                <5>1. \A j \in 1 .. m + n : h[j] = Take(h[j - 1], c[j])
                    BY <1>5 DEF Loops
                <5>2. m \in Nat /\ n \in Nat /\ i \in Nat
                    BY <1>1 DEF m, n
                <5> QED
                    BY <3>1, <5>1, <5>2
            <4>2. c[m + i] = b[i]
                BY <1>6
            <4> QED
                BY <4>1, <4>2
        <3>3. g[i] = Take(g[i - 1], b[i])
            BY <1>3 DEF Loops
        <3> QED
            BY <3>2, <3>3
    <2>2. h[m] = g[0] /\ m \in Nat /\ n \in Nat
        BY <1>1, <1>2, <1>3, <1>7 DEF Loops, m, n
    <2>3. SameLines(h, m, g, n)
        BY <2>1, Zenon DEF SameLines
    <2> QED
        BY <2>2, <2>3, LoopsAgree
<1> QED
    BY <1>3, <1>5, <1>8 DEF c, t

LEMMA ScanOne ==
    ASSUME NEW s, NEW ln
    PROVE  Scan(s, <<ln>>) = Take(s, ln)
<1>1. Len(<<ln>>) = 1 /\ 1 \in Nat /\ <<ln>>[1] = ln
    OBVIOUS
<1>2. PICK f : Loops(f, s, <<ln>>, 1) /\ Scan(s, <<ln>>) = f[1]
    BY <1>1, ScanLoops
<1>3. 1 \in 1 .. 1 /\ 1 - 1 = 0
    OBVIOUS
<1> QED
    BY <1>1, <1>2, <1>3 DEF Loops

LEMMA ScanNone ==
    ASSUME NEW s
    PROVE  Scan(s, <<>>) = s
<1>1. Len(<<>>) = 0 /\ 0 \in Nat
    OBVIOUS
<1>2. PICK f : Loops(f, s, <<>>, 0) /\ Scan(s, <<>>) = f[0]
    BY <1>1, ScanLoops
<1> QED
    BY <1>2 DEF Loops

Lists(seqs, n, X) ==
    /\ seqs = [i \in 1 .. n |-> seqs[i]]
    /\ \A i \in 1 .. n : seqs[i] \in Seq(X)

Joins(f, seqs, n, X) ==
    /\ f[0] = <<>>
    /\ \A i \in 0 .. n : f[i] \in Seq(X)
    /\ \A i \in 1 .. n : f[i] = f[i - 1] \o seqs[i]

\* FlattenSeq puts the sequences together one after the other.
LEMMA FlattenJoins ==
    ASSUME NEW n \in Nat, NEW X, NEW seqs, Lists(seqs, n, X)
    PROVE  \E f : Joins(f, seqs, n, X) /\ FlattenSeq(seqs) = f[n]
<1> DEFINE Value(f, i) == IF i = 1 THEN seqs[i] ELSE f[i - 1] \o seqs[i]
           flatten == CHOOSE f : f = [i \in 1 .. Len(seqs) |-> Value(f, i)]
           Joined(k) == \E f : Joins(f, seqs, k, X)
           T == {k \in Nat : k <= n => Joined(k)}
<1>1. Len(seqs) = n
    BY DEF Lists
<1>9. \A i \in 1 .. n : seqs[i] \in Seq(X)
    BY DEF Lists
<1>2. FlattenSeq(seqs) = IF n = 0 THEN seqs ELSE flatten[n]
    BY <1>1 DEF FlattenSeq
<1>3. 0 \in T
    <2>1. Joins([i \in 0 .. 0 |-> <<>>], seqs, 0, X)
        BY DEF Joins
    <2> QED
        BY <2>1
<1>4. ASSUME NEW k \in Nat, k \in T PROVE k + 1 \in T
    <2> HIDE DEF Joined
    <2> SUFFICES ASSUME k + 1 <= n PROVE Joined(k + 1)
        OBVIOUS
    <2>0. Joined(k)
        BY <1>4
    <2>1. PICK f : Joins(f, seqs, k, X)
        BY <2>0 DEF Joined
    <2>9. f[0] = <<>>
        BY <2>1, Zenon DEF Joins
    <2> DEFINE g == [i \in 0 .. k + 1 |-> IF i <= k THEN f[i] ELSE f[k] \o seqs[k + 1]]
    <2>2. /\ \A i \in 0 .. k : g[i] = f[i]
          /\ g[k + 1] = f[k] \o seqs[k + 1]
        OBVIOUS
    <2> HIDE DEF g
    <2>3. 0 \in 0 .. k /\ k \in 0 .. k /\ k + 1 \in 1 .. n
        OBVIOUS
    <2>4. g[k + 1] \in Seq(X)
        BY <1>9, <2>1, <2>2, <2>3 DEF Joins
    <2>5. ASSUME NEW i \in 0 .. k + 1 PROVE g[i] \in Seq(X)
        <3>1. i \in 0 .. k \/ i = k + 1
            OBVIOUS
        <3> QED
            BY <2>1, <2>2, <2>4, <3>1 DEF Joins
    <2>6. ASSUME NEW i \in 1 .. k + 1 PROVE g[i] = g[i - 1] \o seqs[i]
        <3>1. CASE i <= k
            <4>1. i \in 1 .. k /\ i \in 0 .. k /\ i - 1 \in 0 .. k
                BY <3>1
            <4> QED
                BY <2>1, <2>2, <4>1 DEF Joins
        <3>2. CASE i = k + 1
            <4>1. i - 1 = k
                BY <3>2
            <4> QED
                BY <2>2, <2>3, <3>2, <4>1
        <3>3. i <= k \/ i = k + 1
            OBVIOUS
        <3> QED
            BY <3>1, <3>2, <3>3, Zenon
    <2>7. g[0] = <<>>
        BY <2>2, <2>3, <2>9
    <2>8. Joins(g, seqs, k + 1, X)
        BY <2>5, <2>6, <2>7 DEF Joins
    <2> QED
        BY <2>8 DEF Joined
<1>5. PICK f : Joins(f, seqs, n, X)
    <2> HIDE DEF T, Joined
    <2>1. n \in T
        BY <1>3, <1>4, Induct
    <2>2. Joined(n)
        BY <2>1 DEF T
    <2> QED
        BY <2>2 DEF Joined
<1>8. /\ f[0] = <<>>
      /\ \A i \in 1 .. n : f[i] = f[i - 1] \o seqs[i]
    BY <1>5, Zenon DEF Joins
<1>6. CASE n = 0
    <2>1. seqs = <<>>
        BY <1>6 DEF Lists
    <2> QED
        BY <1>2, <1>5, <1>6, <2>1 DEF Joins
<1>7. CASE n # 0
    <2> DEFINE h == [i \in 1 .. n |-> f[i]]
    <2>1. ASSUME NEW i \in 1 .. n PROVE h[i] = Value(h, i)
        <3>1. h[i] = f[i] /\ (i # 1 => h[i - 1] = f[i - 1])
            OBVIOUS
        <3> HIDE DEF h
        <3>2. CASE i = 1
            <4>1. f[i] = <<>> \o seqs[i] /\ seqs[i] \in Seq(X)
                <5>1. f[i] = f[i - 1] \o seqs[i] /\ seqs[i] \in Seq(X)
                    BY <1>8, <1>9
                <5>2. f[i - 1] = <<>>
                    BY <1>8, <3>2
                <5> QED
                    BY <5>1, <5>2
            <4>2. <<>> \o seqs[i] = seqs[i]
                BY <4>1
            <4> QED
                BY <3>1, <3>2, <4>1, <4>2
        <3>3. CASE i # 1
            BY <1>8, <3>1, <3>3
        <3> QED
            BY <3>2, <3>3
    <2>2. h = [i \in 1 .. n |-> h[i]]
        OBVIOUS
    <2>3. h[n] = f[n]
        BY <1>7
    <2>4. h = [i \in 1 .. Len(seqs) |-> Value(h, i)]
        <3> HIDE DEF h, Value
        <3> QED
            BY <1>1, <2>1, <2>2
    <2>5. flatten = [i \in 1 .. n |-> Value(flatten, i)]
        <3> HIDE DEF h, Value
        <3> QED
            BY <1>1, <2>4
    <2> HIDE DEF flatten, h
    <2>6. \A i \in 1 .. n : flatten[i] = Value(flatten, i)
        <3> HIDE DEF Value
        <3> QED
            BY <2>5
    <2> DEFINE U == {k \in Nat : k + 1 <= n => flatten[k + 1] = f[k + 1]}
    <2>12. \A i \in 1 .. n : \A l :
              i - 1 = l => /\ (i # 1 => flatten[i] = flatten[l] \o seqs[i])
                           /\ (i = 1 => flatten[i] = seqs[i])
                           /\ f[i] = f[l] \o seqs[i]
        BY <1>8, <2>6
    <2>7. 0 \in U
        <3>1. 0 + 1 = 1 /\ 1 \in 1 .. n
            BY <1>7
        <3>2. flatten[1] = seqs[1]
            BY <2>12, <3>1
        <3>3. f[1] = <<>> \o seqs[1] /\ seqs[1] \in Seq(X)
            <4>1. 1 - 1 = 0
                OBVIOUS
            <4> QED
                BY <1>8, <1>9, <2>12, <3>1, <4>1
        <3>4. <<>> \o seqs[1] = seqs[1]
            BY <3>3
        <3> QED
            BY <3>1, <3>2, <3>3, <3>4
    <2>8. ASSUME NEW k \in Nat, k \in U PROVE k + 1 \in U
        <3> DEFINE j == k + 1 + 1
        <3> SUFFICES ASSUME j <= n PROVE flatten[j] = f[j]
            OBVIOUS
        <3>1. j \in 1 .. n /\ j # 1 /\ j - 1 = k + 1 /\ k + 1 <= n
            OBVIOUS
        <3> HIDE DEF j
        <3>2. flatten[k + 1] = f[k + 1]
            BY <2>8, <3>1
        <3>3. flatten[j] = flatten[k + 1] \o seqs[j]
            BY <2>12, <3>1, Zenon
        <3>4. f[j] = f[k + 1] \o seqs[j]
            BY <2>12, <3>1, Zenon
        <3> QED
            BY <3>2, <3>3, <3>4
    <2>9. n - 1 \in Nat /\ (n - 1) + 1 = n
        BY <1>7
    <2>10. n - 1 \in U
        <3> HIDE DEF U
        <3> QED
            BY <2>7, <2>8, <2>9, Induct
    <2>11. flatten[n] = f[n]
        BY <2>9, <2>10
    <2> QED
        BY <1>2, <1>5, <1>7, <2>11
<1> QED
    BY <1>6, <1>7

-----------------------------------------------------------------------------
(* The lines of one change.                                                *)

File(path, oldPath, status, binary, blobs, hunks, add, del) ==
    [path |-> path, oldPath |-> oldPath, status |-> status, binary |-> binary,
     blobs |-> blobs, hunks |-> hunks, add |-> add, del |-> del]

LEMMA FileIsSome ==
    ASSUME NEW p, NEW o, NEW st, NEW bin, NEW bl, NEW hs, NEW a, NEW d
    PROVE  File(p, o, st, bin, bl, hs, a, d) # Nobody
<1>1. "path" \in DOMAIN File(p, o, st, bin, bl, hs, a, d)
    BY DEF File
<1>2. "path" \notin DOMAIN Nobody
    BY DEF Nobody
<1> QED
    BY <1>1, <1>2

\* What Take does to a state, without its choice.
Opened(s, f) == [s EXCEPT !.files = Flushed(s), !.cur = f]
With(s, f) == [s EXCEPT !.cur = f]
Counting(s, f, nums) == [s EXCEPT !.cur = f, !.nums = nums]

LEMMA StateCur ==
    ASSUME NEW F, NEW c, NEW n, NEW x
    PROVE  With(State(F, c, n), x) = State(F, x, n)
    BY DEF State, With

LEMMA StateOpened ==
    ASSUME NEW F, NEW c, NEW n, NEW x
    PROVE  Opened(State(F, c, n), x) = State(Flushed(State(F, c, n)), x, n)
<1> DEFINE G == Flushed(State(F, c, n))
<1>1. Opened(State(F, c, n), x) = [State(F, c, n) EXCEPT !.files = G, !.cur = x]
    BY DEF Opened
<1> HIDE DEF G
<1>2. [State(F, c, n) EXCEPT !.files = G] = State(G, c, n)
    BY DEF State
<1>3. [State(G, c, n) EXCEPT !.cur = x] = State(G, x, n)
    BY DEF State
<1>4. Opened(State(F, c, n), x) = State(G, x, n)
    BY <1>1, <1>2, <1>3
<1> QED
    BY <1>4 DEF G

LEMMA StateNums ==
    ASSUME NEW F, NEW c, NEW n, NEW x, NEW y
    PROVE  Counting(State(F, c, n), x, y) = State(F, x, y)
<1>1. [State(F, x, n) EXCEPT !.nums = y] = State(F, x, y)
    BY DEF State
<1>2. [State(F, c, n) EXCEPT !.cur = x] = State(F, x, n)
    BY DEF State
<1> QED
    BY <1>1, <1>2 DEF Counting

\* Take, by the kind of line.
LEMMA TakeCases ==
    ASSUME NEW s, NEW ln
    PROVE  /\ ln.is = "diff --git" => Take(s, ln) = Opened(s, NewFile(ln))
           /\ ln.is = "@@" /\ s.cur # Nobody =>
                Take(s, ln) = Counting(s, Hunk(s.cur, ln), Numbers(s.nums, ln))
           /\ ln.is \notin {"diff --git", "@@"} /\ s.cur # Nobody /\ IsHeader(s.cur, ln) =>
                Take(s, ln) = With(s, Header(s.cur, ln))
           /\ ln.is = "body" /\ s.cur # Nobody /\ InHunk(s.cur) =>
                Take(s, ln) = Counting(s, Body(s.cur, s.nums, ln), Numbers(s.nums, ln))
<1> DEFINE A == Opened(s, NewFile(ln))
           B == Counting(s, Hunk(s.cur, ln), Numbers(s.nums, ln))
           C == With(s, Header(s.cur, ln))
           D == Counting(s, Body(s.cur, s.nums, ln), Numbers(s.nums, ln))
<1>1. Take(s, ln) =
        CASE ln.is = "diff --git" -> A
          [] ln.is # "diff --git" /\ s.cur = Nobody -> s
          [] ln.is = "@@" /\ s.cur # Nobody -> B
          [] ln.is \notin {"diff --git", "@@"} /\ s.cur # Nobody /\ IsHeader(s.cur, ln) -> C
          [] ln.is = "body" /\ s.cur # Nobody /\ InHunk(s.cur) /\ ~IsHeader(s.cur, ln) -> D
          [] OTHER -> s
    BY DEF Take, Opened, With, Counting
<1>2. InHunk(s.cur) => ~IsHeader(s.cur, ln)
    BY DEF IsHeader
<1> HIDE DEF A, B, C, D
<1>3. /\ (ln.is = "diff --git" => Take(s, ln) = A)
      /\ (ln.is = "@@" /\ s.cur # Nobody => Take(s, ln) = B)
      /\ (ln.is \notin {"diff --git", "@@"} /\ s.cur # Nobody /\ IsHeader(s.cur, ln) =>
            Take(s, ln) = C)
      /\ (ln.is = "body" /\ s.cur # Nobody /\ InHunk(s.cur) => Take(s, ln) = D)
    BY <1>1, <1>2
<1> QED
    BY <1>3 DEF A, B, C, D

\* A "diff --git" line closes the file before it and opens one.
LEMMA TakeGit ==
    ASSUME NEW F, NEW c, NEW n, NEW ln, ln.is = "diff --git"
    PROVE  Take(State(F, c, n), ln) = State(Flushed(State(F, c, n)), NewFile(ln), n)
<1> DEFINE s == State(F, c, n)
<1>1. Take(s, ln) = Opened(s, NewFile(ln))
    <2> HIDE DEF s
    <2> QED
        BY TakeCases
<1>2. Opened(s, NewFile(ln)) = State(Flushed(s), NewFile(ln), n)
    BY StateOpened, Zenon
<1> QED
    BY <1>1, <1>2, Zenon

\* Before the first hunk, a line that git does not mark is a header.
LEMMA TakeHeader ==
    ASSUME NEW F, NEW n, NEW ln, ln.is \notin {"diff --git", "@@", "body"},
           NEW f, f # Nobody, ~InHunk(f)
    PROVE  Take(State(F, f, n), ln) = State(F, Header(f, ln), n)
<1>1. State(F, f, n).cur = f
    BY DEF State
<1>2. IsHeader(f, ln) /\ ln.is \notin {"diff --git", "@@"}
    BY DEF IsHeader
<1>3. Take(State(F, f, n), ln) = With(State(F, f, n), Header(f, ln))
    BY <1>1, <1>2, TakeCases
<1> QED
    BY <1>3, StateCur

Opens(ln) == ln.is = "@@"
NumsOn(ln) == [old |-> ln.old, new |-> ln.new]

LEMMA TakeHunk ==
    ASSUME NEW F, NEW n, NEW ln, Opens(ln), NEW f, f # Nobody
    PROVE  Take(State(F, f, n), ln) = State(F, Hunk(f, ln), NumsOn(ln))
<1>1. State(F, f, n).cur = f /\ State(F, f, n).nums = n
    BY DEF State
<1>2. Numbers(n, ln) = NumsOn(ln)
    BY DEF Numbers, NumsOn, Opens
<1>3. Take(State(F, f, n), ln) = Counting(State(F, f, n), Hunk(f, ln), Numbers(n, ln))
    BY <1>1, TakeCases DEF Opens
<1> QED
    BY <1>2, <1>3, StateNums

LEMMA TakeBody ==
    ASSUME NEW F, NEW n, NEW ln, ln.is = "body", NEW f, f # Nobody, InHunk(f)
    PROVE  Take(State(F, f, n), ln) = State(F, Body(f, n, ln), Numbers(n, ln))
<1>1. State(F, f, n).cur = f /\ State(F, f, n).nums = n
    BY DEF State
<1>2. Take(State(F, f, n), ln) = Counting(State(F, f, n), Body(f, n, ln), Numbers(n, ln))
    BY <1>1, TakeCases
<1> QED
    BY <1>2, StateNums

\* What a header line does to a file, without Header's choice.
AsAdded(f) == [f EXCEPT !.status = "added", !.oldPath = <<>>]
AsDeleted(f) == [f EXCEPT !.status = "deleted"]
From(f, path) == [f EXCEPT !.status = "renamed", !.oldPath = path]
To(f, path) == [f EXCEPT !.status = "renamed", !.path = path]
Indexed(f, blobs) == [f EXCEPT !.blobs = blobs]
WithBinary(f, binary) == [f EXCEPT !.binary = binary]
AsBinary(f) == WithBinary(f, TRUE)
WasAt(f, path) == [f EXCEPT !.oldPath = path,
                            !.path = IF f.status = "deleted" THEN path ELSE @]
IsAt(f, path) == [f EXCEPT !.path = path]

\* Header, by the kind of line.
LEMMA HeaderCases ==
    ASSUME NEW f, NEW ln
    PROVE  /\ ln.is = "new file" => Header(f, ln) = AsAdded(f)
           /\ ln.is = "deleted file" => Header(f, ln) = AsDeleted(f)
           /\ ln.is = "rename from" => Header(f, ln) = From(f, ln.path)
           /\ ln.is = "rename to" => Header(f, ln) = To(f, ln.path)
           /\ ln.is = "index" => Header(f, ln) = Indexed(f, ln.blobs)
           /\ ln.is = "Binary files" => Header(f, ln) = AsBinary(f)
           /\ ln.is = "---" =>
                Header(f, ln) = IF StripPrefix(ln.path) = <<>> THEN f
                                ELSE WasAt(f, StripPrefix(ln.path))
           /\ ln.is = "+++" =>
                Header(f, ln) = IF StripPrefix(ln.path) = <<>> THEN f
                                ELSE IsAt(f, StripPrefix(ln.path))
<1>1. Header(f, ln) =
        CASE ln.is = "new file" -> AsAdded(f)
          [] ln.is = "deleted file" -> AsDeleted(f)
          [] ln.is = "rename from" -> From(f, ln.path)
          [] ln.is = "rename to" -> To(f, ln.path)
          [] ln.is = "index" -> Indexed(f, ln.blobs)
          [] ln.is = "Binary files" -> AsBinary(f)
          [] LooksOld(ln) /\ PathOn(ln) # <<>> -> WasAt(f, PathOn(ln))
          [] LooksNew(ln) /\ PathOn(ln) # <<>> -> IsAt(f, PathOn(ln))
          [] OTHER -> f
    BY DEF Header, AsAdded, AsDeleted, From, To, Indexed, AsBinary, WithBinary,
           WasAt, IsAt
<1>2. /\ (ln.is = "---" => LooksOld(ln) /\ ~LooksNew(ln) /\ PathOn(ln) = StripPrefix(ln.path))
      /\ (ln.is = "+++" => LooksNew(ln) /\ ~LooksOld(ln) /\ PathOn(ln) = StripPrefix(ln.path))
      /\ (ln.is \notin {"---", "+++", "body"} => ~LooksOld(ln) /\ ~LooksNew(ln))
    BY DEF LooksOld, LooksNew, PathOn
<1> QED
    BY <1>1, <1>2

IsFirst(rest, sp, i) == rest[i] = sp /\ \A j \in 1 .. i - 1 : rest[j] # sp
FirstAt(rest, sp) == CHOOSE i \in DOMAIN rest : IsFirst(rest, sp, i)

LEMMA OneIsFirst ==
    ASSUME NEW rest, NEW sp, NEW k \in Nat, NEW n \in 1 .. k, DOMAIN rest = 1 .. k,
           rest[n] = sp, \A j \in 1 .. n - 1 : rest[j] # sp
    PROVE  FirstAt(rest, sp) = n
<1>1. IsFirst(rest, sp, n) /\ n \in DOMAIN rest
    BY DEF IsFirst
<1>2. ASSUME NEW i \in 1 .. k, IsFirst(rest, sp, i) PROVE i = n
    <2>1. rest[i] = sp /\ \A j \in 1 .. i - 1 : rest[j] # sp
        BY <1>2 DEF IsFirst
    <2>2. ~(i < n)
        BY <2>1
    <2>3. ~(n < i)
        BY <2>1
    <2> QED
        BY <2>2, <2>3
<1>3. \A i \in DOMAIN rest : IsFirst(rest, sp, i) => i = n
    BY <1>2
<1> QED
    BY <1>1, <1>3, Zenon DEF FirstAt

Stands(t, s, k) == \A i \in 1 .. Len(t) : s[k + i - 1] = t[i]

LEMMA SubEquals ==
    ASSUME NEW X, NEW t \in Seq(X), NEW s, NEW k \in Int, NEW l \in Int,
           l - k + 1 = Len(t), Stands(t, s, k)
    PROVE  SubSeq(s, k, l) = t
<1> DEFINE sub == SubSeq(s, k, l)
           m == Len(t)
<1>1. m \in Nat /\ m = l - k + 1 /\ \A i \in 1 .. m : s[k + i - 1] = t[i]
    BY DEF Stands
<1>2. \A i \in k .. l : s[i] \in X
    <2> TAKE i \in k .. l
    <2> DEFINE j == i - k + 1
    <2>1. j \in 1 .. m /\ k + j - 1 = i
        BY <1>1
    <2>2. t[j] \in X
        BY <2>1
    <2> QED
        BY <1>1, <2>1, <2>2
<1>3. /\ sub \in Seq(X) /\ Len(sub) = IF k <= l THEN l - k + 1 ELSE 0
      /\ \A i \in 1 .. l - k + 1 : sub[i] = s[k + i - 1]
    BY <1>2, SubSeqProperties
<1> HIDE DEF sub
<1>4. Len(sub) = m
    <2> HIDE DEF m
    <2> QED
        BY <1>1, <1>3
<1>5. sub = t
    BY <1>1, <1>3, <1>4, SeqEqual
<1> QED
    BY <1>5 DEF sub

Without(front, sp) == \A i \in 1 .. Len(front) : front[i] # sp
Between(front, sp, back) == front \o (<<sp>> \o back)
CutInto(rest, sp, front, back) ==
    /\ SubSeq(rest, 1, FirstAt(rest, sp) - 1) = front
    /\ SubSeq(rest, FirstAt(rest, sp) + 1, Len(rest)) = back

\* A line in two halves, cut at the mark that only stands between them.
LEMMA CutAtMark ==
    ASSUME NEW X, NEW front \in Seq(X), NEW back \in Seq(X), NEW sp \in X,
           Without(front, sp)
    PROVE  CutInto(Between(front, sp, back), sp, front, back)
<1> DEFINE rest == front \o (<<sp>> \o back)
           n == Len(front)
           m == Len(back)
           tail == <<sp>> \o back
<1>1. n \in Nat /\ m \in Nat
    OBVIOUS
<1>2. /\ tail \in Seq(X) /\ Len(tail) = m + 1 /\ tail[1] = sp
      /\ \A i \in 1 .. m : tail[1 + i] = back[i]
    OBVIOUS
<1>3. rest = front \o tail
    OBVIOUS
<1> HIDE DEF tail
<1>4. /\ rest \in Seq(X) /\ Len(rest) = n + (m + 1)
      /\ \A i \in 1 .. n : rest[i] = front[i]
      /\ \A i \in 1 .. m + 1 : rest[n + i] = tail[i]
    BY <1>2, <1>3
<1>5. \A i \in 1 .. m : rest[n + 1 + i] = back[i]
    <2> TAKE i \in 1 .. m
    <2>1. 1 + i \in 1 .. m + 1 /\ n + 1 + i = n + (1 + i)
        BY <1>1
    <2> QED
        BY <1>2, <1>4, <2>1
<1>10. Between(front, sp, back) = rest /\ \A i \in 1 .. n : front[i] # sp
    BY DEF Between, Without, tail
<1> HIDE DEF n, m, rest
<1>6. FirstAt(rest, sp) = n + 1
    <2> DEFINE k == n + (m + 1)
               i == n + 1
    <2>1. k \in Nat /\ i \in 1 .. k /\ DOMAIN rest = 1 .. k
        BY <1>1, <1>4
    <2>2. rest[i] = sp
        <3>1. 1 \in 1 .. m + 1
            BY <1>1
        <3> QED
            BY <1>2, <1>4, <3>1
    <2>3. \A j \in 1 .. i - 1 : rest[j] # sp
        <3>1. i - 1 = n
            BY <1>1
        <3>2. \A j \in 1 .. n : rest[j] # sp
            BY <1>4, <1>10
        <3> QED
            BY <3>1, <3>2
    <2> HIDE DEF k, i
    <2>4. FirstAt(rest, sp) = i
        BY <2>1, <2>2, <2>3, OneIsFirst
    <2> QED
        BY <2>4 DEF i
<1>7. SubSeq(rest, 1, n) = front
    <2>1. 1 \in Int /\ n \in Int /\ n - 1 + 1 = Len(front)
        BY <1>1 DEF n
    <2>2. Stands(front, rest, 1)
        <3>1. \A i \in 1 .. n : 1 + i - 1 = i
            OBVIOUS
        <3> QED
            BY <1>4, <3>1 DEF Stands, n
    <2> QED
        BY <2>1, <2>2, SubEquals
<1>8. SubSeq(rest, n + 2, Len(rest)) = back
    <2> DEFINE l == Len(rest)
               k == n + 2
    <2>1. l = n + (m + 1)
        BY <1>4
    <2>2. k \in Int /\ l \in Int /\ l - k + 1 = Len(back)
        BY <1>1, <2>1 DEF m
    <2>3. Stands(back, rest, k)
        <3>1. \A i \in 1 .. m : k + i - 1 = n + 1 + i
            BY <1>1
        <3> HIDE DEF k
        <3> QED
            BY <1>5, <3>1 DEF Stands, m
    <2> HIDE DEF k, l
    <2>4. SubSeq(rest, k, l) = back
        BY <2>2, <2>3, SubEquals
    <2> QED
        BY <2>4 DEF k, l
<1>9. (n + 1) - 1 = n /\ (n + 1) + 1 = n + 2
    BY <1>1
<1> QED
    BY <1>6, <1>7, <1>8, <1>9, <1>10 DEF CutInto

\* A path without its "a/" or "b/".
LEMMA Stripped ==
    ASSUME NEW X, NEW p \in Seq(X), NEW x \in {"a", "b"}, x \in X, "/" \in X
    PROVE  StripPrefix(<<x, "/">> \o p) = p
<1> DEFINE s == <<x, "/">> \o p
<1>1. /\ s \in Seq(X) /\ Len(s) = Len(p) + 2 /\ Len(p) \in Nat
      /\ s[1] = x /\ s[2] = "/" /\ \A i \in 1 .. Len(p) : s[i + 2] = p[i]
    OBVIOUS
<1> HIDE DEF s
<1>2. StripPrefix(s) = SubSeq(s, 3, Len(s))
    BY <1>1 DEF StripPrefix
<1>3. Stands(p, s, 3)
    <2>1. \A i \in 1 .. Len(p) : 3 + i - 1 = i + 2
        BY <1>1
    <2> QED
        BY <1>1, <2>1 DEF Stands
<1>4. 3 \in Int /\ Len(s) \in Int /\ Len(s) - 3 + 1 = Len(p)
    BY <1>1
<1>5. SubSeq(s, 3, Len(s)) = p
    BY <1>3, <1>4, SubEquals
<1> QED
    BY <1>2, <1>5 DEF s

Chain(front, x, y, z, q) == front \o <<x, y, z>> \o q
End(y, z, q) == <<y, z>> \o q

LEMMA ThreeThenOn ==
    ASSUME NEW X, NEW front \in Seq(X), NEW q \in Seq(X), NEW x \in X, NEW y \in X, NEW z \in X
    PROVE  Chain(front, x, y, z, q) = Between(front, x, End(y, z, q))
<1> DEFINE mid == <<x, y, z>>
           one == <<x>>
           two == <<y, z>>
<1>1. mid \in Seq(X) /\ one \in Seq(X) /\ two \in Seq(X)
    OBVIOUS
<1>2. one \o two = mid
    <2> DEFINE both == one \o two
    <2>1. both \in Seq(X) /\ Len(both) = 3 /\ both[1] = x /\ both[2] = y /\ both[3] = z
        OBVIOUS
    <2>2. Len(mid) = 3 /\ mid[1] = x /\ mid[2] = y /\ mid[3] = z
        OBVIOUS
    <2> HIDE DEF both, mid
    <2>3. \A i \in 1 .. 3 : both[i] = mid[i]
        <3>1. \A i \in 1 .. 3 : i = 1 \/ i = 2 \/ i = 3
            OBVIOUS
        <3> QED
            BY <2>1, <2>2, <3>1
    <2>4. both = mid
        BY <1>1, <2>1, <2>2, <2>3, SeqEqual
    <2> QED
        BY <2>4 DEF both
<1> HIDE DEF mid, one, two
<1>3. front \o mid \o q = front \o (mid \o q)
    BY <1>1, ConcatAssociative
<1>4. (one \o two) \o q = one \o (two \o q)
    BY <1>1, ConcatAssociative
<1>5. front \o mid \o q = front \o (one \o (two \o q))
    BY <1>2, <1>3, <1>4
<1> QED
    BY <1>5 DEF Between, Chain, End, mid, one, two

LEMMA Prefixed ==
    ASSUME NEW X, NEW p \in Seq(X), NEW a \in X, NEW sl \in X, NEW sp \in X,
           a # sp, sl # sp, Without(p, sp)
    PROVE  <<a, sl>> \o p \in Seq(X) /\ Without(<<a, sl>> \o p, sp)
<1> DEFINE front == <<a, sl>> \o p
<1>1. /\ front \in Seq(X) /\ Len(front) = Len(p) + 2 /\ Len(p) \in Nat
      /\ front[1] = a /\ front[2] = sl /\ \A i \in 1 .. Len(p) : front[i + 2] = p[i]
    OBVIOUS
<1> HIDE DEF front
<1>2. \A i \in 1 .. Len(front) : front[i] # sp
    <2> TAKE i \in 1 .. Len(front)
    <2>1. CASE i = 1 \/ i = 2
        BY <1>1, <2>1
    <2>2. CASE i > 2
        <3>1. i - 2 \in 1 .. Len(p) /\ (i - 2) + 2 = i
            BY <1>1, <2>2
        <3>2. front[i] = p[i - 2]
            BY <1>1, <3>1
        <3> QED
            BY <3>1, <3>2 DEF Without
    <2> QED
        BY <1>1, <2>1, <2>2
<1> QED
    BY <1>1, <1>2 DEF Without, front

LEMMA Halves ==
    ASSUME NEW X, NEW p \in Seq(X), NEW q \in Seq(X),
           NEW a \in X, NEW b \in X, NEW sl \in X, NEW sp \in X,
           a # sp, sl # sp, Without(p, sp)
    PROVE  CutInto(<<a, sl>> \o p \o <<sp, b, sl>> \o q, sp, <<a, sl>> \o p, <<b, sl>> \o q)
<1> DEFINE front == <<a, sl>> \o p
           back == End(b, sl, q)
<1>1. front \in Seq(X) /\ Without(front, sp)
    BY Prefixed
<1>2. back \in Seq(X)
    BY DEF End
<1> HIDE DEF front
<1>3. Chain(front, sp, b, sl, q) = Between(front, sp, back)
    BY <1>1, ThreeThenOn
<1> HIDE DEF back
<1>4. CutInto(Between(front, sp, back), sp, front, back)
    BY <1>1, <1>2, CutAtMark
<1>5. CutInto(front \o <<sp, b, sl>> \o q, sp, front, back)
    BY <1>3, <1>4 DEF Chain
<1> QED
    BY <1>5 DEF front, back, End

Plain(path) == \A i \in DOMAIN path : path[i] # " "

\* A path without a space is told by the "diff --git" line.
LEMMA PlainPaths ==
    ASSUME NEW ln, NEW Y, NEW p \in Seq(Y), ln.old = p, ln.new = p, Plain(p)
    PROVE  DiffGitPaths(ln) = [old |-> p, new |-> p]
<1> DEFINE X == Y \cup {"a", "b", "/", " "}
           rest == <<"a", "/">> \o ln.old \o <<" ", "b", "/">> \o ln.new
           sp == " "
           cut == FirstAt(rest, sp)
<1>1. DiffGitPaths(ln) = [old |-> StripPrefix(SubSeq(rest, 1, cut - 1)),
                          new |-> StripPrefix(SubSeq(rest, cut + 1, Len(rest)))]
    BY Zenon DEF DiffGitPaths, FirstAt, IsFirst
<1>2. rest = <<"a", "/">> \o p \o <<sp, "b", "/">> \o p
    BY Zenon
<1>3. \A i \in DOMAIN p : p[i] # sp
    BY Zenon DEF Plain
<1>4. "a" \in X /\ "b" \in X /\ "/" \in X /\ sp \in X /\ "a" # sp /\ "/" # sp
    BY Zenon
<1>5. Y \subseteq X
    BY Zenon
<1> HIDE DEF X, rest, sp
<1>6. p \in Seq(X) /\ Without(p, sp)
    BY <1>3, <1>5 DEF Without
<1>7. CutInto(rest, sp, <<"a", "/">> \o p, <<"b", "/">> \o p)
    BY <1>2, <1>4, <1>6, Halves
<1>8. StripPrefix(<<"a", "/">> \o p) = p /\ StripPrefix(<<"b", "/">> \o p) = p
    BY <1>4, <1>6, Stripped
<1>9. /\ StripPrefix(SubSeq(rest, 1, cut - 1)) = p
      /\ StripPrefix(SubSeq(rest, cut + 1, Len(rest))) = p
    BY <1>7, <1>8 DEF CutInto
<1> HIDE DEF cut
<1> QED
    BY <1>1, <1>9

-----------------------------------------------------------------------------
(* Lists of lines, of whatever kind, and the loop over them.               *)

IsList(a) == a \in Seq(ToSet(a))

LEMMA ListOf ==
    ASSUME NEW X, NEW a \in Seq(X)
    PROVE  IsList(a)
<1>1. a = [i \in 1 .. Len(a) |-> a[i]] /\ Len(a) \in Nat /\ DOMAIN a = 1 .. Len(a)
    OBVIOUS
<1>2. \A i \in 1 .. Len(a) : a[i] \in ToSet(a)
    BY <1>1 DEF ToSet
<1>3. a \in [1 .. Len(a) -> ToSet(a)]
    BY <1>1, <1>2
<1> QED
    BY <1>1, <1>3, SeqDef DEF IsList

LEMMA ShortLists ==
    ASSUME NEW x, NEW y
    PROVE  IsList(<<>>) /\ IsList(<<x>>) /\ IsList(<<x, y>>)
<1>1. <<>> \in Seq({x}) /\ <<x>> \in Seq({x}) /\ <<x, y>> \in Seq({x, y})
    OBVIOUS
<1> QED
    BY <1>1, ListOf

LEMMA ScanLists ==
    ASSUME NEW a, NEW b, IsList(a), IsList(b), NEW s
    PROVE  IsList(a \o b) /\ Scan(s, a \o b) = Scan(Scan(s, a), b)
<1> DEFINE X == ToSet(a) \cup ToSet(b)
<1>1. ToSet(a) \subseteq X /\ ToSet(b) \subseteq X
    OBVIOUS
<1> HIDE DEF X
<1>2. a \in Seq(X) /\ b \in Seq(X)
    BY <1>1, SeqMonotonic DEF IsList
<1>3. a \o b \in Seq(X)
    BY <1>2
<1> QED
    <2>1. IsList(a \o b)
        BY <1>3, ListOf
    <2>2. Scan(s, a \o b) = Scan(Scan(s, a), b)
        BY <1>2, ScanConcat
    <2> QED
        BY <2>1, <2>2

LEMMA ScanTwo ==
    ASSUME NEW s, NEW x, NEW y
    PROVE  Scan(s, <<x, y>>) = Take(Take(s, x), y)
<1>1. <<x>> \o <<y>> = <<x, y>>
    <2> DEFINE both == <<x>> \o <<y>>
               two == <<x, y>>
               X == {x, y}
    <2>1. both \in Seq(X) /\ Len(both) = 2 /\ both[1] = x /\ both[2] = y
        OBVIOUS
    <2>2. two \in Seq(X) /\ Len(two) = 2 /\ two[1] = x /\ two[2] = y
        OBVIOUS
    <2> HIDE DEF both, two, X
    <2>3. \A i \in 1 .. 2 : both[i] = two[i]
        <3>1. \A i \in 1 .. 2 : i = 1 \/ i = 2
            OBVIOUS
        <3> QED
            BY <2>1, <2>2, <3>1
    <2>4. both = two
        BY <2>1, <2>2, <2>3, SeqEqual
    <2> QED
        BY <2>4 DEF both, two
<1>2. Scan(s, <<x>> \o <<y>>) = Scan(Scan(s, <<x>>), <<y>>)
    BY ShortLists, ScanLists
<1>3. Scan(s, <<x>>) = Take(s, x) /\ Scan(Take(s, x), <<y>>) = Take(Take(s, x), y)
    BY ScanOne
<1> QED
    BY <1>1, <1>2, <1>3

-----------------------------------------------------------------------------
(* The lines of a change before its first hunk.                            *)

Bare(path, oldPath, status, binary, blobs) ==
    File(path, oldPath, status, binary, blobs, <<>>, 0, 0)

LEMMA BareIsFile ==
    ASSUME NEW p, NEW o, NEW st, NEW bin, NEW bl
    PROVE  Bare(p, o, st, bin, bl) # Nobody /\ ~InHunk(Bare(p, o, st, bin, bl))
<1>1. Bare(p, o, st, bin, bl) # Nobody
    BY FileIsSome DEF Bare
<1>2. Bare(p, o, st, bin, bl).hunks = <<>>
    BY DEF Bare, File
<1> QED
    BY <1>1, <1>2 DEF InHunk

LEMMA BinarySet ==
    ASSUME NEW p, NEW o, NEW st, NEW bin, NEW bl, NEW x
    PROVE  WithBinary(Bare(p, o, st, bin, bl), x) = Bare(p, o, st, x, bl)
    BY DEF Bare, File, WithBinary

\* What each header line does to a file of which no hunk was read.
LEMMA BareAt ==
    ASSUME NEW p, NEW o, NEW st, NEW bin, NEW bl, NEW path
    PROVE  /\ From(Bare(p, o, st, bin, bl), path) = Bare(p, path, "renamed", bin, bl)
           /\ To(Bare(p, o, st, bin, bl), path) = Bare(path, o, "renamed", bin, bl)
           /\ Indexed(Bare(p, o, st, bin, bl), path) = Bare(p, o, st, bin, path)
           /\ WasAt(Bare(p, o, st, bin, bl), path)
              = Bare(IF st = "deleted" THEN path ELSE p, path, st, bin, bl)
           /\ IsAt(Bare(p, o, st, bin, bl), path) = Bare(path, o, st, bin, bl)
<1> DEFINE f == Bare(p, o, st, bin, bl)
           g(q, r, t) == Bare(q, r, t, bin, bl)
<1>1. [g(p, o, st) EXCEPT !.status = "added"] = g(p, o, "added")
    BY DEF Bare, File
<1>2. [g(p, o, "added") EXCEPT !.oldPath = <<>>] = g(p, <<>>, "added")
    BY DEF Bare, File
<1>3. [g(p, o, st) EXCEPT !.status = "renamed"] = g(p, o, "renamed")
    BY DEF Bare, File
<1>4. [g(p, o, "renamed") EXCEPT !.oldPath = path] = g(p, path, "renamed")
    BY DEF Bare, File
<1>5. [g(p, o, "renamed") EXCEPT !.path = path] = g(path, o, "renamed")
    BY DEF Bare, File
<1>6. [g(p, o, st) EXCEPT !.oldPath = path] = g(p, path, st)
    BY DEF Bare, File
<1>7. [g(p, path, st) EXCEPT !.path = IF st = "deleted" THEN path ELSE p]
      = g(IF st = "deleted" THEN path ELSE p, path, st)
    BY DEF Bare, File
<1>8. g(p, o, st).status = st /\ g(p, path, st).path = p /\ g(p, o, st).path = p
    BY DEF Bare, File
<1>9. f = g(p, o, st)
    OBVIOUS
<1> HIDE DEF g
<1>11. From(f, path) = g(p, path, "renamed")
    BY <1>3, <1>4, <1>9 DEF From
<1>12. To(f, path) = g(path, o, "renamed")
    BY <1>3, <1>5, <1>9 DEF To
<1>13. WasAt(f, path) = g(IF st = "deleted" THEN path ELSE p, path, st)
    BY <1>6, <1>7, <1>8, <1>9 DEF WasAt
<1>14. IsAt(f, path) = g(path, o, st)
    BY <1>9 DEF IsAt, Bare, File, g
<1>15. Indexed(f, path) = Bare(p, o, st, bin, path)
    BY DEF Bare, File, Indexed
<1> QED
    BY <1>11, <1>12, <1>13, <1>14, <1>15 DEF f, g

LEMMA BareAs ==
    ASSUME NEW p, NEW o, NEW st, NEW bin, NEW bl
    PROVE  /\ AsAdded(Bare(p, o, st, bin, bl)) = Bare(p, <<>>, "added", bin, bl)
           /\ AsDeleted(Bare(p, o, st, bin, bl)) = Bare(p, o, "deleted", bin, bl)
<1> DEFINE f == Bare(p, o, st, bin, bl)
           g(q, r, t) == Bare(q, r, t, bin, bl)
<1>1. [g(p, o, st) EXCEPT !.status = "added"] = g(p, o, "added")
    BY DEF Bare, File
<1>2. [g(p, o, "added") EXCEPT !.oldPath = <<>>] = g(p, <<>>, "added")
    BY DEF Bare, File
<1>3. f = g(p, o, st)
    OBVIOUS
<1> HIDE DEF f, g
<1>4. AsAdded(f) = g(p, <<>>, "added")
    BY <1>1, <1>2, <1>3 DEF AsAdded
<1>5. AsDeleted(f) = g(p, o, "deleted")
    BY <1>3 DEF AsDeleted, Bare, File, g
<1> QED
    BY <1>4, <1>5 DEF f, g

Yes(yes) == yes = TRUE
No(no) == no = FALSE

LEMMA BareBinary ==
    ASSUME NEW p, NEW o, NEW st, NEW bin, NEW bl, NEW yes, Yes(yes)
    PROVE  AsBinary(Bare(p, o, st, bin, bl)) = Bare(p, o, st, yes, bl)
<1> DEFINE true == TRUE
           f == Bare(p, o, st, bin, bl)
<1>1. AsBinary(f) = WithBinary(f, true)
    BY DEF AsBinary
<1>2. yes = true
    BY Zenon DEF Yes
<1> HIDE DEF true
<1> QED
    BY <1>1, <1>2, BinarySet

Blank(path, oldPath, status) == Bare(path, oldPath, status, FALSE, <<>>)
GitLine(ch) == [is |-> "diff --git", old |-> ch.old, new |-> ch.new]
GitOld(ch) == DiffGitPaths(GitLine(ch)).old
GitNew(ch) == DiffGitPaths(GitLine(ch)).new

LEMMA GitRead ==
    ASSUME NEW F, NEW c, NEW n, NEW ch
    PROVE  Scan(State(F, c, n), <<GitLine(ch)>>)
           = State(Flushed(State(F, c, n)), Blank(GitNew(ch), GitOld(ch), "modified"), n)
<1> DEFINE ln == GitLine(ch)
<1>1. ln.is = "diff --git"
    BY Zenon DEF GitLine
<1>3. NewFile(ln) = Blank(GitNew(ch), GitOld(ch), "modified")
    BY Zenon DEF NewFile, Blank, Bare, File, GitNew, GitOld
<1> HIDE DEF ln
<1>2. Take(State(F, c, n), ln) = State(Flushed(State(F, c, n)), NewFile(ln), n)
    BY <1>1, TakeGit, Zenon
<1>4. Scan(State(F, c, n), <<ln>>) = Take(State(F, c, n), ln)
    BY ScanOne
<1> QED
    BY <1>2, <1>3, <1>4, Zenon DEF ln

StatusNew(ch, p) == IF ch.status = "renamed" THEN ch.new ELSE p
StatusOld(ch, o) ==
    CASE ch.status = "added" -> <<>> [] ch.status = "renamed" -> ch.old [] OTHER -> o

LEMMA StatusRead ==
    ASSUME NEW F, NEW n, NEW p, NEW o, NEW ch, GitChange(ch)
    PROVE  Scan(State(F, Blank(p, o, "modified"), n), StatusLines(ch))
           = State(F, Blank(StatusNew(ch, p), StatusOld(ch, o), ch.status), n)
<1> DEFINE no == FALSE
           f == Bare(p, o, "modified", no, <<>>)
           s == State(F, f, n)
<1>1. f # Nobody /\ ~InHunk(f)
    BY BareIsFile, Zenon
<1>2. f = Bare(p, o, "modified", no, <<>>)
    OBVIOUS
<1>3. ch.status \in {"modified", "added", "deleted", "renamed"}
    BY DEF GitChange
<1> HIDE DEF f, no
<1>4. CASE ch.status = "added"
    <2> DEFINE ln == [is |-> "new file"]
    <2>1. ln.is = "new file" /\ ln.is \notin {"diff --git", "@@", "body"}
        BY Zenon
    <2>2. StatusLines(ch) = <<ln>>
        BY <1>4, Zenon DEF StatusLines
    <2> HIDE DEF ln
    <2>3. Take(s, ln) = State(F, Header(f, ln), n)
        BY <1>1, <2>1, TakeHeader, Zenon
    <2>4. Header(f, ln) = AsAdded(f)
        BY <2>1, HeaderCases, Zenon
    <2>5. AsAdded(f) = Bare(p, <<>>, "added", no, <<>>)
        BY BareAs DEF f
    <2>6. Scan(s, <<ln>>) = Take(s, ln)
        BY ScanOne
    <2> QED
        BY <1>4, <2>2, <2>3, <2>4, <2>5, <2>6, Zenon DEF f, no, Blank, StatusNew, StatusOld
<1>5. CASE ch.status = "deleted"
    <2> DEFINE ln == [is |-> "deleted file"]
    <2>1. ln.is = "deleted file" /\ ln.is \notin {"diff --git", "@@", "body"}
        BY Zenon
    <2>2. StatusLines(ch) = <<ln>>
        BY <1>5, Zenon DEF StatusLines
    <2> HIDE DEF ln
    <2>3. Take(s, ln) = State(F, Header(f, ln), n)
        BY <1>1, <2>1, TakeHeader, Zenon
    <2>4. Header(f, ln) = AsDeleted(f)
        BY <2>1, HeaderCases, Zenon
    <2>5. AsDeleted(f) = Bare(p, o, "deleted", no, <<>>)
        BY BareAs DEF f
    <2>6. Scan(s, <<ln>>) = Take(s, ln)
        BY ScanOne
    <2> QED
        BY <1>5, <2>2, <2>3, <2>4, <2>5, <2>6, Zenon DEF f, no, Blank, StatusNew, StatusOld
<1>6. CASE ch.status = "renamed"
    <2> DEFINE x == [is |-> "rename from", path |-> ch.old]
               y == [is |-> "rename to", path |-> ch.new]
    <2>1. /\ x.is = "rename from" /\ x.is \notin {"diff --git", "@@", "body"} /\ x.path = ch.old
          /\ y.is = "rename to" /\ y.is \notin {"diff --git", "@@", "body"} /\ y.path = ch.new
        BY Zenon
    <2>2. StatusLines(ch) = <<x, y>>
        BY <1>6, Zenon DEF StatusLines
    <2> HIDE DEF x, y
    <2> DEFINE g == Bare(p, ch.old, "renamed", no, <<>>)
    <2>3. Take(s, x) = State(F, g, n)
        <3>1. Take(s, x) = State(F, Header(f, x), n)
            BY <1>1, <2>1, TakeHeader, Zenon
        <3>2. Header(f, x) = From(f, ch.old)
            BY <2>1, HeaderCases, Zenon
        <3>3. From(f, ch.old) = g
            BY BareAt DEF f
        <3> QED
            BY <3>1, <3>2, <3>3, Zenon
    <2>4. Take(State(F, g, n), y) = State(F, Bare(ch.new, ch.old, "renamed", no, <<>>), n)
        <3>1. g # Nobody /\ ~InHunk(g) /\ g = Bare(p, ch.old, "renamed", no, <<>>)
            BY BareIsFile, Zenon
        <3> HIDE DEF g
        <3>2. Take(State(F, g, n), y) = State(F, Header(g, y), n)
            BY <2>1, <3>1, TakeHeader, Zenon
        <3>3. Header(g, y) = To(g, ch.new)
            BY <2>1, HeaderCases, Zenon
        <3>4. To(g, ch.new) = Bare(ch.new, ch.old, "renamed", no, <<>>)
            BY <3>1, BareAt
        <3> QED
            BY <3>2, <3>3, <3>4, Zenon
    <2>5. Scan(s, <<x, y>>) = Take(Take(s, x), y)
        BY ScanTwo
    <2> QED
        BY <1>6, <2>2, <2>3, <2>4, <2>5, Zenon DEF f, no, Blank, StatusNew, StatusOld
<1>7. CASE ch.status = "modified"
    <2>1. StatusLines(ch) = <<>>
        BY <1>7, Zenon DEF StatusLines
    <2>2. Scan(s, <<>>) = s
        BY ScanNone
    <2> QED
        BY <1>7, <2>1, <2>2, Zenon DEF f, no, Blank, StatusNew, StatusOld
<1> QED
    BY <1>3, <1>4, <1>5, <1>6, <1>7, Zenon DEF f, no, Blank, StatusNew, StatusOld

LEMMA IndexRead ==
    ASSUME NEW F, NEW n, NEW p, NEW o, NEW st, NEW bin, NEW ch
    PROVE  Scan(State(F, Bare(p, o, st, bin, <<>>), n), IndexLines(ch))
           = State(F, Bare(p, o, st, bin, ch.blobs), n)
<1> DEFINE f == Bare(p, o, st, bin, <<>>)
           s == State(F, f, n)
           ln == [is |-> "index", blobs |-> ch.blobs]
<1>1. f # Nobody /\ ~InHunk(f)
    BY BareIsFile, Zenon
<1>2. ln.is = "index" /\ ln.is \notin {"diff --git", "@@", "body"} /\ ln.blobs = ch.blobs
    BY Zenon
<1>3. IndexLines(ch) = IF ch.blobs = <<>> THEN <<>> ELSE <<ln>>
    BY Zenon DEF IndexLines
<1>4. Indexed(f, ch.blobs) = Bare(p, o, st, bin, ch.blobs)
    BY BareAt DEF f
<1> HIDE DEF f, ln
<1>5. Take(s, ln) = State(F, Header(f, ln), n)
    BY <1>1, <1>2, TakeHeader, Zenon
<1>6. Header(f, ln) = Indexed(f, ch.blobs)
    BY <1>2, HeaderCases, Zenon
<1>7. Scan(s, <<ln>>) = Take(s, ln) /\ Scan(s, <<>>) = s
    BY ScanOne, ScanNone
<1>8. CASE ch.blobs = <<>>
    BY <1>3, <1>7, <1>8 DEF f
<1>9. CASE ch.blobs # <<>>
    BY <1>3, <1>4, <1>5, <1>6, <1>7, <1>9, Zenon DEF f
<1> QED
    BY <1>8, <1>9

HeadOf(ch, path, oldPath, binary) == Bare(path, oldPath, ch.status, binary, ch.blobs)

\* What the lines "---" and "+++" add to the paths.
NewPath(ch, p) == IF ch.hunks = <<>> THEN p ELSE ch.new
OldPath(ch, o) == IF ch.hunks = <<>> \/ ch.status = "added" THEN o ELSE ch.old

LEMMA BinaryRead ==
    ASSUME NEW F, NEW n, NEW p, NEW o, NEW ch, GitChange(ch), Yes(ch.binary), NEW no
    PROVE  Scan(State(F, HeadOf(ch, p, o, no), n), PathLines(ch))
           = State(F, HeadOf(ch, NewPath(ch, p), OldPath(ch, o), ch.binary), n)
<1> DEFINE f == HeadOf(ch, p, o, no)
           s == State(F, f, n)
           ln == [is |-> "Binary files"]
           yes == ch.binary
<1>1. f # Nobody /\ ~InHunk(f)
    BY BareIsFile, Zenon DEF HeadOf
<1>2. ln.is = "Binary files" /\ ln.is \notin {"diff --git", "@@", "body"}
    BY Zenon
<1>3. PathLines(ch) = <<ln>>
    BY Zenon DEF PathLines, Yes
<1>4. Yes(yes) /\ ch.hunks = <<>>
    BY Zenon DEF GitChange, Yes
<1> HIDE DEF yes
<1>5. AsBinary(f) = HeadOf(ch, p, o, yes)
    BY <1>4, BareBinary DEF f, HeadOf
<1> HIDE DEF f, ln
<1>6. Take(s, ln) = State(F, Header(f, ln), n)
    BY <1>1, <1>2, TakeHeader, Zenon
<1>7. Header(f, ln) = AsBinary(f)
    BY <1>2, HeaderCases, Zenon
<1>8. Scan(s, <<ln>>) = Take(s, ln)
    BY ScanOne
<1>9. NewPath(ch, p) = p /\ OldPath(ch, o) = o
    BY <1>4, Zenon DEF NewPath, OldPath
<1> QED
    BY <1>3, <1>5, <1>6, <1>7, <1>8, <1>9, Zenon DEF f, yes

LEMMA HalfPaths ==
    ASSUME NEW ch, GitChange(ch)
    PROVE  /\ StripPrefix(<<"a", "/">> \o ch.old) = ch.old
           /\ StripPrefix(<<"b", "/">> \o ch.new) = ch.new
           /\ StripPrefix(<<>>) = <<>>
<1> DEFINE X == ToSet(ch.old) \cup ToSet(ch.new) \cup {"a", "b", "/"}
<1>1. /\ "a" \in X /\ "b" \in X /\ "/" \in X
      /\ ToSet(ch.old) \subseteq X /\ ToSet(ch.new) \subseteq X
    BY Zenon
<1> HIDE DEF X
<1>2. ch.old \in Seq(X) /\ ch.new \in Seq(X)
    <2>1. ch.old \in Seq(ToSet(ch.old)) /\ ch.new \in Seq(ToSet(ch.new))
        BY Zenon DEF GitChange
    <2> QED
        BY <1>1, <2>1, SeqMonotonic
<1>3. StripPrefix(<<"a", "/">> \o ch.old) = ch.old
    BY <1>1, <1>2, Stripped
<1>4. StripPrefix(<<"b", "/">> \o ch.new) = ch.new
    BY <1>1, <1>2, Stripped
<1>5. StripPrefix(<<>>) = <<>>
    BY DEF StripPrefix
<1> QED
    BY <1>3, <1>4, <1>5

LEMMA PathsRead ==
    ASSUME NEW F, NEW n, NEW p, NEW o, NEW no, NEW ch, GitChange(ch), No(ch.binary),
           ch.hunks # <<>>
    PROVE  Scan(State(F, HeadOf(ch, p, o, no), n), PathLines(ch))
           = State(F, HeadOf(ch, ch.new, OldPath(ch, o), no), n)
<1> DEFINE f == HeadOf(ch, p, o, no)
           s == State(F, f, n)
           was == IF ch.status = "added" THEN <<>> ELSE <<"a", "/">> \o ch.old
           is == IF ch.status = "deleted" THEN <<>> ELSE <<"b", "/">> \o ch.new
           x == [is |-> "---", path |-> was]
           y == [is |-> "+++", path |-> is]
           q == IF ch.status = "deleted" THEN ch.old ELSE p
           g == HeadOf(ch, q, OldPath(ch, o), no)
<1>1. /\ x.is = "---" /\ x.is \notin {"diff --git", "@@", "body"} /\ x.path = was
      /\ y.is = "+++" /\ y.is \notin {"diff --git", "@@", "body"} /\ y.path = is
    BY Zenon
<1>2. PathLines(ch) = <<x, y>>
    BY Zenon DEF PathLines, No
<1>3. f # Nobody /\ ~InHunk(f) /\ g # Nobody /\ ~InHunk(g)
    BY BareIsFile, Zenon DEF HeadOf
<1>4. /\ ch.old # <<>> /\ ch.new # <<>>
      /\ (ch.status = "deleted" => ch.old = ch.new)
      /\ ~(ch.status = "added" /\ ch.status = "deleted")
    BY Zenon DEF GitChange
<1>5. /\ StripPrefix(was) = IF ch.status = "added" THEN <<>> ELSE ch.old
      /\ StripPrefix(is) = IF ch.status = "deleted" THEN <<>> ELSE ch.new
    BY HalfPaths, Zenon
<1> HIDE DEF x, y, was, is
<1>6. Header(f, x) = g
    <2>1. Header(f, x) = IF StripPrefix(was) = <<>> THEN f ELSE WasAt(f, StripPrefix(was))
        <3> HIDE DEF f, HeadOf
        <3> QED
            BY <1>1, HeaderCases, Zenon
    <2>2. CASE ch.status = "added"
        BY <1>4, <1>5, <2>1, <2>2, Zenon DEF OldPath
    <2>3. CASE ch.status # "added"
        <3>1. Header(f, x) = WasAt(f, ch.old)
            BY <1>4, <1>5, <2>1, <2>3, Zenon
        <3>2. WasAt(f, ch.old) = HeadOf(ch, q, ch.old, no)
            BY BareAt DEF f, HeadOf
        <3>3. OldPath(ch, o) = ch.old
            BY <2>3, Zenon DEF OldPath
        <3> QED
            BY <3>1, <3>2, <3>3
    <2> QED
        BY <2>2, <2>3
<1>7. Header(g, y) = HeadOf(ch, ch.new, OldPath(ch, o), no)
    <2>1. Header(g, y) = IF StripPrefix(is) = <<>> THEN g ELSE IsAt(g, StripPrefix(is))
        <3> HIDE DEF g, HeadOf
        <3> QED
            BY <1>1, HeaderCases, Zenon
    <2>2. CASE ch.status = "deleted"
        BY <1>4, <1>5, <2>1, <2>2, Zenon
    <2>3. CASE ch.status # "deleted"
        <3>1. Header(g, y) = IsAt(g, ch.new)
            BY <1>4, <1>5, <2>1, <2>3, Zenon
        <3>2. IsAt(g, ch.new) = HeadOf(ch, ch.new, OldPath(ch, o), no)
            BY BareAt DEF g, HeadOf
        <3> QED
            BY <3>1, <3>2
    <2> QED
        BY <2>2, <2>3
<1> HIDE DEF f, g
<1>8. Take(s, x) = State(F, Header(f, x), n)
    BY <1>1, <1>3, TakeHeader, Zenon
<1>9. Take(State(F, g, n), y) = State(F, Header(g, y), n)
    BY <1>1, <1>3, TakeHeader, Zenon
<1>10. Scan(s, <<x, y>>) = Take(Take(s, x), y)
    BY ScanTwo
<1> QED
    BY <1>2, <1>6, <1>7, <1>8, <1>9, <1>10, Zenon DEF f, HeadOf

LEMMA AllPathsRead ==
    ASSUME NEW F, NEW n, NEW p, NEW o, NEW no, NEW ch, GitChange(ch), No(no)
    PROVE  Scan(State(F, HeadOf(ch, p, o, no), n), PathLines(ch))
           = State(F, HeadOf(ch, NewPath(ch, p), OldPath(ch, o), ch.binary), n)
<1>1. Yes(ch.binary) \/ (No(ch.binary) /\ ch.binary = no)
    BY Zenon DEF GitChange, Yes, No
<1>2. CASE Yes(ch.binary)
    BY <1>2, BinaryRead
<1>3. CASE No(ch.binary) /\ ch.binary = no /\ ch.hunks # <<>>
    <2>1. NewPath(ch, p) = ch.new
        BY <1>3 DEF NewPath
    <2>2. Scan(State(F, HeadOf(ch, p, o, no), n), PathLines(ch))
          = State(F, HeadOf(ch, ch.new, OldPath(ch, o), no), n)
        BY <1>3, PathsRead
    <2> QED
        BY <1>3, <2>1, <2>2
<1>4. CASE No(ch.binary) /\ ch.binary = no /\ ch.hunks = <<>>
    <2>1. NewPath(ch, p) = p /\ OldPath(ch, o) = o
        BY <1>4 DEF NewPath, OldPath
    <2>2. PathLines(ch) = <<>>
        BY <1>4, Zenon DEF PathLines, No
    <2> QED
        BY <1>4, <2>1, <2>2, ScanNone
<1> QED
    BY <1>1, <1>2, <1>3, <1>4, Zenon

HeadLines(ch) == <<GitLine(ch)>> \o StatusLines(ch) \o IndexLines(ch) \o PathLines(ch)

HeadPaths(ch, p, o) ==
    ~Provisional(ch) => p = ch.new /\ o = (IF ch.status = "added" THEN <<>> ELSE ch.old)

LEMMA HeadLists ==
    ASSUME NEW ch
    PROVE  /\ IsList(<<GitLine(ch)>>) /\ IsList(StatusLines(ch)) /\ IsList(IndexLines(ch))
           /\ IsList(PathLines(ch))
<1>1. IsList(<<GitLine(ch)>>)
    BY ShortLists
<1>2. \E x, y : StatusLines(ch) \in {<<>>, <<x>>, <<x, y>>}
    BY Zenon DEF StatusLines
<1>3. \E x, y : IndexLines(ch) \in {<<>>, <<x>>, <<x, y>>}
    BY Zenon DEF IndexLines
<1>4. \E x, y : PathLines(ch) \in {<<>>, <<x>>, <<x, y>>}
    BY Zenon DEF PathLines
<1>5. ASSUME NEW a, \E x, y : a \in {<<>>, <<x>>, <<x, y>>} PROVE IsList(a)
    BY <1>5, ShortLists, Zenon
<1> QED
    BY <1>1, <1>2, <1>3, <1>4, <1>5, Zenon

LEMMA HeadScan ==
    ASSUME NEW ch, NEW s
    PROVE  /\ IsList(HeadLines(ch))
           /\ Scan(s, HeadLines(ch))
              = Scan(Scan(Scan(Scan(s, <<GitLine(ch)>>), StatusLines(ch)), IndexLines(ch)),
                     PathLines(ch))
<1> DEFINE a == <<GitLine(ch)>>
           b == StatusLines(ch)
           c == IndexLines(ch)
           d == PathLines(ch)
<1>1. IsList(a) /\ IsList(b) /\ IsList(c) /\ IsList(d)
    BY HeadLists, Zenon
<1>2. HeadLines(ch) = a \o b \o c \o d
    BY Zenon DEF HeadLines
<1> HIDE DEF a, b, c, d
<1>3. IsList(a \o b) /\ Scan(s, a \o b) = Scan(Scan(s, a), b)
    BY <1>1, ScanLists
<1>4. IsList(a \o b \o c) /\ Scan(s, a \o b \o c) = Scan(Scan(s, a \o b), c)
    BY <1>1, <1>3, ScanLists
<1>5. IsList(a \o b \o c \o d) /\ Scan(s, a \o b \o c \o d) = Scan(Scan(s, a \o b \o c), d)
    BY <1>1, <1>4, ScanLists
<1> QED
    BY <1>2, <1>3, <1>4, <1>5 DEF a, b, c, d

\* The header of a change opens its file, with the paths it is meant to have
\* unless they are provisional.
LEMMA HeadRead ==
    ASSUME NEW F, NEW c, NEW n, NEW ch, GitChange(ch)
    PROVE  \E p, o : /\ HeadPaths(ch, p, o)
                     /\ Scan(State(F, c, n), HeadLines(ch))
                        = State(Flushed(State(F, c, n)),
                                HeadOf(ch, p, o, ch.binary), n)
<1> DEFINE no == FALSE
           G == Flushed(State(F, c, n))
           p0 == GitNew(ch)
           o0 == GitOld(ch)
           p1 == StatusNew(ch, p0)
           o1 == StatusOld(ch, o0)
           p == NewPath(ch, p1)
           o == OldPath(ch, o1)
<1>1. Scan(State(F, c, n), <<GitLine(ch)>>) = State(G, Blank(p0, o0, "modified"), n)
    BY GitRead
<1>2. Scan(State(G, Blank(p0, o0, "modified"), n), StatusLines(ch))
      = State(G, Blank(p1, o1, ch.status), n)
    <2> HIDE DEF G, p0, o0
    <2> QED
        BY StatusRead
<1>3. Blank(p1, o1, ch.status) = Bare(p1, o1, ch.status, no, <<>>) /\ No(no)
    BY Zenon DEF Blank, No
<1> HIDE DEF no, G, p0, o0, p1, o1
<1>4. Scan(State(G, Bare(p1, o1, ch.status, no, <<>>), n), IndexLines(ch))
      = State(G, Bare(p1, o1, ch.status, no, ch.blobs), n)
    BY IndexRead
<1>5. Scan(State(G, HeadOf(ch, p1, o1, no), n), PathLines(ch))
      = State(G, HeadOf(ch, p, o, ch.binary), n)
    BY <1>3, AllPathsRead
<1>6. HeadPaths(ch, p, o)
    <2>1. SUFFICES ASSUME ~Provisional(ch)
                   PROVE  p = ch.new /\ o = (IF ch.status = "added" THEN <<>> ELSE ch.old)
        BY Zenon DEF HeadPaths
    <2>2. ch.status \in {"modified", "added", "deleted", "renamed"}
        BY Zenon DEF GitChange
    <2>3. CASE ch.status = "renamed"
        BY <2>3, Zenon DEF NewPath, OldPath, StatusNew, StatusOld, p1, o1
    <2>4. CASE ch.hunks # <<>>
        BY <2>2, <2>4, Zenon DEF NewPath, OldPath, StatusOld, o1
    <2>5. CASE ch.hunks = <<>> /\ ch.status # "renamed"
        <3>1. Plain(ch.new) /\ ch.old = ch.new /\ ch.new \in Seq(ToSet(ch.new))
            BY <2>1, <2>5, Zenon DEF Provisional, Plain, GitChange
        <3> DEFINE ln == GitLine(ch)
        <3>2. ln.old = ch.new /\ ln.new = ch.new
            BY <3>1, Zenon DEF GitLine
        <3>3. p0 = DiffGitPaths(ln).new /\ o0 = DiffGitPaths(ln).old
            BY Zenon DEF p0, o0, GitNew, GitOld
        <3> HIDE DEF ln
        <3>4. DiffGitPaths(ln) = [old |-> ch.new, new |-> ch.new]
            BY <3>1, <3>2, PlainPaths
        <3>5. p0 = ch.new /\ o0 = ch.new
            BY <3>3, <3>4
        <3>6. p = p1 /\ o = o1
            BY <2>5, Zenon DEF NewPath, OldPath
        <3> QED
            BY <2>5, <3>1, <3>5, <3>6, Zenon DEF StatusNew, StatusOld, p1, o1
    <2> QED
        BY <2>3, <2>4, <2>5, Zenon
<1>7. Scan(State(F, c, n), HeadLines(ch))
      = Scan(Scan(Scan(Scan(State(F, c, n), <<GitLine(ch)>>), StatusLines(ch)), IndexLines(ch)),
             PathLines(ch))
    BY HeadScan
<1>8. Scan(State(F, c, n), HeadLines(ch)) = State(G, HeadOf(ch, p, o, ch.binary), n)
    <2> HIDE DEF p, o
    <2> QED
        BY <1>1, <1>2, <1>3, <1>4, <1>5, <1>7 DEF HeadOf
<1> QED
    BY <1>6, <1>8, Zenon DEF G

-----------------------------------------------------------------------------
(* The hunks of a change: what was read after i of them, and after j lines *)
(* of the i-th.                                                            *)

LEMMA OnMore ==
    ASSUME NEW h, NEW j \in Nat, NEW mark
    PROVE  /\ On(h, j, mark) \in Nat
           /\ On(h, j + 1, mark) = IF h.body[j + 1].mark # mark THEN On(h, j, mark) + 1
                                   ELSE On(h, j, mark)
<1> DEFINE S(k) == {l \in 1 .. k : h.body[l].mark # mark}
<1>1. IsFiniteSet(S(j)) /\ Cardinality(S(j)) \in Nat
    <2>1. IsFiniteSet(1 .. j)
        BY FS_Interval
    <2>2. S(j) \subseteq 1 .. j
        OBVIOUS
    <2> HIDE DEF S
    <2>3. IsFiniteSet(S(j))
        BY <2>1, <2>2, FS_Subset
    <2> QED
        BY <2>3, FS_CardinalityType
<1>2. j + 1 \notin S(j)
    OBVIOUS
<1>3. CASE h.body[j + 1].mark # mark
    <2>1. S(j + 1) = S(j) \cup {j + 1}
        BY <1>3
    <2> HIDE DEF S
    <2>2. Cardinality(S(j) \cup {j + 1}) = Cardinality(S(j)) + 1
        BY <1>1, <1>2, FS_AddElement
    <2> QED
        BY <1>1, <1>3, <2>1, <2>2 DEF On, S
<1>4. CASE h.body[j + 1].mark = mark
    <2>1. S(j + 1) = S(j)
        BY <1>4
    <2> HIDE DEF S
    <2> QED
        BY <1>1, <1>4, <2>1 DEF On, S
<1> QED
    BY <1>3, <1>4

LEMMA OnNone ==
    ASSUME NEW h, NEW mark
    PROVE  On(h, 0, mark) = 0
<1>1. {l \in 1 .. 0 : h.body[l].mark # mark} = {}
    OBVIOUS
<1> QED
    BY <1>1, FS_EmptySet DEF On

MarkedIn(ch, i, j, mark) == {<<i, k>> : k \in {l \in 1 .. j : ch.hunks[i].body[l].mark = mark}}
MarkedBefore(ch, i, mark) ==
    UNION {MarkedIn(ch, k, Len(ch.hunks[k].body), mark) : k \in 1 .. i}
MarkedTo(ch, i, j, mark) == MarkedBefore(ch, i - 1, mark) \cup MarkedIn(ch, i, j, mark)

LEMMA MarkedMore ==
    ASSUME NEW ch, NEW i \in Nat, NEW j \in Nat, NEW mark, IsFiniteSet(MarkedTo(ch, i, j, mark))
    PROVE  /\ IsFiniteSet(MarkedTo(ch, i, j + 1, mark))
           /\ Cardinality(MarkedTo(ch, i, j + 1, mark))
              = IF ch.hunks[i].body[j + 1].mark = mark
                THEN Cardinality(MarkedTo(ch, i, j, mark)) + 1
                ELSE Cardinality(MarkedTo(ch, i, j, mark))
<1> DEFINE S == MarkedTo(ch, i, j, mark)
           T == MarkedTo(ch, i, j + 1, mark)
           x == <<i, j + 1>>
<1>1. x \notin MarkedIn(ch, i, j, mark)
    BY DEF MarkedIn
<1>2. x \notin MarkedBefore(ch, i - 1, mark)
    <2>1. \A k \in 1 .. i - 1 : x \notin MarkedIn(ch, k, Len(ch.hunks[k].body), mark)
        BY DEF MarkedIn
    <2> HIDE DEF x
    <2> QED
        BY <2>1 DEF MarkedBefore
<1>3. MarkedIn(ch, i, j + 1, mark)
      = IF ch.hunks[i].body[j + 1].mark = mark THEN MarkedIn(ch, i, j, mark) \cup {x}
        ELSE MarkedIn(ch, i, j, mark)
    <2> DEFINE L(k) == {l \in 1 .. k : ch.hunks[i].body[l].mark = mark}
    <2>1. L(j + 1) = IF ch.hunks[i].body[j + 1].mark = mark THEN L(j) \cup {j + 1} ELSE L(j)
        OBVIOUS
    <2>2. MarkedIn(ch, i, j, mark) = {<<i, k>> : k \in L(j)}
        BY DEF MarkedIn
    <2>3. MarkedIn(ch, i, j + 1, mark) = {<<i, k>> : k \in L(j + 1)}
        BY DEF MarkedIn
    <2> HIDE DEF L
    <2> QED
        BY <2>1, <2>2, <2>3
<1>4. x \notin S
    BY <1>1, <1>2 DEF MarkedTo
<1>5. T = IF ch.hunks[i].body[j + 1].mark = mark THEN S \cup {x} ELSE S
    BY <1>3 DEF MarkedTo
<1> HIDE DEF S, T, x
<1>6. IsFiniteSet(S)
    BY DEF S
<1>7. IsFiniteSet(S \cup {x}) /\ Cardinality(S \cup {x}) = Cardinality(S) + 1
    BY <1>4, <1>6, FS_AddElement
<1> QED
    BY <1>5, <1>6, <1>7 DEF S, T

LEMMA MarkedEnds ==
    ASSUME NEW ch, NEW i \in Nat, NEW mark
    PROVE  /\ MarkedTo(ch, i + 1, 0, mark) = MarkedBefore(ch, i, mark)
           /\ MarkedTo(ch, i + 1, Len(ch.hunks[i + 1].body), mark) = MarkedBefore(ch, i + 1, mark)
           /\ MarkedBefore(ch, 0, mark) = {}
<1>1. (i + 1) - 1 = i
    OBVIOUS
<1>2. MarkedIn(ch, i + 1, 0, mark) = {}
    BY DEF MarkedIn
<1>3. 1 .. i + 1 = (1 .. i) \cup {i + 1} /\ 1 .. 0 = {}
    OBVIOUS
<1>4. MarkedBefore(ch, i + 1, mark)
      = MarkedBefore(ch, i, mark) \cup MarkedIn(ch, i + 1, Len(ch.hunks[i + 1].body), mark)
    BY <1>3 DEF MarkedBefore
<1>5. MarkedBefore(ch, 0, mark) = {}
    BY <1>3 DEF MarkedBefore
<1> QED
    BY <1>1, <1>2, <1>4, <1>5 DEF MarkedTo

HunkTo(h, j) == [oldStart |-> h.old, newStart |-> h.new,
                 lines |-> [k \in 1 .. j |-> MeantLine(h, k)]]
HunksBefore(ch, i) == [k \in 1 .. i |-> MeantHunk(ch.hunks[k])]
HunksTo(ch, i, j) == Append(HunksBefore(ch, i - 1), HunkTo(ch.hunks[i], j))

First(f, n) == [k \in 1 .. n |-> f[k]]

LEMMA FirstMore ==
    ASSUME NEW i \in Nat, NEW f
    PROVE  First(f, i + 1) = Append(First(f, i), f[i + 1])
<1> DEFINE g == First(f, i)
           h == First(f, i + 1)
           a == Append(g, f[i + 1])
           X == {f[k] : k \in 1 .. i + 1}
<1>1. \A k \in 1 .. i + 1 : f[k] \in X
    OBVIOUS
<1> HIDE DEF X
<1>2. g \in Seq(X) /\ Len(g) = i /\ \A k \in 1 .. i : g[k] = f[k]
    BY <1>1 DEF First
<1>3. h \in Seq(X) /\ Len(h) = i + 1 /\ \A k \in 1 .. i + 1 : h[k] = f[k]
    BY <1>1 DEF First
<1> HIDE DEF g, h
<1>4. f[i + 1] \in X
    BY <1>1
<1>5. a \in Seq(X) /\ Len(a) = i + 1 /\ a[i + 1] = f[i + 1] /\ \A k \in 1 .. i : a[k] = f[k]
    BY <1>2, <1>4
<1> HIDE DEF a
<1>6. \A k \in 1 .. i + 1 : h[k] = a[k]
    <2>1. \A k \in 1 .. i + 1 : k \in 1 .. i \/ k = i + 1
        OBVIOUS
    <2> QED
        BY <1>3, <1>5, <2>1
<1>7. h = a
    BY <1>3, <1>5, <1>6, SeqEqual
<1> QED
    BY <1>7 DEF a, g, h

WithLine(hunk, line) == [hunk EXCEPT !.lines = Append(@, line)]

LEMMA HunkMore ==
    ASSUME NEW h, NEW j \in Nat
    PROVE  WithLine(HunkTo(h, j), MeantLine(h, j + 1)) = HunkTo(h, j + 1)
<1> DEFINE F == [k \in 1 .. j + 1 |-> MeantLine(h, k)]
           f == First(F, j + 1)
           g == First(F, j)
           x == MeantLine(h, j + 1)
           hunk(lines) == [oldStart |-> h.old, newStart |-> h.new, lines |-> lines]
<1>1. F[j + 1] = x /\ f = F /\ g = [k \in 1 .. j |-> MeantLine(h, k)]
    BY DEF First
<1>2. HunkTo(h, j) = hunk(g)
    BY <1>1 DEF HunkTo
<1>3. HunkTo(h, j + 1) = hunk(f)
    BY <1>1 DEF HunkTo
<1> DEFINE l == Append(g, x)
<1>4. [hunk(g) EXCEPT !.lines = l] = hunk(l)
    <2> HIDE DEF l, g
    <2> QED
        OBVIOUS
<1>5. hunk(g).lines = g
    OBVIOUS
<1> HIDE DEF F, hunk, x
<1>6. f = Append(g, x)
    BY <1>1, FirstMore
<1> HIDE DEF f
<1>7. WithLine(hunk(g), x) = hunk(Append(g, x))
    BY <1>4, <1>5 DEF WithLine
<1> QED
    BY <1>2, <1>3, <1>6, <1>7 DEF x

LEMMA HunkEnds ==
    ASSUME NEW h, h.body \in Seq(ToSet(h.body))
    PROVE  /\ HunkTo(h, 0) = [oldStart |-> h.old, newStart |-> h.new, lines |-> <<>>]
           /\ HunkTo(h, Len(h.body)) = MeantHunk(h)
<1>1. [k \in 1 .. 0 |-> MeantLine(h, k)] = <<>>
    OBVIOUS
<1>2. 1 .. Len(h.body) = DOMAIN h.body
    OBVIOUS
<1> QED
    BY <1>1, <1>2 DEF HunkTo, MeantHunk

LEMMA HunksEnds ==
    ASSUME NEW ch, NEW i \in Nat
    PROVE  /\ HunksBefore(ch, 0) = <<>>
           /\ HunksBefore(ch, i + 1) = Append(HunksBefore(ch, i), MeantHunk(ch.hunks[i + 1]))
<1> DEFINE f == HunksBefore(ch, i + 1)
<1>1. HunksBefore(ch, 0) = <<>>
    BY DEF HunksBefore
<1>2. /\ f = First(f, i + 1)
      /\ f[i + 1] = MeantHunk(ch.hunks[i + 1])
      /\ HunksBefore(ch, i) = First(f, i)
    BY DEF HunksBefore, First
<1> HIDE DEF f
<1>3. First(f, i + 1) = Append(First(f, i), f[i + 1])
    BY FirstMore
<1>4. f = Append(HunksBefore(ch, i), MeantHunk(ch.hunks[i + 1]))
    BY <1>2, <1>3
<1> QED
    BY <1>1, <1>4 DEF f

LEMMA LastSet ==
    ASSUME NEW i \in Nat, NEW X, NEW hs \in Seq(X), Len(hs) = i, NEW x, NEW y
    PROVE  /\ Len(Append(hs, x)) = i + 1
           /\ Append(hs, x)[i + 1] = x
           /\ [Append(hs, x) EXCEPT ![i + 1] = y] = Append(hs, y)
<1> DEFINE Y == X \cup {x, y}
           a == Append(hs, x)
           b == Append(hs, y)
           c == [a EXCEPT ![i + 1] = y]
<1>1. X \subseteq Y /\ x \in Y /\ y \in Y
    OBVIOUS
<1> HIDE DEF Y
<1>2. hs \in Seq(Y)
    BY <1>1, SeqMonotonic
<1>3. a \in Seq(Y) /\ Len(a) = i + 1 /\ a[i + 1] = x /\ \A k \in 1 .. i : a[k] = hs[k]
    BY <1>1, <1>2
<1>4. b \in Seq(Y) /\ Len(b) = i + 1 /\ b[i + 1] = y /\ \A k \in 1 .. i : b[k] = hs[k]
    BY <1>1, <1>2
<1> HIDE DEF a, b
<1>5. i + 1 \in 1 .. Len(a)
    BY <1>3
<1>6. c \in Seq(Y) /\ Len(c) = i + 1 /\ c[i + 1] = y /\ \A k \in 1 .. i : c[k] = a[k]
    BY <1>1, <1>3, <1>5
<1> HIDE DEF c
<1>7. \A k \in 1 .. i + 1 : c[k] = b[k]
    <2>1. \A k \in 1 .. i + 1 : k \in 1 .. i \/ k = i + 1
        OBVIOUS
    <2> QED
        BY <1>3, <1>4, <1>6, <2>1
<1>8. c = b
    BY <1>4, <1>6, <1>7, SeqEqual
<1> QED
    BY <1>3, <1>8 DEF a, b, c

-----------------------------------------------------------------------------
(* A line of a hunk, and a hunk.                                           *)

KindOf(ln) == CASE ln.mark = "+" -> "add" [] ln.mark = "-" -> "del" [] OTHER -> "context"

LineOf(nums, ln) ==
    [kind |-> KindOf(ln), text |-> ln.text,
     oldNum |-> IF KindOf(ln) = "add" THEN 0 ELSE nums.old,
     newNum |-> IF KindOf(ln) = "del" THEN 0 ELSE nums.new]

LastLine(hunks, line) == [hunks EXCEPT ![Len(hunks)] = WithLine(hunks[Len(hunks)], line)]
Adds(n, ln) == IF ln.mark = "+" THEN n + 1 ELSE n
Dels(n, ln) == IF ln.mark = "-" THEN n + 1 ELSE n

LEMMA BodyFile ==
    ASSUME NEW p, NEW o, NEW st, NEW bin, NEW bl, NEW hs, NEW add, NEW del, NEW nums, NEW ln
    PROVE  Body(File(p, o, st, bin, bl, hs, add, del), nums, ln)
           = File(p, o, st, bin, bl, LastLine(hs, LineOf(nums, ln)), Adds(add, ln), Dels(del, ln))
<1> DEFINE f(h, a, d) == File(p, o, st, bin, bl, h, a, d)
           n == Len(hs)
           x == WithLine(hs[n], LineOf(nums, ln))
           a1 == IF ln.mark = "+" THEN add + 1 ELSE add
           d1 == IF ln.mark = "-" THEN del + 1 ELSE del
           h1 == [hs EXCEPT ![n] = x]
<1>1. /\ f(hs, add, del).hunks = hs /\ f(hs, add, del).add = add /\ f(hs, add, del).del = del
    BY DEF File
<1>2. (KindOf(ln) = "add" <=> ln.mark = "+") /\ (KindOf(ln) = "del" <=> ln.mark = "-")
    BY Zenon DEF KindOf
<1>3. Body(f(hs, add, del), nums, ln)
      = [f(hs, add, del) EXCEPT !.hunks[n] = x,
                                !.add = IF KindOf(ln) = "add" THEN add + 1 ELSE add,
                                !.del = IF KindOf(ln) = "del" THEN del + 1 ELSE del]
    <2> HIDE DEF f
    <2> QED
        BY <1>1 DEF Body, KindOf, LineOf, WithLine
<1>4. Body(f(hs, add, del), nums, ln)
      = [f(hs, add, del) EXCEPT !.hunks[n] = x, !.add = a1, !.del = d1]
    <2> HIDE DEF f, x
    <2> QED
        BY <1>2, <1>3
<1> HIDE DEF x, a1, d1
<1>5. [f(hs, add, del) EXCEPT !.hunks[n] = x] = f(h1, add, del)
    BY DEF File
<1> HIDE DEF h1
<1>6. [f(h1, add, del) EXCEPT !.add = a1] = f(h1, a1, del)
    BY DEF File
<1>7. [f(h1, a1, del) EXCEPT !.del = d1] = f(h1, a1, d1)
    BY DEF File
<1> HIDE DEF f
<1>8. Body(f(hs, add, del), nums, ln) = f(h1, a1, d1)
    BY <1>4, <1>5, <1>6, <1>7
<1> QED
    BY <1>8, Zenon DEF f, h1, x, a1, d1, LastLine, Adds, Dels

\* The numbers of the line after the first j of a hunk.
NumsAt(h, j) == [old |-> h.old + On(h, j, "+"), new |-> h.new + On(h, j, "-")]
BodyLine(h, j) == [is |-> "body", mark |-> h.body[j].mark, text |-> h.body[j].text]

LEMMA LineIsMeant ==
    ASSUME NEW h, NEW j \in Nat
    PROVE  LineOf(NumsAt(h, j), BodyLine(h, j + 1)) = MeantLine(h, j + 1)
<1>1. (j + 1) - 1 = j
    OBVIOUS
<1>2. NumsAt(h, j).old = h.old + On(h, j, "+") /\ NumsAt(h, j).new = h.new + On(h, j, "-")
    BY DEF NumsAt
<1>3. BodyLine(h, j + 1).mark = h.body[j + 1].mark /\ BodyLine(h, j + 1).text = h.body[j + 1].text
    BY Zenon DEF BodyLine
<1>4. MeantLine(h, j + 1)
      = [kind |-> KindOf(BodyLine(h, j + 1)), text |-> BodyLine(h, j + 1).text,
         oldNum |-> IF h.body[j + 1].mark = "+" THEN 0 ELSE h.old + On(h, j, "+"),
         newNum |-> IF h.body[j + 1].mark = "-" THEN 0 ELSE h.new + On(h, j, "-")]
    BY <1>1, <1>3 DEF MeantLine, KindOf
<1>5. /\ (KindOf(BodyLine(h, j + 1)) = "add" <=> h.body[j + 1].mark = "+")
      /\ (KindOf(BodyLine(h, j + 1)) = "del" <=> h.body[j + 1].mark = "-")
    BY <1>3, Zenon DEF KindOf
<1> QED
    BY <1>2, <1>4, <1>5 DEF LineOf

LEMMA NumbersMore ==
    ASSUME NEW h, NEW j \in Nat, h.old \in Nat, h.new \in Nat
    PROVE  Numbers(NumsAt(h, j), BodyLine(h, j + 1)) = NumsAt(h, j + 1)
<1> DEFINE ln == BodyLine(h, j + 1)
           m == h.body[j + 1].mark
           plus == "+"
           minus == "-"
<1>1. ln.is = "body" /\ ln.mark = m
    BY Zenon DEF BodyLine
<1>2. NumsAt(h, j).old = h.old + On(h, j, plus) /\ NumsAt(h, j).new = h.new + On(h, j, minus)
    BY DEF NumsAt
<1> HIDE DEF ln
<1>3. Numbers(NumsAt(h, j), ln)
      = [old |-> IF m = plus THEN NumsAt(h, j).old ELSE NumsAt(h, j).old + 1,
         new |-> IF m = minus THEN NumsAt(h, j).new ELSE NumsAt(h, j).new + 1]
    BY <1>1, Zenon DEF Numbers, plus, minus
<1>4. /\ On(h, j, plus) \in Nat /\ On(h, j, minus) \in Nat
      /\ On(h, j + 1, plus) = IF m # plus THEN On(h, j, plus) + 1 ELSE On(h, j, plus)
      /\ On(h, j + 1, minus) = IF m # minus THEN On(h, j, minus) + 1 ELSE On(h, j, minus)
    BY OnMore
<1> HIDE DEF m, plus, minus
<1>5. NumsAt(h, j + 1) = [old |-> h.old + On(h, j + 1, plus), new |-> h.new + On(h, j + 1, minus)]
    BY Zenon DEF NumsAt, plus, minus
<1>6. (IF m = plus THEN h.old + On(h, j, plus) ELSE h.old + On(h, j, plus) + 1)
      = h.old + On(h, j + 1, plus)
    BY <1>4
<1>7. (IF m = minus THEN h.new + On(h, j, minus) ELSE h.new + On(h, j, minus) + 1)
      = h.new + On(h, j + 1, minus)
    BY <1>4
<1> QED
    BY <1>2, <1>3, <1>5, <1>6, <1>7 DEF ln

FileOf(ch, p, o, hunks, add, del) == File(p, o, ch.status, ch.binary, ch.blobs, hunks, add, del)
Count(S) == Cardinality(S)
FileBefore(ch, p, o, i) ==
    FileOf(ch, p, o, HunksBefore(ch, i), Count(MarkedBefore(ch, i, "+")),
           Count(MarkedBefore(ch, i, "-")))
FileTo(ch, p, o, i, j) ==
    FileOf(ch, p, o, HunksTo(ch, i, j), Count(MarkedTo(ch, i, j, "+")),
           Count(MarkedTo(ch, i, j, "-")))

LEMMA LastHunkMore ==
    ASSUME NEW ch, NEW i \in Nat, NEW j \in Nat, NEW ln,
           ln = BodyLine(ch.hunks[i + 1], j + 1)
    PROVE  LET hs == HunksTo(ch, i + 1, j)
           IN  /\ LastLine(hs, LineOf(NumsAt(ch.hunks[i + 1], j), ln)) = HunksTo(ch, i + 1, j + 1)
               /\ hs # <<>>
<1> DEFINE h == ch.hunks[i + 1]
           b == HunksBefore(ch, i)
           x == HunkTo(h, j)
           y == HunkTo(h, j + 1)
           X == {MeantHunk(ch.hunks[k]) : k \in 1 .. i}
           hs == Append(b, x)
<1>1. b \in Seq(X) /\ Len(b) = i
    BY DEF HunksBefore
<1>2. (i + 1) - 1 = i
    OBVIOUS
<1>3. HunksTo(ch, i + 1, j) = hs /\ HunksTo(ch, i + 1, j + 1) = Append(b, y)
    BY <1>2 DEF HunksTo
<1>4. WithLine(x, LineOf(NumsAt(h, j), ln)) = y
    BY HunkMore, LineIsMeant
<1> HIDE DEF b, x, y, X, h
<1>5. Len(hs) = i + 1 /\ hs[i + 1] = x /\ [hs EXCEPT ![i + 1] = y] = Append(b, y)
    BY <1>1, LastSet
<1> HIDE DEF hs
<1>6. hs # <<>>
    BY <1>5
<1> QED
    BY <1>3, <1>4, <1>5, <1>6 DEF h, LastLine

MarksFinite(ch, i, j) ==
    IsFiniteSet(MarkedTo(ch, i, j, "+")) /\ IsFiniteSet(MarkedTo(ch, i, j, "-"))

ReadsLine(F, ch, p, o, k, j) ==
    /\ Take(State(F, FileTo(ch, p, o, k, j), NumsAt(ch.hunks[k], j)),
            BodyLine(ch.hunks[k], j + 1))
       = State(F, FileTo(ch, p, o, k, j + 1), NumsAt(ch.hunks[k], j + 1))
    /\ MarksFinite(ch, k, j + 1)

LEMMA BodyRead ==
    ASSUME NEW F, NEW ch, NEW p, NEW o, NEW i \in Nat, NEW j \in Nat,
           ch.hunks[i + 1].old \in Nat, ch.hunks[i + 1].new \in Nat,
           MarksFinite(ch, i + 1, j)
    PROVE  ReadsLine(F, ch, p, o, i + 1, j)
<1> DEFINE h == ch.hunks[i + 1]
           f == FileTo(ch, p, o, i + 1, j)
           ln == BodyLine(h, j + 1)
           hs == HunksTo(ch, i + 1, j)
           plus == "+"
           minus == "-"
           a == Count(MarkedTo(ch, i + 1, j, plus))
           d == Count(MarkedTo(ch, i + 1, j, minus))
           hs1 == HunksTo(ch, i + 1, j + 1)
           a1 == Count(MarkedTo(ch, i + 1, j + 1, plus))
           d1 == Count(MarkedTo(ch, i + 1, j + 1, minus))
<1>1. f = File(p, o, ch.status, ch.binary, ch.blobs, hs, a, d)
    BY Zenon DEF FileTo, FileOf
<1>2. FileTo(ch, p, o, i + 1, j + 1) = File(p, o, ch.status, ch.binary, ch.blobs, hs1, a1, d1)
    BY Zenon DEF FileTo, FileOf
<1>3. ln.is = "body" /\ ln.mark = h.body[j + 1].mark
    BY Zenon DEF BodyLine
<1>4. LastLine(hs, LineOf(NumsAt(h, j), ln)) = hs1 /\ hs # <<>>
    <2> HIDE DEF ln
    <2>1. ln = BodyLine(ch.hunks[i + 1], j + 1)
        BY DEF ln
    <2> QED
        BY <2>1, LastHunkMore
<1>5. IsFiniteSet(MarkedTo(ch, i + 1, j, plus)) /\ IsFiniteSet(MarkedTo(ch, i + 1, j, minus))
    BY Zenon DEF MarksFinite
<1>6. Numbers(NumsAt(h, j), ln) = NumsAt(h, j + 1)
    BY NumbersMore
<1>7. Body(File(p, o, ch.status, ch.binary, ch.blobs, hs, a, d), NumsAt(h, j), ln)
      = File(p, o, ch.status, ch.binary, ch.blobs,
             LastLine(hs, LineOf(NumsAt(h, j), ln)), Adds(a, ln), Dels(d, ln))
    <2> HIDE DEF a, d, hs, h, ln
    <2> QED
        BY BodyFile
<1> HIDE DEF plus, minus
<1>8. a1 = Adds(a, ln)
    <2>1. Cardinality(MarkedTo(ch, i + 1, j + 1, plus))
          = IF h.body[j + 1].mark = plus THEN Cardinality(MarkedTo(ch, i + 1, j, plus)) + 1
            ELSE Cardinality(MarkedTo(ch, i + 1, j, plus))
        BY <1>5, MarkedMore
    <2> QED
        BY <1>3, <2>1, Zenon DEF Count, Adds, plus
<1>9. d1 = Dels(d, ln)
    <2>1. Cardinality(MarkedTo(ch, i + 1, j + 1, minus))
          = IF h.body[j + 1].mark = minus THEN Cardinality(MarkedTo(ch, i + 1, j, minus)) + 1
            ELSE Cardinality(MarkedTo(ch, i + 1, j, minus))
        BY <1>5, MarkedMore
    <2> QED
        BY <1>3, <2>1, Zenon DEF Count, Dels, minus
<1>10. f # Nobody
    BY <1>1, FileIsSome, Zenon
<1>11. InHunk(f)
    <2>1. File(p, o, ch.status, ch.binary, ch.blobs, hs, a, d).hunks = hs
        BY Zenon DEF File
    <2> QED
        BY <1>1, <1>4, <2>1, Zenon DEF InHunk
<1> HIDE DEF ln, hs, hs1, a, d, a1, d1, f
<1>12. Body(f, NumsAt(h, j), ln) = FileTo(ch, p, o, i + 1, j + 1)
    BY <1>1, <1>2, <1>4, <1>7, <1>8, <1>9, Zenon
<1>13. Take(State(F, f, NumsAt(h, j)), ln)
       = State(F, Body(f, NumsAt(h, j), ln), Numbers(NumsAt(h, j), ln))
    BY <1>3, <1>10, <1>11, TakeBody, Zenon
<1>14. MarksFinite(ch, i + 1, j + 1)
    <2>1. /\ IsFiniteSet(MarkedTo(ch, i + 1, j + 1, plus))
          /\ IsFiniteSet(MarkedTo(ch, i + 1, j + 1, minus))
        BY <1>5, MarkedMore
    <2> QED
        BY <2>1, Zenon DEF MarksFinite, plus, minus
<1> QED
    BY <1>6, <1>12, <1>13, <1>14, Zenon DEF f, ln, ReadsLine

OpenLine(h) == [is |-> "@@", old |-> h.old, new |-> h.new]
NewHunk(h) == [oldStart |-> h.old, newStart |-> h.new, lines |-> <<>>]

LEMMA HunkFile ==
    ASSUME NEW p, NEW o, NEW st, NEW bin, NEW bl, NEW hs, NEW add, NEW del, NEW h
    PROVE  Hunk(File(p, o, st, bin, bl, hs, add, del), OpenLine(h))
           = File(p, o, st, bin, bl, Append(hs, NewHunk(h)), add, del)
<1> DEFINE ln == OpenLine(h)
           f == File(p, o, st, bin, bl, hs, add, del)
           x == Append(hs, NewHunk(h))
<1>1. ln.old = h.old /\ ln.new = h.new
    BY Zenon DEF OpenLine
<1> HIDE DEF ln
<1>2. [oldStart |-> ln.old, newStart |-> ln.new, lines |-> <<>>] = NewHunk(h)
    BY <1>1, Zenon DEF NewHunk
<1>3. f.hunks = hs
    BY DEF File
<1>4. Hunk(f, ln) = [f EXCEPT !.hunks = x]
    <2> HIDE DEF f
    <2> QED
        BY <1>2, <1>3, Zenon DEF Hunk
<1> HIDE DEF x
<1>5. [f EXCEPT !.hunks = x] = File(p, o, st, bin, bl, x, add, del)
    BY DEF File
<1> QED
    BY <1>4, <1>5 DEF x, ln

LEMMA OpenRead ==
    ASSUME NEW F, NEW n, NEW ch, NEW p, NEW o, NEW i \in Nat,
           ch.hunks[i + 1].old \in Nat, ch.hunks[i + 1].new \in Nat,
           ch.hunks[i + 1].body \in Seq(ToSet(ch.hunks[i + 1].body))
    PROVE  Take(State(F, FileBefore(ch, p, o, i), n), OpenLine(ch.hunks[i + 1]))
           = State(F, FileTo(ch, p, o, i + 1, 0), NumsAt(ch.hunks[i + 1], 0))
<1> DEFINE h == ch.hunks[i + 1]
           ln == OpenLine(h)
           f == FileBefore(ch, p, o, i)
           hs == HunksBefore(ch, i)
           plus == "+"
           minus == "-"
           a == Count(MarkedBefore(ch, i, plus))
           d == Count(MarkedBefore(ch, i, minus))
<1>1. f = File(p, o, ch.status, ch.binary, ch.blobs, hs, a, d)
    BY Zenon DEF FileBefore, FileOf
<1>2. FileTo(ch, p, o, i + 1, 0)
      = File(p, o, ch.status, ch.binary, ch.blobs, HunksTo(ch, i + 1, 0),
             Count(MarkedTo(ch, i + 1, 0, plus)), Count(MarkedTo(ch, i + 1, 0, minus)))
    BY Zenon DEF FileTo, FileOf
<1>3. Opens(ln) /\ ln.old = h.old /\ ln.new = h.new
    BY Zenon DEF OpenLine, Opens
<1>4. NumsAt(h, 0) = [old |-> h.old + On(h, 0, plus), new |-> h.new + On(h, 0, minus)]
    BY Zenon DEF NumsAt
<1> HIDE DEF plus, minus
<1>5. /\ MarkedTo(ch, i + 1, 0, plus) = MarkedBefore(ch, i, plus)
      /\ MarkedTo(ch, i + 1, 0, minus) = MarkedBefore(ch, i, minus)
    BY MarkedEnds
<1>6. HunksTo(ch, i + 1, 0) = Append(hs, NewHunk(h))
    <2>1. (i + 1) - 1 = i
        OBVIOUS
    <2>2. HunkTo(h, 0) = NewHunk(h)
        BY HunkEnds DEF NewHunk
    <2> QED
        BY <2>1, <2>2 DEF HunksTo
<1>7. NumsAt(h, 0) = NumsOn(ln)
    <2>1. On(h, 0, plus) = 0 /\ On(h, 0, minus) = 0
        BY OnNone
    <2>2. h.old + 0 = h.old /\ h.new + 0 = h.new
        OBVIOUS
    <2> QED
        BY <1>3, <1>4, <2>1, <2>2, Zenon DEF NumsOn
<1>8. f # Nobody
    BY <1>1, FileIsSome, Zenon
<1>9. Hunk(File(p, o, ch.status, ch.binary, ch.blobs, hs, a, d), ln)
      = File(p, o, ch.status, ch.binary, ch.blobs, Append(hs, NewHunk(h)), a, d)
    BY HunkFile
<1> HIDE DEF f, ln, h
<1>10. Take(State(F, f, n), ln) = State(F, Hunk(f, ln), NumsOn(ln))
    BY <1>3, <1>8, TakeHunk
<1> QED
    BY <1>1, <1>2, <1>5, <1>6, <1>7, <1>9, <1>10, Zenon DEF f, ln, h

LEMMA HunkClosed ==
    ASSUME NEW ch, NEW p, NEW o, NEW i \in Nat,
           ch.hunks[i + 1].body \in Seq(ToSet(ch.hunks[i + 1].body))
    PROVE  FileTo(ch, p, o, i + 1, Len(ch.hunks[i + 1].body)) = FileBefore(ch, p, o, i + 1)
<1> DEFINE h == ch.hunks[i + 1]
           n == Len(h.body)
           plus == "+"
           minus == "-"
<1>1. FileTo(ch, p, o, i + 1, n)
      = FileOf(ch, p, o, HunksTo(ch, i + 1, n), Count(MarkedTo(ch, i + 1, n, plus)),
               Count(MarkedTo(ch, i + 1, n, minus)))
    BY Zenon DEF FileTo
<1>2. FileBefore(ch, p, o, i + 1)
      = FileOf(ch, p, o, HunksBefore(ch, i + 1), Count(MarkedBefore(ch, i + 1, plus)),
               Count(MarkedBefore(ch, i + 1, minus)))
    BY Zenon DEF FileBefore
<1> HIDE DEF plus, minus
<1>3. /\ MarkedTo(ch, i + 1, n, plus) = MarkedBefore(ch, i + 1, plus)
      /\ MarkedTo(ch, i + 1, n, minus) = MarkedBefore(ch, i + 1, minus)
    BY MarkedEnds
<1>4. HunksTo(ch, i + 1, n) = HunksBefore(ch, i + 1)
    <2>1. (i + 1) - 1 = i
        OBVIOUS
    <2>2. HunkTo(h, n) = MeantHunk(h)
        BY HunkEnds
    <2>3. HunksBefore(ch, i + 1) = Append(HunksBefore(ch, i), MeantHunk(h))
        BY HunksEnds
    <2> QED
        BY <2>1, <2>2, <2>3 DEF HunksTo
<1> QED
    BY <1>1, <1>2, <1>3, <1>4

MarksFiniteBefore(ch, i) ==
    IsFiniteSet(MarkedBefore(ch, i, "+")) /\ IsFiniteSet(MarkedBefore(ch, i, "-"))

LEMMA MarksFiniteEnds ==
    ASSUME NEW ch, NEW i \in Nat
    PROVE  /\ MarksFiniteBefore(ch, 0)
           /\ MarksFinite(ch, i + 1, 0) <=> MarksFiniteBefore(ch, i)
           /\ MarksFinite(ch, i + 1, Len(ch.hunks[i + 1].body)) <=> MarksFiniteBefore(ch, i + 1)
<1> DEFINE n == Len(ch.hunks[i + 1].body)
<1>1. \A mark : /\ MarkedTo(ch, i + 1, 0, mark) = MarkedBefore(ch, i, mark)
                /\ MarkedTo(ch, i + 1, n, mark) = MarkedBefore(ch, i + 1, mark)
                /\ MarkedBefore(ch, 0, mark) = {}
    BY MarkedEnds
<1> HIDE DEF n
<1> QED
    BY <1>1, FS_EmptySet, Zenon DEF MarksFinite, MarksFiniteBefore, n

BodyLines(h) == [j \in DOMAIN h.body |-> BodyLine(h, j)]

GitHunk(h) == h.old \in Nat /\ h.new \in Nat /\ h.body \in Seq(ToSet(h.body))

LEMMA BodyListed ==
    ASSUME NEW h, GitHunk(h)
    PROVE  /\ IsList(BodyLines(h)) /\ Len(BodyLines(h)) = Len(h.body) /\ Len(h.body) \in Nat
           /\ \A j \in 1 .. Len(h.body) : BodyLines(h)[j] = BodyLine(h, j)
<1> DEFINE X == {BodyLine(h, j) : j \in 1 .. Len(h.body)}
           b == BodyLines(h)
<1>1. Len(h.body) \in Nat /\ DOMAIN h.body = 1 .. Len(h.body)
    BY DEF GitHunk
<1>2. \A j \in 1 .. Len(h.body) : BodyLine(h, j) \in X
    OBVIOUS
<1> HIDE DEF X
<1>3. /\ b \in Seq(X) /\ Len(b) = Len(h.body)
      /\ \A j \in 1 .. Len(h.body) : b[j] = BodyLine(h, j)
    BY <1>1, <1>2 DEF BodyLines
<1> QED
    BY <1>1, <1>3, ListOf

\* A hunk is read to its end.
LEMMA HunkRead ==
    ASSUME NEW F, NEW n, NEW ch, NEW p, NEW o, NEW i \in Nat,
           GitHunk(ch.hunks[i + 1]), MarksFiniteBefore(ch, i)
    PROVE  /\ IsList(HunkLines(ch.hunks[i + 1]))
           /\ \E m : Scan(State(F, FileBefore(ch, p, o, i), n), HunkLines(ch.hunks[i + 1]))
                     = State(F, FileBefore(ch, p, o, i + 1), m)
           /\ MarksFiniteBefore(ch, i + 1)
<1> DEFINE h == ch.hunks[i + 1]
           l == Len(h.body)
           b == BodyLines(h)
           s == State(F, FileBefore(ch, p, o, i), n)
           t == State(F, FileTo(ch, p, o, i + 1, 0), NumsAt(h, 0))
           AtLine(j) == State(F, FileTo(ch, p, o, i + 1, j), NumsAt(h, j))
<1>1. h.old \in Nat /\ h.new \in Nat /\ h.body \in Seq(ToSet(h.body))
    BY DEF GitHunk
<1>2. IsList(b) /\ Len(b) = l /\ l \in Nat /\ \A j \in 1 .. l : b[j] = BodyLine(h, j)
    BY BodyListed
<1>3. HunkLines(h) = <<OpenLine(h)>> \o b
    BY Zenon DEF HunkLines, OpenLine, BodyLines, BodyLine
<1>4. IsList(<<OpenLine(h)>>)
    BY ShortLists
<1>5. Scan(s, <<OpenLine(h)>>) = t
    <2>1. Take(s, OpenLine(h)) = t
        BY <1>1, OpenRead
    <2> QED
        BY <2>1, ScanOne, Zenon
<1>6. MarksFinite(ch, i + 1, 0)
    BY MarksFiniteEnds
<1>7. \A j \in Nat : MarksFinite(ch, i + 1, j) =>
                    /\ Take(AtLine(j), BodyLine(h, j + 1)) = AtLine(j + 1)
                    /\ MarksFinite(ch, i + 1, j + 1)
    <2> SUFFICES ASSUME NEW j \in Nat, MarksFinite(ch, i + 1, j)
                 PROVE  /\ Take(AtLine(j), BodyLine(h, j + 1)) = AtLine(j + 1)
                        /\ MarksFinite(ch, i + 1, j + 1)
        OBVIOUS
    <2>1. ReadsLine(F, ch, p, o, i + 1, j)
        BY <1>1, BodyRead
    <2> QED
        BY <2>1, Zenon DEF ReadsLine
<1>8. FileTo(ch, p, o, i + 1, l) = FileBefore(ch, p, o, i + 1)
    BY <1>1, HunkClosed
<1>9. t = AtLine(0)
    OBVIOUS
<1> HIDE DEF b, AtLine, t, s, l
<1>10. PICK f : Loops(f, t, b, l) /\ Scan(t, b) = f[l]
    BY <1>2, ScanLoops
<1>11. f[0] = t /\ \A j \in 1 .. l : f[j] = Take(f[j - 1], b[j])
    BY <1>10 DEF Loops
<1> DEFINE T == {j \in Nat : j <= l => f[j] = AtLine(j) /\ MarksFinite(ch, i + 1, j)}
<1>12. 0 \in T
    BY <1>6, <1>9, <1>11
<1>13. ASSUME NEW j \in Nat, j \in T PROVE j + 1 \in T
    <2> DEFINE k == j + 1
    <2> SUFFICES ASSUME k <= l PROVE f[k] = AtLine(k) /\ MarksFinite(ch, i + 1, k)
        OBVIOUS
    <2>1. k \in 1 .. l /\ k - 1 = j /\ j <= l
        BY <1>2
    <2>2. f[j] = AtLine(j) /\ MarksFinite(ch, i + 1, j)
        BY <1>13, <2>1
    <2>3. Take(AtLine(j), BodyLine(h, k)) = AtLine(k) /\ MarksFinite(ch, i + 1, k)
        BY <1>7, <2>2
    <2> HIDE DEF k
    <2>4. f[k] = Take(f[j], BodyLine(h, k))
        BY <1>2, <1>11, <2>1
    <2> QED
        BY <2>2, <2>3, <2>4
<1>14. l \in T
    <2> HIDE DEF T
    <2> QED
        BY <1>2, <1>12, <1>13, Induct
<1>15. f[l] = AtLine(l) /\ MarksFinite(ch, i + 1, l)
    BY <1>2, <1>14
<1>16. IsList(HunkLines(h)) /\ Scan(s, HunkLines(h)) = Scan(Scan(s, <<OpenLine(h)>>), b)
    BY <1>2, <1>3, <1>4, ScanLists
<1>17. Scan(s, HunkLines(h)) = State(F, FileBefore(ch, p, o, i + 1), NumsAt(h, l))
    BY <1>5, <1>8, <1>10, <1>15, <1>16 DEF AtLine
<1>18. MarksFiniteBefore(ch, i + 1)
    BY <1>15, MarksFiniteEnds DEF l
<1> QED
    BY <1>16, <1>17, <1>18, Zenon DEF s

Texts(seqs, n) == seqs = [i \in 1 .. n |-> seqs[i]] /\ \A i \in 1 .. n : IsList(seqs[i])

Chains(g, seqs, n) ==
    /\ g[0] = <<>>
    /\ \A i \in 0 .. n : IsList(g[i])
    /\ \A i \in 1 .. n : \A s : Scan(s, g[i]) = Scan(Scan(s, g[i - 1]), seqs[i])

\* Texts one after the other are read one after the other.
LEMMA FlattenScan ==
    ASSUME NEW n \in Nat, NEW seqs, Texts(seqs, n)
    PROVE  \E g : Chains(g, seqs, n) /\ FlattenSeq(seqs) = g[n]
<1> DEFINE X == UNION {ToSet(seqs[i]) : i \in 1 .. n}
<1>1. ASSUME NEW i \in 1 .. n PROVE seqs[i] \in Seq(X)
    <2>1. ToSet(seqs[i]) \subseteq X
        OBVIOUS
    <2>2. IsList(seqs[i])
        BY Zenon DEF Texts
    <2> HIDE DEF X
    <2> QED
        BY <2>1, <2>2, SeqMonotonic DEF IsList
<1> HIDE DEF X
<1>2. Lists(seqs, n, X)
    <2>1. seqs = [i \in 1 .. n |-> seqs[i]]
        BY Zenon DEF Texts
    <2> QED
        BY <1>1, <2>1, Zenon DEF Lists
<1>3. PICK g : Joins(g, seqs, n, X) /\ FlattenSeq(seqs) = g[n]
    BY <1>2, FlattenJoins
<1>4. /\ g[0] = <<>>
      /\ \A i \in 0 .. n : g[i] \in Seq(X)
      /\ \A i \in 1 .. n : g[i] = g[i - 1] \o seqs[i]
    BY <1>3, Zenon DEF Joins
<1>5. ASSUME NEW i \in 0 .. n PROVE IsList(g[i])
    BY <1>4, ListOf
<1>6. ASSUME NEW i \in 1 .. n, NEW s PROVE Scan(s, g[i]) = Scan(Scan(s, g[i - 1]), seqs[i])
    <2>1. i - 1 \in 0 .. n
        OBVIOUS
    <2>2. g[i - 1] \in Seq(X) /\ seqs[i] \in Seq(X)
        BY <1>1, <1>4, <2>1
    <2>3. Scan(s, g[i - 1] \o seqs[i]) = Scan(Scan(s, g[i - 1]), seqs[i])
        BY <2>2, ScanConcat
    <2> QED
        BY <1>4, <2>3
<1>7. Chains(g, seqs, n)
    BY <1>4, <1>5, <1>6, Zenon DEF Chains
<1> QED
    BY <1>3, <1>7

HunkTexts(ch) == [i \in DOMAIN ch.hunks |-> HunkLines(ch.hunks[i])]

GitHunks(ch) == /\ ch.hunks \in Seq(ToSet(ch.hunks))
                /\ \A i \in 1 .. Len(ch.hunks) : GitHunk(ch.hunks[i])

\* Marks are finite in number to the end of a hunk list.
LEMMA AllMarksFinite ==
    ASSUME NEW ch, GitHunks(ch), NEW k \in Nat, k <= Len(ch.hunks)
    PROVE  MarksFiniteBefore(ch, k)
<1> DEFINE l == Len(ch.hunks)
           T == {i \in Nat : i <= l => MarksFiniteBefore(ch, i)}
<1>1. l \in Nat
    BY DEF GitHunks
<1> HIDE DEF l
<1>2. 0 \in T
    BY MarksFiniteEnds
<1>3. ASSUME NEW i \in Nat, i \in T PROVE i + 1 \in T
    <2> SUFFICES ASSUME i + 1 <= l PROVE MarksFiniteBefore(ch, i + 1)
        OBVIOUS
    <2>1. i + 1 \in 1 .. l /\ MarksFiniteBefore(ch, i)
        BY <1>1, <1>3
    <2>2. GitHunk(ch.hunks[i + 1])
        BY <2>1 DEF GitHunks, l
    <2> QED
        BY <2>1, <2>2, HunkRead
<1>4. k \in T
    <2> HIDE DEF T
    <2> QED
        BY <1>2, <1>3, Induct
<1> QED
    BY <1>4 DEF l

\* The hunks of a change are read to the last one.
LEMMA HunksRead ==
    ASSUME NEW F, NEW n, NEW ch, NEW p, NEW o, GitHunks(ch)
    PROVE  /\ IsList(FlattenSeq(HunkTexts(ch)))
           /\ \E m : Scan(State(F, FileBefore(ch, p, o, 0), n), FlattenSeq(HunkTexts(ch)))
                     = State(F, FileBefore(ch, p, o, Len(ch.hunks)), m)
<1> DEFINE l == Len(ch.hunks)
           seqs == HunkTexts(ch)
           s == State(F, FileBefore(ch, p, o, 0), n)
           Reads(g, i) == \E m : Scan(s, g[i]) = State(F, FileBefore(ch, p, o, i), m)
<1>1. l \in Nat /\ DOMAIN ch.hunks = 1 .. l
    BY DEF GitHunks
<1>2. \A i \in 1 .. l : GitHunk(ch.hunks[i])
    BY Zenon DEF GitHunks
<1>3. \A i \in 1 .. l : seqs[i] = HunkLines(ch.hunks[i])
    BY <1>1, Zenon DEF HunkTexts
<1>4. ASSUME NEW i \in 1 .. l PROVE IsList(seqs[i])
    <2>1. i - 1 \in Nat /\ (i - 1) + 1 = i /\ i - 1 <= l
        BY <1>1
    <2>2. MarksFiniteBefore(ch, i - 1)
        BY <2>1, AllMarksFinite
    <2>3. GitHunk(ch.hunks[(i - 1) + 1])
        BY <1>2, <2>1
    <2>4. IsList(HunkLines(ch.hunks[(i - 1) + 1]))
        BY <2>1, <2>2, <2>3, HunkRead
    <2> QED
        BY <1>3, <2>1, <2>4
<1>5. seqs = [i \in 1 .. l |-> seqs[i]]
    BY <1>1 DEF HunkTexts
<1> HIDE DEF seqs, l, s
<1>6. Texts(seqs, l)
    BY <1>4, <1>5, Zenon DEF Texts
<1>7. PICK g : Chains(g, seqs, l) /\ FlattenSeq(seqs) = g[l]
    BY <1>1, <1>6, FlattenScan
<1>8. /\ g[0] = <<>>
      /\ \A i \in 0 .. l : IsList(g[i])
      /\ \A i \in 1 .. l : \A t : Scan(t, g[i]) = Scan(Scan(t, g[i - 1]), seqs[i])
    BY <1>7, Zenon DEF Chains
<1> DEFINE T == {i \in Nat : i <= l => Reads(g, i)}
<1>9. 0 \in T
    <2>1. Scan(s, g[0]) = s
        BY <1>8, ScanNone
    <2> QED
        BY <2>1 DEF s
<1>10. ASSUME NEW i \in Nat, i \in T PROVE i + 1 \in T
    <2> HIDE DEF Reads
    <2> SUFFICES ASSUME i + 1 <= l PROVE Reads(g, i + 1)
        OBVIOUS
    <2>1. i + 1 \in 1 .. l /\ (i + 1) - 1 = i /\ i <= l /\ Reads(g, i)
        BY <1>1, <1>10
    <2>2. PICK m : Scan(s, g[i]) = State(F, FileBefore(ch, p, o, i), m)
        BY <2>1 DEF Reads
    <2>3. MarksFiniteBefore(ch, i)
        BY <2>1, AllMarksFinite DEF l
    <2>4. GitHunk(ch.hunks[i + 1])
        BY <1>2, <2>1
    <2>5. PICK r : Scan(State(F, FileBefore(ch, p, o, i), m), HunkLines(ch.hunks[i + 1]))
                   = State(F, FileBefore(ch, p, o, i + 1), r)
        BY <2>3, <2>4, HunkRead
    <2>6. Scan(s, g[i + 1]) = Scan(Scan(s, g[i]), seqs[i + 1])
        BY <1>8, <2>1
    <2>7. Scan(s, g[i + 1]) = State(F, FileBefore(ch, p, o, i + 1), r)
        BY <1>3, <2>1, <2>2, <2>5, <2>6
    <2> QED
        BY <2>7 DEF Reads
<1>11. l \in T
    <2> HIDE DEF T
    <2> QED
        BY <1>1, <1>9, <1>10, Induct
<1>12. Reads(g, l) /\ IsList(g[l])
    BY <1>1, <1>8, <1>11
<1> QED
    BY <1>7, <1>12 DEF seqs, l, s

-----------------------------------------------------------------------------
(* A change, and a text of changes.                                        *)

LEMMA GitHasHunks ==
    ASSUME NEW ch, GitChange(ch)
    PROVE  GitHunks(ch)
<1>1. ch.hunks \in Seq(ToSet(ch.hunks))
    BY Zenon DEF GitChange
<1>2. \A h \in ToSet(ch.hunks) : GitHunk(h)
    BY Zenon DEF GitChange, GitHunk
<1>3. \A i \in 1 .. Len(ch.hunks) : ch.hunks[i] \in ToSet(ch.hunks)
    BY <1>1 DEF ToSet
<1> QED
    BY <1>1, <1>2, <1>3, Zenon DEF GitHunks

MeantOld(ch) == IF ch.status = "added" THEN <<>> ELSE ch.old

LEMMA MarkedAll ==
    ASSUME NEW ch, GitHunks(ch), NEW mark
    PROVE  Marked(ch, mark) = Count(MarkedBefore(ch, Len(ch.hunks), mark))
<1> DEFINE In(i) == {<<i, j>> : j \in {l \in DOMAIN ch.hunks[i].body :
                                         ch.hunks[i].body[l].mark = mark}}
<1>1. DOMAIN ch.hunks = 1 .. Len(ch.hunks)
    BY DEF GitHunks
<1>2. ASSUME NEW i \in 1 .. Len(ch.hunks)
      PROVE  In(i) = MarkedIn(ch, i, Len(ch.hunks[i].body), mark)
    <2>1. GitHunk(ch.hunks[i])
        BY Zenon DEF GitHunks
    <2>2. DOMAIN ch.hunks[i].body = 1 .. Len(ch.hunks[i].body)
        BY <2>1 DEF GitHunk
    <2> QED
        BY <2>2, Zenon DEF MarkedIn
<1>3. Marked(ch, mark) = Cardinality(UNION {In(i) : i \in 1 .. Len(ch.hunks)})
    BY <1>1, Zenon DEF Marked
<1> HIDE DEF In
<1>4. {In(i) : i \in 1 .. Len(ch.hunks)}
      = {MarkedIn(ch, i, Len(ch.hunks[i].body), mark) : i \in 1 .. Len(ch.hunks)}
    BY <1>2
<1> QED
    BY <1>3, <1>4 DEF Count, MarkedBefore

LEMMA FileEnds ==
    ASSUME NEW ch, GitHunks(ch), NEW p, NEW o
    PROVE  /\ FileBefore(ch, p, o, 0) = HeadOf(ch, p, o, ch.binary)
           /\ FileBefore(ch, ch.new, MeantOld(ch), Len(ch.hunks)) = Meant(ch)
<1> DEFINE hs == HunksBefore(ch, Len(ch.hunks))
           plus == "+"
           minus == "-"
<1>1. FileBefore(ch, p, o, 0) = HeadOf(ch, p, o, ch.binary)
    <2>1. HunksBefore(ch, 0) = <<>>
        BY HunksEnds
    <2>2. \A mark : MarkedBefore(ch, 0, mark) = {}
        BY MarkedEnds
    <2>3. Count({}) = 0
        BY FS_EmptySet DEF Count
    <2> QED
        BY <2>1, <2>2, <2>3, Zenon DEF FileBefore, FileOf, HeadOf, Bare
<1>2. hs = [i \in DOMAIN ch.hunks |-> MeantHunk(ch.hunks[i])]
    <2>1. DOMAIN ch.hunks = 1 .. Len(ch.hunks)
        BY DEF GitHunks
    <2> QED
        BY <2>1, Zenon DEF HunksBefore
<1>3. Meant(ch) = File(ch.new, MeantOld(ch), ch.status, ch.binary, ch.blobs, hs,
                       Marked(ch, plus), Marked(ch, minus))
    <2> HIDE DEF hs
    <2> QED
        BY <1>2, Zenon DEF Meant, File, MeantOld
<1>4. FileBefore(ch, ch.new, MeantOld(ch), Len(ch.hunks))
      = File(ch.new, MeantOld(ch), ch.status, ch.binary, ch.blobs, hs,
             Count(MarkedBefore(ch, Len(ch.hunks), plus)),
             Count(MarkedBefore(ch, Len(ch.hunks), minus)))
    BY Zenon DEF FileBefore, FileOf
<1> HIDE DEF hs, plus, minus
<1>5. /\ Marked(ch, plus) = Count(MarkedBefore(ch, Len(ch.hunks), plus))
      /\ Marked(ch, minus) = Count(MarkedBefore(ch, Len(ch.hunks), minus))
    BY MarkedAll
<1> QED
    BY <1>1, <1>3, <1>4, <1>5, Zenon

\* The file of a change that is read to its end is the one that is meant.
LEMMA FileIsMeant ==
    ASSUME NEW ch, GitHunks(ch), NEW p, NEW o, HeadPaths(ch, p, o)
    PROVE  AsMeant(FileBefore(ch, p, o, Len(ch.hunks)), ch)
<1> DEFINE k == Len(ch.hunks)
           f(q, r) == FileBefore(ch, q, r, k)
           old == MeantOld(ch)
<1>1. f(ch.new, old) = Meant(ch)
    BY FileEnds
<1>2. CASE ~Provisional(ch)
    BY <1>1, <1>2, Zenon DEF HeadPaths, MeantOld, AsMeant
<1>3. CASE Provisional(ch)
    <2> DEFINE a == Count(MarkedBefore(ch, k, "+"))
               d == Count(MarkedBefore(ch, k, "-"))
               hs == HunksBefore(ch, k)
               g(q, r) == File(q, r, ch.status, ch.binary, ch.blobs, hs, a, d)
    <2>1. \A q, r : f(q, r) = g(q, r)
        BY Zenon DEF FileBefore, FileOf
    <2> HIDE DEF a, d, hs, k
    <2>2. [g(p, o) EXCEPT !.path = ch.new] = g(ch.new, o)
        BY DEF File
    <2>3. [g(ch.new, o) EXCEPT !.oldPath = old] = g(ch.new, old)
        BY DEF File
    <2> HIDE DEF g
    <2>4. [g(p, o) EXCEPT !.path = ch.new, !.oldPath = old] = g(ch.new, old)
        BY <2>2, <2>3
    <2>5. g(ch.new, old).path = ch.new /\ g(ch.new, old).oldPath = old
        BY DEF g, File
    <2> HIDE DEF f, old
    <2>6. Meant(ch) = g(ch.new, old) /\ f(p, o) = g(p, o)
        BY <1>1, <2>1
    <2>7. [f(p, o) EXCEPT !.path = Meant(ch).path, !.oldPath = Meant(ch).oldPath] = Meant(ch)
        BY <2>4, <2>5, <2>6
    <2>8. AsMeant(f(p, o), ch)
        BY <1>3, <2>7, Zenon DEF AsMeant
    <2> QED
        BY <2>8 DEF f, k
<1> QED
    BY <1>2, <1>3

\* A change is read to its end, after whatever was read before it.
LEMMA ChangeRead ==
    ASSUME NEW F, NEW c, NEW n, NEW ch, GitChange(ch)
    PROVE  /\ IsList(Printed(ch))
           /\ \E x, m : /\ AsMeant(x, ch) /\ x # Nobody
                        /\ Scan(State(F, c, n), Printed(ch))
                           = State(Flushed(State(F, c, n)), x, m)
<1> DEFINE s == State(F, c, n)
           G == Flushed(s)
           a == HeadLines(ch)
           b == FlattenSeq(HunkTexts(ch))
           k == Len(ch.hunks)
<1>1. Printed(ch) = a \o b
    BY Zenon DEF Printed, HeadLines, GitLine, HunkTexts
<1>2. GitHunks(ch)
    BY GitHasHunks
<1>3. PICK p, o : HeadPaths(ch, p, o) /\ Scan(s, a) = State(G, HeadOf(ch, p, o, ch.binary), n)
    BY HeadRead
<1> HIDE DEF G, s, a, b
<1>4. /\ IsList(b)
      /\ \E m : Scan(State(G, FileBefore(ch, p, o, 0), n), b)
                = State(G, FileBefore(ch, p, o, k), m)
    BY <1>2, HunksRead DEF b
<1>5. PICK m : Scan(State(G, FileBefore(ch, p, o, 0), n), b)
               = State(G, FileBefore(ch, p, o, k), m)
    BY <1>4
<1>6. FileBefore(ch, p, o, 0) = HeadOf(ch, p, o, ch.binary)
    BY <1>2, FileEnds
<1>7. IsList(a)
    BY HeadScan DEF a
<1>8. IsList(Printed(ch)) /\ Scan(s, Printed(ch)) = Scan(Scan(s, a), b)
    BY <1>1, <1>4, <1>7, ScanLists
<1> DEFINE x == FileBefore(ch, p, o, k)
<1>9. AsMeant(x, ch)
    BY <1>2, <1>3, FileIsMeant
<1>10. x # Nobody
    BY FileIsSome, Zenon DEF FileBefore, FileOf
<1> HIDE DEF x
<1>11. Scan(s, Printed(ch)) = State(G, x, m)
    BY <1>3, <1>5, <1>6, <1>8 DEF x
<1> QED
    BY <1>8, <1>9, <1>10, <1>11, Zenon DEF s, G

\* The changes a text is made of.
GitChanges(cs) == cs \in Seq(ToSet(cs)) /\ \A i \in DOMAIN cs : GitChange(cs[i])

\* The files of the first i changes.
ReadAs(files, cs, i) ==
    IsList(files) /\ Len(files) = i /\ \A k \in 1 .. i : AsMeant(files[k], cs[k])

LEMMA ReadMore ==
    ASSUME NEW cs, NEW i \in Nat, NEW files, ReadAs(files, cs, i), NEW x, AsMeant(x, cs[i + 1])
    PROVE  ReadAs(Append(files, x), cs, i + 1)
<1> DEFINE X == ToSet(files) \cup {x}
           a == Append(files, x)
<1>1. ToSet(files) \subseteq X /\ x \in X
    OBVIOUS
<1> HIDE DEF X
<1>2. files \in Seq(X) /\ Len(files) = i
    BY <1>1, SeqMonotonic, Zenon DEF ReadAs, IsList
<1>3. a \in Seq(X) /\ Len(a) = i + 1 /\ a[i + 1] = x /\ \A k \in 1 .. i : a[k] = files[k]
    BY <1>1, <1>2
<1> HIDE DEF a
<1>4. \A k \in 1 .. i : AsMeant(files[k], cs[k])
    BY Zenon DEF ReadAs
<1>5. \A k \in 1 .. i + 1 : k \in 1 .. i \/ k = i + 1
    OBVIOUS
<1>6. \A k \in 1 .. i + 1 : AsMeant(a[k], cs[k])
    BY <1>3, <1>4, <1>5
<1>7. IsList(a)
    BY <1>3, ListOf
<1> QED
    BY <1>3, <1>6, <1>7 DEF ReadAs, a

\* A text is read as the changes it prints.
LEMMA TextRead ==
    ASSUME NEW cs, GitChanges(cs)
    PROVE  ReadAs(Parse(TextOf(cs)), cs, Len(cs))
<1> DEFINE n == Len(cs)
           seqs == [i \in DOMAIN cs |-> Printed(cs[i])]
           zero == [old |-> 0, new |-> 0]
           s == State(<<>>, Nobody, zero)
           Reads(g, i) == \E F, c, m : /\ Scan(s, g[i]) = State(F, c, m)
                                       /\ ReadAs(Flushed(State(F, c, m)), cs, i)
<1>1. n \in Nat /\ DOMAIN cs = 1 .. n
    BY DEF GitChanges
<1>2. \A i \in 1 .. n : GitChange(cs[i])
    BY <1>1, Zenon DEF GitChanges
<1>3. \A i \in 1 .. n : seqs[i] = Printed(cs[i])
    BY <1>1
<1>4. \A i \in 1 .. n : IsList(seqs[i])
    BY <1>2, <1>3, ChangeRead
<1>5. seqs = [i \in 1 .. n |-> seqs[i]]
    BY <1>1
<1>6. Parse(TextOf(cs)) = Flushed(Scan(s, FlattenSeq(seqs)))
    BY Zenon DEF Parse, TextOf
<1>7. Flushed(s) = <<>>
    BY DEF Flushed, State
<1> HIDE DEF seqs, n, zero
<1>8. Texts(seqs, n)
    BY <1>4, <1>5, Zenon DEF Texts
<1>9. PICK g : Chains(g, seqs, n) /\ FlattenSeq(seqs) = g[n]
    BY <1>1, <1>8, FlattenScan
<1>10. /\ g[0] = <<>>
       /\ \A i \in 1 .. n : \A t : Scan(t, g[i]) = Scan(Scan(t, g[i - 1]), seqs[i])
    BY <1>9, Zenon DEF Chains
<1> DEFINE T == {i \in Nat : i <= n => Reads(g, i)}
<1>11. 0 \in T
    <2>1. Scan(s, g[0]) = s
        BY <1>10, ScanNone
    <2>2. Len(<<>>) = 0 /\ 1 .. 0 = {}
        OBVIOUS
    <2>5. IsList(<<>>)
        BY ShortLists
    <2>3. ReadAs(<<>>, cs, 0)
        BY <2>2, <2>5 DEF ReadAs
    <2>4. Reads(g, 0)
        BY <1>7, <2>1, <2>3, Zenon
    <2> QED
        BY <2>4
<1> HIDE DEF s
<1>12. ASSUME NEW i \in Nat, i \in T PROVE i + 1 \in T
    <2> HIDE DEF Reads
    <2> SUFFICES ASSUME i + 1 <= n PROVE Reads(g, i + 1)
        OBVIOUS
    <2>1. i + 1 \in 1 .. n /\ (i + 1) - 1 = i /\ i <= n /\ Reads(g, i)
        BY <1>1, <1>12
    <2>2. PICK F, c, m : /\ Scan(s, g[i]) = State(F, c, m)
                         /\ ReadAs(Flushed(State(F, c, m)), cs, i)
        BY <2>1 DEF Reads
    <2>3. GitChange(cs[i + 1])
        BY <1>2, <2>1
    <2> DEFINE G == Flushed(State(F, c, m))
    <2>4. PICK x, r : /\ AsMeant(x, cs[i + 1]) /\ x # Nobody
                      /\ Scan(State(F, c, m), Printed(cs[i + 1])) = State(G, x, r)
        BY <2>3, ChangeRead
    <2> HIDE DEF G
    <2>5. Flushed(State(G, x, r)) = Append(G, x)
        BY <2>4 DEF Flushed, State
    <2>6. ReadAs(Append(G, x), cs, i + 1)
        BY <2>2, <2>4, ReadMore DEF G
    <2>7. Scan(s, g[i + 1]) = State(G, x, r)
        BY <1>3, <1>10, <2>1, <2>2, <2>4
    <2> QED
        BY <2>5, <2>6, <2>7 DEF Reads
<1>13. n \in T
    <2> HIDE DEF T
    <2> QED
        BY <1>1, <1>11, <1>12, Induct
<1>14. PICK F, c, m : /\ Scan(s, g[n]) = State(F, c, m)
                      /\ ReadAs(Flushed(State(F, c, m)), cs, n)
    BY <1>1, <1>13
<1> QED
    BY <1>6, <1>9, <1>14 DEF n

\* Of a text that git printed, whatever its changes hold, the parser gives back
\* every change, each as it was meant but for provisional paths (Parse,
\* parseDiffGitPaths).
THEOREM ParseSound ==
    ASSUME NEW cs, GitChanges(cs)
    PROVE  /\ Len(Parse(TextOf(cs))) = Len(cs)
           /\ \A i \in DOMAIN cs : AsMeant(Parse(TextOf(cs))[i], cs[i])
<1>1. DOMAIN cs = 1 .. Len(cs)
    BY DEF GitChanges
<1> QED
    BY <1>1, TextRead, Zenon DEF ReadAs

\* Every diff that is evaluated, and every sample, is made of what git prints.
LEMMA Readable ==
    ASSUME NEW cs \in Changes \cup Diffs \cup {<<>>}
    PROVE  /\ DOMAIN cs = 1 .. Len(cs)
           /\ ReadAs(Parse(TextOf(cs)), cs, Len(cs))
<1>1. CASE cs \in Changes \cup Diffs
    <2>1. GitChanges(cs)
        BY <1>1, ResolverAssumption, Zenon DEF GitChanges
    <2>2. DOMAIN cs = 1 .. Len(cs)
        BY <2>1 DEF GitChanges
    <2> QED
        BY <2>1, <2>2, TextRead
<1>2. CASE cs = <<>>
    <2>1. <<>> \in Seq(ToSet(<<>>)) /\ DOMAIN <<>> = 1 .. Len(<<>>) /\ DOMAIN <<>> = {}
        OBVIOUS
    <2>2. GitChanges(<<>>)
        BY <2>1 DEF GitChanges
    <2> QED
        BY <1>2, <2>1, <2>2, TextRead
<1> QED
    BY <1>1, <1>2

\* Whatever a diff evaluated holds, the parser gives back its changes, all of
\* them, in their order, each as it was meant but for the paths of one that are
\* provisional (Parse, parseDiffGitPaths).
THEOREM ParseExactSound == Spec => []ParseExact
<1>1. ParsesBack
    <2> SUFFICES ASSUME NEW cs \in Changes \cup Diffs \cup {<<>>}
                 PROVE  LET files == Parse(TextOf(cs)) IN
                        /\ Len(files) = Len(cs)
                        /\ \A i \in DOMAIN cs : AsMeant(files[i], cs[i])
        BY Zenon DEF ParsesBack
    <2>1. DOMAIN cs = 1 .. Len(cs) /\ ReadAs(Parse(TextOf(cs)), cs, Len(cs))
        BY Readable
    <2> QED
        BY <2>1, Zenon DEF ReadAs
<1>2. ParseExact
    BY <1>1 DEF ParseExact
<1> QED
    BY <1>2, PTL

\* Every diff that Next evaluates is one of Diffs.
FoundDiff == found.diff \in Diffs \cup {<<>>}

LEMMA FoundDiffHolds == Spec => []FoundDiff
<1>1. Init => FoundDiff
    BY DEF Init, Nothing, FoundDiff
<1>2. FoundDiff /\ [Next]_vars => FoundDiff'
    <2> SUFFICES ASSUME FoundDiff, [Next]_vars PROVE FoundDiff'
        OBVIOUS
    <2>1. CASE UNCHANGED found
        BY <2>1 DEF FoundDiff
    <2>2. ASSUME NEW c \in Caller, Return(c) PROVE FoundDiff'
        BY <2>2 DEF Return, FoundDiff
    <2> QED
        BY <2>1, <2>2 DEF Next, Work, vars, EditPack, RemovePack, Stat, Known, MustRead, Loads,
                          LoadFails
<1> QED
    BY <1>1, <1>2, PTL DEF Spec

\* No global rule is lost, whatever packs there are and whatever they hold: every
\* hit of a global rule is found, in the diff as it was meant, unless a pack that
\* is good as a whole disables or names the rule (loadPack, Merge, For, Eval).
THEOREM FailsClosedSound == Spec => []FailsClosed
<1>1. ASSUME FoundDiff PROVE FailsClosed
    <2> DEFINE d == found.diff
               meant == [j \in DOMAIN d |-> Meant(d[j])]
               pack == found.by.hash
               rules == {t.rule : t \in ToSet(Rules(found.by))}
               files == Parse(TextOf(d))
    <2>1. ASSUME \A i \in DOMAIN d : ~Provisional(d[i]) PROVE files = meant
        <3>1. DOMAIN d = 1 .. Len(d) /\ ReadAs(files, d, Len(d))
            <4>1. d \in Changes \cup Diffs \cup {<<>>}
                BY <1>1 DEF FoundDiff
            <4> HIDE DEF d
            <4> QED
                BY <4>1, Readable
        <3> HIDE DEF d, files
        <3>2. /\ files \in Seq(ToSet(files)) /\ Len(files) = Len(d)
              /\ \A i \in 1 .. Len(d) : AsMeant(files[i], d[i])
            BY <3>1, Zenon DEF ReadAs, IsList
        <3>3. \A i \in 1 .. Len(d) : files[i] = Meant(d[i])
            BY <2>1, <3>1, <3>2, Zenon DEF AsMeant
        <3>4. files = [i \in 1 .. Len(d) |-> files[i]]
            BY <3>2
        <3> QED
            BY <3>1, <3>3, <3>4
    <2> SUFFICES ASSUME \A i \in DOMAIN d : ~Provisional(d[i]), NEW r \in ToSet(Global),
                        ~ (/\ pack \in Accepted
                           /\ r.name \in pack.disable \cup {q.name : q \in ToSet(pack.rules)})
                 PROVE  Eval({r}, meant) \subseteq Eval(rules, files)
        BY Zenon DEF FailsClosed
    <2>2. PICK i \in DOMAIN Global : Global[i] = r
        BY DEF ToSet
    <2>3. r \in rules
        <3>1. pack \notin Accepted \/ Spares(pack, Global[i])
            BY <2>2 DEF Spares
        <3> QED
            BY <2>2, <3>1, RulesKept
    <2> QED
        BY <2>1, <2>3, EvalGrows
<1> QED
    BY <1>1, FoundDiffHolds, PTL

-----------------------------------------------------------------------------
(* The rules in force are the expected ones.                               *)

\* A list with no repetition has as many places as elements.
LEMMA Counted ==
    ASSUME NEW n \in Nat, NEW q, DOMAIN q = 1 .. n,
           \A i, j \in 1 .. n : q[i] = q[j] => i = j
    PROVE  Cardinality(ToSet(q)) = n
<1> DEFINE f == [i \in 1 .. n |-> q[i]]
<1>1. ToSet(q) = {q[i] : i \in 1 .. n}
    BY DEF ToSet
<1>2. f \in Bijection(1 .. n, ToSet(q))
    BY <1>1 DEF Bijection, Injection, Surjection, IsInjective
<1>3. ExistsBijection(1 .. n, ToSet(q))
    BY <1>2 DEF ExistsBijection
<1>4. IsFiniteSet(1 .. n) /\ Cardinality(1 .. n) = n
    BY FS_Interval
<1> QED
    BY <1>3, <1>4, FS_Bijection

RuleOf(m) == [i \in DOMAIN m |-> m[i].rule]

NamedAt(m, i, r, source) ==
    /\ Renamed(m)[i] = Put(Named(RuleOf(m))[i], source)
    /\ Named(RuleOf(m))[i] = IF r.name # "" THEN r
                             ELSE [r EXCEPT !.name = "rule-" \o ToString(i)]

\* Compile's naming of a merged list, place by place.
LEMMA RenamedAt ==
    ASSUME NEW m, NEW i \in DOMAIN m, NEW r, NEW source, m[i] = Put(r, source)
    PROVE  NamedAt(m, i, r, source)
<1>1. Renamed(m)[i] = [m[i] EXCEPT !.rule = Named(RuleOf(m))[i]]
    BY DEF Renamed, RuleOf
<1>2. RuleOf(m)[i] = r
    BY DEF RuleOf, Put
<1>3. i \in DOMAIN RuleOf(m)
    BY DEF RuleOf
<1>4. \A new : [Put(r, source) EXCEPT !.rule = new] = Put(new, source)
    BY DEF Put
<1> QED
    BY <1>1, <1>2, <1>3, <1>4 DEF Named, NamedAt

\* The names are told apart, so a list that compiles repeats no rule.
LEMMA RenamedDistinct ==
    ASSUME NEW n \in Nat, NEW m, DOMAIN m = 1 .. n, Compiles(RuleOf(m)),
           \A i \in 1 .. n : \E r, source : m[i] = Put(r, source)
    PROVE  /\ DOMAIN Renamed(m) = 1 .. n
           /\ Len(Renamed(m)) = Cardinality(ToSet(Renamed(m)))
<1>1. DOMAIN Renamed(m) = 1 .. n
    BY DEF Renamed
<1>2. Len(Renamed(m)) = n
    BY <1>1 DEF Renamed
<1>3. ASSUME NEW i \in 1 .. n PROVE Renamed(m)[i].rule = Named(RuleOf(m))[i]
    <2>1. PICK r, source : m[i] = Put(r, source)
        OBVIOUS
    <2>2. i \in DOMAIN m
        OBVIOUS
    <2>3. NamedAt(m, i, r, source)
        BY <2>1, <2>2, RenamedAt
    <2>4. \A x, y : Put(x, y).rule = x
        BY DEF Put
    <2> QED
        BY <2>3, <2>4 DEF NamedAt
<1>4. \A i, j \in 1 .. n : Named(RuleOf(m))[i].name = Named(RuleOf(m))[j].name => i = j
    BY DEF Compiles, Distinct, Named, RuleOf
<1>5. \A i, j \in 1 .. n : Renamed(m)[i] = Renamed(m)[j] => i = j
    BY <1>3, <1>4
<1> QED
    BY <1>1, <1>2, <1>5, Counted

\* The name that a rule of a pack got from its place can be taken off again: no
\* other rule of a list that compiles has that name.
LEMMA NamelessBack ==
    ASSUME NEW content \in Content, NEW m, Compiles(RuleOf(m)),
           ToSet(m) = Merged(Global, Source, content), NEW i \in DOMAIN m
    PROVE  Nameless(content, Renamed(m)[i]) = m[i]
<1>1. m[i] \in Merged(Global, Source, content)
    BY DEF ToSet
<1>2. \A r, source : Put(r, source).rule = r /\ Put(r, source).source = source
    BY DEF Put
<1>3. CASE \E r \in ToSet(Global) : m[i] = Put(r, Source)
    <2>1. PICK r \in ToSet(Global) : m[i] = Put(r, Source)
        BY <1>3
    <2>2. r.name # ""
        BY <2>1, ResolverAssumption
    <2>3. Renamed(m)[i] = Put(r, Source)
        <3>1. NamedAt(m, i, r, Source)
            BY <2>1, RenamedAt
        <3> QED
            BY <2>2, <3>1 DEF NamedAt
    <2>4. Renamed(m)[i].source # "pack"
        BY <1>2, <2>3 DEF Source
    <2> QED
        BY <2>1, <2>3, <2>4 DEF Nameless
<1>4. ASSUME NEW r \in ToSet(content.rules), m[i] = Put(r, "pack")
      PROVE  Nameless(content, Renamed(m)[i]) = m[i]
    <2> DEFINE N == Named(RuleOf(m))[i]
    <2>1. NamedAt(m, i, r, "pack")
        BY <1>4, RenamedAt
    <2>2. Renamed(m)[i] = Put(N, "pack")
        BY <2>1 DEF NamedAt
    <2>3. N = IF r.name # "" THEN r ELSE [r EXCEPT !.name = "rule-" \o ToString(i)]
        BY <2>1 DEF NamedAt
    <2>4. CASE N \notin ToSet(content.rules)
        <3>1. r.name = "" /\ N = [r EXCEPT !.name = "rule-" \o ToString(i)]
            BY <2>3, <2>4
        <3>2. IsRule(r)
            BY ResolverAssumption
        <3>3. r = [x \in DOMAIN NoRule |-> r[x]] /\ "name" \in DOMAIN NoRule
            BY <3>2 DEF IsRule, NoRule
        <3>4. [N EXCEPT !.name = ""] = r
            BY <3>1, <3>3
        <3> HIDE DEF N
        <3>5. Put(N, "pack").rule = N /\ Put(N, "pack").source = "pack"
            BY <1>2
        <3>6. Nameless(content, Put(N, "pack"))
                = [Put(N, "pack") EXCEPT !.rule = [@ EXCEPT !.name = ""]]
            BY <2>4, <3>5, Zenon DEF Nameless
        <3>7. [Put(N, "pack") EXCEPT !.rule = [@ EXCEPT !.name = ""]]
                = Put([N EXCEPT !.name = ""], "pack")
            <4> DEFINE p == Put(N, "pack")
                       off == [N EXCEPT !.name = ""]
            <4>1. [p EXCEPT !.rule = [@ EXCEPT !.name = ""]]
                    = [p EXCEPT !.rule = [p.rule EXCEPT !.name = ""]]
                OBVIOUS
            <4>2. [p.rule EXCEPT !.name = ""] = off
                BY <3>5
            <4>3. \A new : [p EXCEPT !.rule = new] = Put(new, "pack")
                BY DEF Put
            <4> HIDE DEF p, off
            <4>4. [p EXCEPT !.rule = [p.rule EXCEPT !.name = ""]] = Put(off, "pack")
                BY <4>2, <4>3
            <4>5. [p EXCEPT !.rule = [@ EXCEPT !.name = ""]] = Put(off, "pack")
                BY <4>1, <4>4
            <4> QED
                BY <4>5 DEF p, off
        <3> QED
            BY <1>4, <2>2, <3>4, <3>6, <3>7
    <2>5. CASE N \in ToSet(content.rules)
        <3>1. N = r
            <4>1. CASE r.name # ""
                BY <2>3, <4>1
            <4>2. CASE r.name = "" /\ N.name = ""
                <5>1. IsRule(r)
                    BY ResolverAssumption
                <5>2. r = [x \in DOMAIN NoRule |-> r[x]] /\ "name" \in DOMAIN NoRule
                    BY <5>1 DEF IsRule, NoRule
                <5>3. N = [r EXCEPT !.name = "rule-" \o ToString(i)]
                    BY <2>3, <4>2
                <5>4. "rule-" \o ToString(i) = ""
                    BY <4>2, <5>2, <5>3
                <5> QED
                    BY <4>2, <5>2, <5>3, <5>4
            <4>3. CASE r.name = "" /\ N.name # ""
                <5>1. Put(N, "pack") \in ToSet(m)
                    BY <2>5 DEF Merged
                <5>2. PICK j \in DOMAIN m : m[j] = Put(N, "pack")
                    BY <5>1 DEF ToSet
                <5>3. NamedAt(m, j, N, "pack")
                    BY <5>2, RenamedAt
                <5>7. Named(RuleOf(m))[j] = N
                    BY <4>3, <5>3 DEF NamedAt
                <5>4. \A a, b \in DOMAIN m :
                         Named(RuleOf(m))[a].name = Named(RuleOf(m))[b].name => a = b
                    BY DEF Compiles, Distinct, Named, RuleOf
                <5>5. i = j
                    BY <5>4, <5>7
                <5>6. m[i].rule = r /\ m[j].rule = N
                    BY <1>2, <1>4, <5>2
                <5> QED
                    BY <5>5, <5>6
            <4> QED
                BY <4>1, <4>2, <4>3
        <3>2. Renamed(m)[i].rule \in ToSet(content.rules)
            BY <1>2, <2>2, <2>5
        <3> QED
            BY <1>4, <2>2, <3>1, <3>2 DEF Nameless
    <2> QED
        BY <2>4, <2>5
<1>5. (\E r \in ToSet(Global) : m[i] = Put(r, Source))
      \/ (\E r \in ToSet(content.rules) : m[i] = Put(r, "pack"))
    BY <1>1 DEF Merged
<1> QED
    BY <1>3, <1>4, <1>5

InForce(content, rules) ==
    /\ Len(rules) = Cardinality(ToSet(rules))
    /\ {Nameless(content, t) : t \in ToSet(rules)} = Expected(content)

\* The global rules alone: each once, under its own name, none to take off.
LEMMA GlobalAlone ==
    /\ Len(taggedGlobal) = Cardinality(ToSet(taggedGlobal))
    /\ ToSet(taggedGlobal) = {Put(r, Source) : r \in ToSet(Global)}
    /\ \A content : \A t \in ToSet(taggedGlobal) : Nameless(content, t) = t
<1> DEFINE m == Tagged(Global, Source)
           n == Len(Global)
<1>1. /\ n \in Nat /\ DOMAIN Global = 1 .. n
      /\ Global = [i \in DOMAIN Global |-> Global[i]]
    <2>1. Global \in Seq(ToSet(Global))
        BY ResolverAssumption
    <2>2. \A D : Global \in Seq(D) =>
             /\ Len(Global) \in Nat /\ DOMAIN Global = 1 .. Len(Global)
             /\ Global = [i \in DOMAIN Global |-> Global[i]]
        OBVIOUS
    <2> QED
        BY <2>1, <2>2
<1>2. DOMAIN m = 1 .. n /\ \A i \in 1 .. n : m[i] = Put(Global[i], Source)
    <2>1. m = [i \in DOMAIN Global |-> Put(Global[i], Source)]
        BY DEF Tagged, Put
    <2> HIDE DEF m, n
    <2> QED
        BY <1>1, <2>1
<1>3. taggedGlobal = Renamed(m)
    BY DEF taggedGlobal
<1>4. \A x, y : Put(x, y).rule = x /\ Put(x, y).source = y
    BY DEF Put
<1> HIDE DEF m, n
<1>5. RuleOf(m) = Global
    <2>1. RuleOf(m) = [i \in 1 .. n |-> m[i].rule]
        BY <1>2 DEF RuleOf
    <2>2. \A i \in 1 .. n : m[i].rule = Global[i]
        BY <1>2, <1>4
    <2>3. RuleOf(m) = [i \in 1 .. n |-> Global[i]]
        BY <2>1, <2>2
    <2>4. Global = [i \in 1 .. n |-> Global[i]]
        BY <1>1
    <2> QED
        BY <2>3, <2>4
<1>6. Compiles(RuleOf(m))
    BY <1>5, ResolverAssumption
<1>7. ASSUME NEW i \in 1 .. n PROVE Renamed(m)[i] = Put(Global[i], Source)
    <2>1. NamedAt(m, i, Global[i], Source)
        BY <1>2, RenamedAt
    <2>2. Named(RuleOf(m))[i] = Global[i]
        BY <1>5, ResolverAssumption
    <2> QED
        BY <2>1, <2>2 DEF NamedAt
<1>8. /\ DOMAIN Renamed(m) = 1 .. n
      /\ Len(Renamed(m)) = Cardinality(ToSet(Renamed(m)))
    BY <1>1, <1>2, <1>6, RenamedDistinct
<1>9. ToSet(Renamed(m)) = {Put(r, Source) : r \in ToSet(Global)}
    <2>1. /\ ToSet(Renamed(m)) = {Renamed(m)[i] : i \in 1 .. n}
          /\ ToSet(Global) = {Global[i] : i \in 1 .. n}
        BY <1>1, <1>8 DEF ToSet
    <2> QED
        BY <1>7, <2>1
<1>10. ASSUME NEW content, NEW t \in ToSet(Renamed(m)) PROVE Nameless(content, t) = t
    <2>1. t.source # "pack"
        BY <1>4, <1>9 DEF Source
    <2> QED
        BY <2>1 DEF Nameless
<1> QED
    BY <1>3, <1>8, <1>9, <1>10

\* A pack that is good as a whole: its rules and those it spares, each once.
LEMMA AcceptedInForce ==
    ASSUME NEW content \in Accepted
    PROVE  InForce(content, Applied(content))
<1> DEFINE m == Merge(Global, Source, content)
<1>1. content \in Content /\ Compiles(RuleOf(m))
    BY DEF Accepted, RuleOf
<1>2. Applied(content) = Renamed(m)
    BY DEF Applied
<1>3. ToSet(m) = Merged(Global, Source, content) /\ \E X : m \in Seq(X)
    <2>1. Global \in Seq(ToSet(Global)) /\ content.rules \in Seq(ToSet(content.rules))
        BY <1>1, ResolverAssumption
    <2> QED
        BY <2>1, MergeSet
<1>4. Merged(Global, Source, content) = Expected(content)
    BY DEF Merged, Spares, Put, Expected
<1> HIDE DEF m
<1>5. PICK n \in Nat : DOMAIN m = 1 .. n
    <2>1. PICK X : m \in Seq(X)
        BY <1>3
    <2>2. Len(m) \in Nat /\ DOMAIN m = 1 .. Len(m)
        BY <2>1
    <2> QED
        BY <2>2
<1>6. ASSUME NEW i \in 1 .. n PROVE \E r, source : m[i] = Put(r, source)
    <2>1. m[i] \in Merged(Global, Source, content)
        BY <1>3, <1>5 DEF ToSet
    <2> QED
        BY <2>1 DEF Merged
<1>7. /\ DOMAIN Renamed(m) = 1 .. n
      /\ Len(Renamed(m)) = Cardinality(ToSet(Renamed(m)))
    BY <1>1, <1>5, <1>6, RenamedDistinct
<1>8. ASSUME NEW i \in 1 .. n PROVE Nameless(content, Renamed(m)[i]) = m[i]
    BY <1>1, <1>3, <1>5, NamelessBack
<1>9. {Nameless(content, t) : t \in ToSet(Renamed(m))} = ToSet(m)
    <2>1. /\ ToSet(Renamed(m)) = {Renamed(m)[i] : i \in 1 .. n}
          /\ ToSet(m) = {m[i] : i \in 1 .. n}
        BY <1>5, <1>7 DEF ToSet
    <2> QED
        BY <1>8, <2>1
<1> QED
    BY <1>2, <1>3, <1>4, <1>7, <1>9 DEF InForce

\* Whatever the pack holds, good or not.
LEMMA AppliedInForce ==
    ASSUME NEW content \in Content
    PROVE  InForce(content, Applied(content))
<1>1. CASE content \in Accepted
    BY <1>1, AcceptedInForce
<1>2. CASE content \notin Accepted
    <2>1. Applied(content) = taggedGlobal
        BY <1>2 DEF Applied
    <2>2. {Nameless(content, t) : t \in ToSet(taggedGlobal)} = ToSet(taggedGlobal)
        BY GlobalAlone
    <2>3. Expected(content) = {Put(r, Source) : r \in ToSet(Global)}
        BY <1>2 DEF Expected, Put
    <2> QED
        BY <2>1, <2>2, <2>3, GlobalAlone DEF InForce
<1> QED
    BY <1>1, <1>2

\* An entry made from no content is one of no pack, and no other.
CacheHash == cache # Absent => ((cache.status = "none") <=> (cache.hash = Absent))

LEMMA CacheHashHolds == Spec => []CacheHash
<1>1. Init => CacheHash
    BY DEF Init, CacheHash
<1>2. RInv /\ CacheHash /\ [Next]_vars => CacheHash'
    <2> SUFFICES ASSUME RInv, CacheHash, [Next]_vars PROVE CacheHash'
        OBVIOUS
    <2>1. CASE UNCHANGED cache
        BY <2>1 DEF CacheHash
    <2>2. CASE cache' = NoPack
        BY <2>2 DEF CacheHash, NoPack, Entry
    <2>3. ASSUME NEW c \in Caller, Known(c) PROVE CacheHash'
        <3>1. cache' = NoPack \/ cache' = cache
            BY <2>3 DEF Known, Resolved
        <3> QED
            BY <2>1, <2>2, <3>1
    <2>4. ASSUME NEW c \in Caller, Loads(c) PROVE CacheHash'
        <3>1. cache' = Entry(call[c].stat, TRUE,
                             IF file.content \in Accepted THEN "ok" ELSE "error", file.content)
            BY <2>4 DEF Loads, Resolved
        <3>2. cache'.status \in {"ok", "error"} /\ cache'.hash = file.content
            BY <3>1 DEF Entry
        <3>3. file.content \in Content
            BY <2>4 DEF Loads, RInv, TypeOK
        <3> QED
            BY <3>2, <3>3, ResolverAssumption DEF CacheHash
    <2>5. ASSUME NEW c \in Caller, LoadFails(c) PROVE CacheHash'
        BY <2>2, <2>5 DEF LoadFails, Resolved
    <2> QED
        BY <2>1, <2>3, <2>4, <2>5
        DEF Next, Work, vars, EditPack, RemovePack, Stat, MustRead, Return
<1> QED
    BY <1>1, <1>2, RInvHolds, PTL DEF Spec

\* The rules of the cached resolution are those of the content it was made
\* from, each once: of a pack that is good as a whole all its rules and the
\* global ones it neither disables nor names, of any other pack the global list,
\* whatever the lists hold (Merge, Compile, loadPack).
THEOREM RulesInForceSound == Spec => []RulesInForce
<1>1. ASSUME RInv, CacheHash PROVE RulesInForce
    <2> SUFFICES ASSUME cache # Absent
                 PROVE  /\ Len(Rules(cache)) = Cardinality(ToSet(Rules(cache)))
                        /\ IF cache.hash = Absent
                           THEN ToSet(Rules(cache)) = ToSet(taggedGlobal)
                           ELSE {Nameless(cache.hash, t) : t \in ToSet(Rules(cache))}
                                  = Expected(cache.hash)
        BY DEF RulesInForce
    <2>1. cache.hash \in Content \cup {Absent}
        BY <1>1 DEF RInv, CallTypes, Entries
    <2>2. CASE cache.hash = Absent
        <3>1. Rules(cache) = taggedGlobal
            BY <1>1, <2>2 DEF CacheHash, Rules
        <3> QED
            BY <2>2, <3>1, GlobalAlone
    <2>3. CASE cache.hash # Absent
        <3>1. Rules(cache) = Applied(cache.hash)
            BY <1>1, <2>3 DEF CacheHash, Rules
        <3>2. InForce(cache.hash, Applied(cache.hash))
            BY <2>1, <2>3, AppliedInForce
        <3> QED
            BY <2>3, <3>1, <3>2 DEF InForce
    <2> QED
        BY <2>2, <2>3
<1> QED
    BY <1>1, RInvHolds, CacheHashHolds, PTL
=============================================================================
