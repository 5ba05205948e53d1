--------------------------- MODULE CockpitProofs ---------------------------
(***************************************************************************)
(* Proofs about the terminal client (Cockpit).                             *)
(*                                                                         *)
(* The client never asks the daemon whether what it shows is still so; it  *)
(* relies on what is still to come.  IInv says that this suffices: every   *)
(* copy of a diff the client holds (Copied), and every answer on its way   *)
(* to it (Truthful), is the daemon's or will be corrected by an event not  *)
(* yet handled or by a request served behind it, or an accident of Blames  *)
(* befell it.  Requests are kept in the order in which they were served,   *)
(* and CallsCarried and CopyCarried say when a step that reorders, serves, *)
(* answers or loses some of them harms neither.                            *)
(***************************************************************************)
EXTENDS Cockpit, SequenceTheorems, TLAPS

-----------------------------------------------------------------------------
(* Sequences.                                                              *)

\* s without its i-th element: what is left, where it was and where it is.
LEMMA WithoutFacts ==
    ASSUME NEW S, NEW s \in Seq(S), NEW i \in DOMAIN s
    PROVE  /\ Without(s, i) \in Seq(S) /\ Len(Without(s, i)) = Len(s) - 1
           /\ DOMAIN Without(s, i) = 1 .. Len(s) - 1
           /\ Len(s) \in Nat /\ DOMAIN s = 1 .. Len(s)
           /\ \A j \in 1 .. Len(s) - 1 :
                 Without(s, i)[j] = IF j < i THEN s[j] ELSE s[j + 1]
<1>1. Len(s) \in Nat /\ DOMAIN s = 1 .. Len(s) /\ i \in 1 .. Len(s)
  OBVIOUS
<1> DEFINE a == SubSeq(s, 1, i - 1)
           b == SubSeq(s, i + 1, Len(s))
<1>2. /\ a \in Seq(S) /\ Len(a) = i - 1
      /\ \A j \in 1 .. i - 1 : a[j] = s[j]
  BY <1>1
<1>3. /\ b \in Seq(S) /\ Len(b) = Len(s) - i
      /\ \A j \in 1 .. Len(s) - i : b[j] = s[i + j]
  BY <1>1
<1>4. Without(s, i) = a \o b
  BY DEF Without
<1> HIDE DEF a, b
<1>5. /\ a \o b \in Seq(S) /\ Len(a \o b) = Len(a) + Len(b)
      /\ \A j \in 1 .. Len(a) + Len(b) :
            (a \o b)[j] = IF j <= Len(a) THEN a[j] ELSE b[j - Len(a)]
  BY <1>2, <1>3, ConcatProperties
<1> DEFINE c == a \o b
<1> HIDE DEF c
<1>6. /\ c \in Seq(S) /\ Len(c) = Len(s) - 1
      /\ \A j \in 1 .. Len(s) - 1 :
            c[j] = IF j <= i - 1 THEN a[j] ELSE b[j - (i - 1)]
  <2>1. Len(a) + Len(b) = Len(s) - 1
    BY <1>1, <1>2, <1>3
  <2> QED BY <1>2, <1>5, <2>1 DEF c
<1>7. ASSUME NEW j \in 1 .. Len(s) - 1
      PROVE  c[j] = IF j < i THEN s[j] ELSE s[j + 1]
  <2>1. CASE j < i
    <3>1. j <= i - 1 /\ j \in 1 .. i - 1
      BY <1>1, <2>1
    <3> QED BY <1>2, <1>6, <2>1, <3>1
  <2>2. CASE j >= i
    <3>1. /\ ~ (j <= i - 1) /\ ~ (j < i)
          /\ j - (i - 1) \in 1 .. Len(s) - i /\ i + (j - (i - 1)) = j + 1
      BY <1>1, <2>2
    <3>2. c[j] = b[j - (i - 1)]
      BY <1>6, <3>1
    <3>3. b[j - (i - 1)] = s[i + (j - (i - 1))]
      BY <1>3, <3>1
    <3> QED BY <3>1, <3>2, <3>3
  <2> QED BY <1>1, <2>1, <2>2
<1>8. Without(s, i) = c
  BY <1>4 DEF c
<1>9. DOMAIN c = 1 .. Len(s) - 1
  BY <1>6
<1> QED BY <1>1, <1>6, <1>7, <1>8, <1>9

\* The index of s[k] in what is left, and back.
LEMMA WithoutIndex ==
    ASSUME NEW S, NEW s \in Seq(S), NEW i \in DOMAIN s
    PROVE  /\ \A k \in DOMAIN s : k # i =>
                 LET j == IF k < i THEN k ELSE k - 1 IN
                 j \in DOMAIN Without(s, i) /\ Without(s, i)[j] = s[k]
           /\ \A j \in DOMAIN Without(s, i) :
                 LET k == IF j < i THEN j ELSE j + 1 IN
                 k \in DOMAIN s /\ k # i /\ Without(s, i)[j] = s[k]
<1>1. /\ DOMAIN Without(s, i) = 1 .. Len(s) - 1
      /\ Len(s) \in Nat /\ DOMAIN s = 1 .. Len(s)
      /\ \A j \in 1 .. Len(s) - 1 :
            Without(s, i)[j] = IF j < i THEN s[j] ELSE s[j + 1]
  BY WithoutFacts
<1>2. ASSUME NEW k \in DOMAIN s, k # i
      PROVE  LET j == IF k < i THEN k ELSE k - 1 IN
             j \in DOMAIN Without(s, i) /\ Without(s, i)[j] = s[k]
  <2>1. CASE k < i
    BY <1>1, <1>2, <2>1
  <2>2. CASE k > i
    <3>1. k - 1 \in 1 .. Len(s) - 1 /\ ~ (k - 1 < i) /\ ~ (k < i) /\ (k - 1) + 1 = k
      BY <1>1, <2>2
    <3> QED BY <1>1, <3>1
  <2> QED BY <1>1, <1>2, <2>1, <2>2
<1>3. ASSUME NEW j \in DOMAIN Without(s, i)
      PROVE  LET k == IF j < i THEN j ELSE j + 1 IN
             k \in DOMAIN s /\ k # i /\ Without(s, i)[j] = s[k]
  BY <1>1
<1> QED BY <1>2, <1>3

\* The cache after a hit: the same entries, one of them moved to the front.
LEMMA GetFacts ==
    ASSUME NEW i \in DOMAIN cache, cache \in Seq(Diff),
           Len(cache) <= CacheCap, CacheCap \in Nat,
           \A k, l \in DOMAIN cache : cache[k].id = cache[l].id => k = l
    PROVE  /\ Get(i) \in Seq(Diff) /\ Len(Get(i)) <= CacheCap
           /\ \A k, l \in DOMAIN Get(i) : Get(i)[k].id = Get(i)[l].id => k = l
           /\ \A k \in DOMAIN Get(i) : \E l \in DOMAIN cache : Get(i)[k] = cache[l]
<1> DEFINE r == Without(cache, i)
<1>1. /\ r \in Seq(Diff) /\ Len(r) = Len(cache) - 1
      /\ Len(cache) \in Nat /\ DOMAIN cache = 1 .. Len(cache)
      /\ DOMAIN r = 1 .. Len(cache) - 1
  BY WithoutFacts
<1>2. \A j \in DOMAIN r :
         LET k == IF j < i THEN j ELSE j + 1 IN
         k \in DOMAIN cache /\ k # i /\ r[j] = cache[k]
  BY WithoutIndex
<1>3. cache[i] \in Diff
  OBVIOUS
<1>4. Get(i) = <<cache[i]>> \o r
  BY DEF Get
<1> HIDE DEF r
<1>5. /\ Get(i) \in Seq(Diff) /\ Len(Get(i)) = Len(cache)
      /\ \A j \in 1 .. Len(cache) :
            Get(i)[j] = IF j <= 1 THEN cache[i] ELSE r[j - 1]
  <2>1. <<cache[i]>> \in Seq(Diff) /\ Len(<<cache[i]>>) = 1 /\ <<cache[i]>>[1] = cache[i]
    BY <1>3
  <2> DEFINE a == <<cache[i]>>
  <2> HIDE DEF a
  <2>2. /\ a \o r \in Seq(Diff) /\ Len(a \o r) = Len(a) + Len(r)
        /\ \A j \in 1 .. Len(a) + Len(r) :
              (a \o r)[j] = IF j <= Len(a) THEN a[j] ELSE r[j - Len(a)]
    BY <1>1, <2>1, ConcatProperties DEF a
  <2>3. Len(a) = 1 /\ a[1] = cache[i] /\ Len(a) + Len(r) = Len(cache)
    BY <1>1, <2>1 DEF a
  <2>4. Get(i) = a \o r
    BY <1>4 DEF a
  <2> DEFINE c == a \o r
  <2> HIDE DEF c
  <2>5. /\ c \in Seq(Diff) /\ Len(c) = Len(cache)
        /\ \A j \in 1 .. Len(cache) : c[j] = IF j <= 1 THEN a[j] ELSE r[j - 1]
    BY <2>2, <2>3 DEF c
  <2>6. \A j \in 1 .. Len(cache) : j <= 1 => j = 1
    BY <1>1
  <2>7. Get(i) = c
    BY <2>4 DEF c
  <2> QED BY <2>3, <2>5, <2>6, <2>7
<1> DEFINE at(j) == IF j <= 1 THEN i ELSE IF j - 1 < i THEN j - 1 ELSE j
<1>6. ASSUME NEW j \in 1 .. Len(cache)
      PROVE  at(j) \in DOMAIN cache /\ Get(i)[j] = cache[at(j)]
  <2>1. CASE j <= 1
    BY <1>1, <1>5, <2>1
  <2>2. CASE j > 1
    <3>1. j - 1 \in DOMAIN r /\ (j - 1) + 1 = j /\ ~ (j <= 1)
      BY <1>1, <2>2
    <3>2. Get(i)[j] = r[j - 1]
      BY <1>5, <3>1
    <3> QED BY <1>2, <3>1, <3>2
  <2> QED BY <1>1, <2>1, <2>2
<1>7. ASSUME NEW k \in 1 .. Len(cache), NEW l \in 1 .. Len(cache), at(k) = at(l)
      PROVE  k = l
  BY <1>1, <1>7
<1>8. DOMAIN Get(i) = 1 .. Len(cache)
  BY <1>5
<1> HIDE DEF at
<1>9. ASSUME NEW k \in 1 .. Len(cache), NEW l \in 1 .. Len(cache),
             Get(i)[k].id = Get(i)[l].id
      PROVE  k = l
  <2>1. /\ at(k) \in DOMAIN cache /\ at(l) \in DOMAIN cache
        /\ cache[at(k)].id = cache[at(l)].id
    BY <1>6, <1>9
  <2>2. at(k) = at(l)
    BY <2>1
  <2> QED BY <1>7, <2>2
<1>10. \A k \in DOMAIN Get(i) : \E l \in DOMAIN cache : Get(i)[k] = cache[l]
  BY <1>6, <1>8
<1> QED BY <1>5, <1>8, <1>9, <1>10

\* The cache without the entry of w, if it has one: no entry of w is left.
LEMMA OthersFacts ==
    ASSUME NEW w, cache \in Seq(Diff),
           \A k, l \in DOMAIN cache : cache[k].id = cache[l].id => k = l
    PROVE  /\ Others(w) \in Seq(Diff)
           /\ \A k, l \in DOMAIN Others(w) : Others(w)[k].id = Others(w)[l].id => k = l
           /\ \A k \in DOMAIN Others(w) : \E l \in DOMAIN cache :
                 Others(w)[k] = cache[l] /\ cache[l].id # w
<1>1. CASE Cached(w) = {}
  BY <1>1 DEF Others, Cached
<1>2. CASE Cached(w) # {}
  <2> DEFINE i == CHOOSE k \in Cached(w) : TRUE
             r == Without(cache, i)
  <2>1. i \in Cached(w)
    BY <1>2
  <2>2. Others(w) = r
    BY <1>2 DEF Others
  <2> HIDE DEF i
  <2>3. i \in DOMAIN cache /\ cache[i].id = w
    BY <2>1 DEF Cached
  <2>4. /\ r \in Seq(Diff) /\ DOMAIN r = 1 .. Len(cache) - 1
        /\ Len(cache) \in Nat /\ DOMAIN cache = 1 .. Len(cache)
    BY <2>3, WithoutFacts
  <2>5. \A j \in DOMAIN r :
           LET k == IF j < i THEN j ELSE j + 1 IN
           k \in DOMAIN cache /\ k # i /\ r[j] = cache[k]
    BY <2>3, WithoutIndex
  <2> HIDE DEF r
  <2> DEFINE at(j) == IF j < i THEN j ELSE j + 1
  <2>6. \A j \in DOMAIN r : at(j) \in DOMAIN cache /\ at(j) # i /\ r[j] = cache[at(j)]
    BY <2>5
  <2>7. \A k, l \in DOMAIN r : at(k) = at(l) => k = l
    BY <2>3, <2>4
  <2> HIDE DEF at
  <2> QED BY <2>2, <2>3, <2>4, <2>6, <2>7
<1> QED BY <1>1, <1>2

\* The cache after d was stored: d, and older entries of other worktrees.
LEMMA PutFacts ==
    ASSUME NEW d \in Diff, cache \in Seq(Diff), CacheCap \in Nat \ {0},
           \A k, l \in DOMAIN cache : cache[k].id = cache[l].id => k = l
    PROVE  /\ Put(d) \in Seq(Diff) /\ Len(Put(d)) <= CacheCap
           /\ \A k, l \in DOMAIN Put(d) : Put(d)[k].id = Put(d)[l].id => k = l
           /\ \A k \in DOMAIN Put(d) :
                 \/ Put(d)[k] = d
                 \/ \E l \in DOMAIN cache : Put(d)[k] = cache[l] /\ cache[l].id # d.id
<1> DEFINE r == Others(d.id)
           a == <<d>>
           c == a \o r
<1>1. /\ r \in Seq(Diff)
      /\ \A k, l \in DOMAIN r : r[k].id = r[l].id => k = l
      /\ \A k \in DOMAIN r : \E l \in DOMAIN cache : r[k] = cache[l] /\ cache[l].id # d.id
  BY OthersFacts
<1>2. a \in Seq(Diff) /\ Len(a) = 1 /\ a[1] = d
  OBVIOUS
<1>3. Put(d) = Capped(c, CacheCap)
  BY DEF Put
<1> HIDE DEF r, a
<1>4. /\ c \in Seq(Diff) /\ Len(c) = Len(a) + Len(r)
      /\ \A j \in 1 .. Len(a) + Len(r) :
            c[j] = IF j <= Len(a) THEN a[j] ELSE r[j - Len(a)]
  <2>1. r \in Seq(Diff) /\ a \in Seq(Diff)
    BY <1>1, <1>2
  <2>2. /\ a \o r \in Seq(Diff) /\ Len(a \o r) = Len(a) + Len(r)
        /\ \A j \in 1 .. Len(a) + Len(r) :
              (a \o r)[j] = IF j <= Len(a) THEN a[j] ELSE r[j - Len(a)]
    BY <2>1, ConcatProperties
  <2> QED BY <2>2
<1> HIDE DEF c
<1>5. /\ Len(r) \in Nat /\ Len(c) = 1 + Len(r) /\ DOMAIN r = 1 .. Len(r)
      /\ \A j \in 1 .. 1 + Len(r) : c[j] = IF j = 1 THEN d ELSE r[j - 1]
  <2>1. Len(r) \in Nat /\ DOMAIN r = 1 .. Len(r)
    BY <1>1
  <2>2. \A j \in 1 .. 1 + Len(r) : j <= 1 <=> j = 1
    BY <2>1
  <2> QED BY <1>2, <1>4, <2>1, <2>2
<1> DEFINE n == IF Len(c) < CacheCap THEN Len(c) ELSE CacheCap
           p == SubSeq(c, 1, n)
<1>6. n \in 1 .. Len(c) /\ n <= CacheCap
  BY <1>5
<1>7. Put(d) = p
  BY <1>3 DEF Capped
<1> HIDE DEF n
<1>8. p \in Seq(Diff) /\ Len(p) = n /\ DOMAIN p = 1 .. n /\ \A j \in 1 .. n : p[j] = c[j]
  BY <1>4, <1>5, <1>6
<1> HIDE DEF p
<1>9. ASSUME NEW k \in 1 .. n
      PROVE  IF k = 1 THEN p[k] = d ELSE k - 1 \in DOMAIN r /\ p[k] = r[k - 1]
  <2>1. p[k] = c[k] /\ k \in 1 .. 1 + Len(r)
    BY <1>5, <1>6, <1>8
  <2> QED BY <1>5, <2>1
<1>10. ASSUME NEW k \in 1 .. n, NEW l \in 1 .. n, p[k].id = p[l].id
       PROVE  k = l
  <2>1. CASE k = 1 /\ l = 1
    BY <2>1
  <2>2. CASE k = 1 /\ l # 1
    BY <1>1, <1>9, <1>10, <2>2
  <2>3. CASE k # 1 /\ l = 1
    BY <1>1, <1>9, <1>10, <2>3
  <2>4. CASE k # 1 /\ l # 1
    <3>1. k - 1 = l - 1
      BY <1>1, <1>9, <1>10, <2>4
    <3> QED BY <1>6, <3>1
  <2> QED BY <2>1, <2>2, <2>3, <2>4
<1>11. \A k \in DOMAIN p :
          \/ p[k] = d
          \/ \E l \in DOMAIN cache : p[k] = cache[l] /\ cache[l].id # d.id
  BY <1>1, <1>8, <1>9
<1> QED BY <1>6, <1>7, <1>8, <1>10, <1>11

-----------------------------------------------------------------------------
(* What the copies of a diff are compared with: the events and the requests *)
(* that will still correct them.                                            *)

\* A diff.ready of w with hash h is not yet handled.
Told(q, w, h) ==
    \E n \in DOMAIN q : q[n] = [type |-> "diff.ready", id |-> w, hash |-> h]
ToldOther(q, w, h) == \E g \in Hash \ {h} : Told(q, w, g)
Keeps(q, r, w) == \A h \in Hash : Told(q, w, h) => Told(r, w, h)

\* A fetch of w (a fetch or a toggle of w) takes its place behind the j-th
\* request.
Touches == {"diff", "review"}
FetchAfter(s, j, w) ==
    \E k \in DOMAIN s : k > j /\ s[k].id = w /\ s[k].do = "diff"
TouchAfter(s, j, w) ==
    \E k \in DOMAIN s : k > j /\ s[k].id = w /\ s[k].do \in Touches

\* An answer on its way, or being put together, that nothing newer has been
\* heard than.
Known == {"read", "found", "ok", "unread"}
Valid(c) == c.at \in Known /\ ~ c.old

\* What is known of the mark at this point: nothing before it is looked for, and
\* nothing when it could not be read.
Right(c, mw) ==
    /\ c.at = "found" => c.seen = c.hash
    /\ c.at = "ok" => c.on = (mw = c.hash)

\* The answer a is as true as c was.
Same(c, a) ==
    /\ a.hash = c.hash /\ a.on = c.on
    /\ \A mw : Right(c, mw) => Right(a, mw)

\* The j-th request is a fetch whose answer is on its way: its diff is the
\* daemon's (dw), its mark is the daemon's (mw), and toggles served later were
\* of the same file, unless a fetch or an event will correct it.
FetchOK(s, q, dw, mw, j) ==
    LET w == s[j].id
        x == s[j].hash IN
    /\ dw # None => x = dw \/ Told(q, w, dw) \/ FetchAfter(s, j, w)
    /\ dw # None => Right(s[j], mw) \/ ToldOther(q, w, x) \/ TouchAfter(s, j, w)
    /\ \A k \in DOMAIN s :
          k > j /\ s[k].id = w /\ s[k].do = "review" /\ Valid(s[k]) =>
             s[k].hash = x \/ ToldOther(q, w, x) \/ FetchAfter(s, j, w)

\* The same for the answer of a toggle: what it set is what the daemon says.
ToggleOK(s, dw, mw, j) ==
    dw # None => s[j].on = (mw = s[j].hash) \/ TouchAfter(s, j, s[j].id)

CallsOK(s, q, d, m) ==
    \A j \in DOMAIN s : Valid(s[j]) =>
       /\ s[j].do = "diff" => FetchOK(s, q, d[s[j].id], m[s[j].id], j)
       /\ s[j].do = "review" => ToggleOK(s, d[s[j].id], m[s[j].id], j)

\* A copy of w's diff with hash x and mark b is the daemon's, or will be
\* corrected, or something befell it.
Stale == {"ignored", "missed", "overtaken", "failed"}
CopyOK(s, q, dw, mw, bl, w, x, b) ==
    dw # None =>
    /\ bl \cap Stale = {} => x = dw \/ Told(q, w, dw) \/ FetchAfter(s, 0, w)
    /\ bl = {} =>
       /\ b = (mw = x) \/ ToldOther(q, w, x) \/ TouchAfter(s, 0, w)
       /\ \A k \in DOMAIN s : s[k].id = w /\ s[k].do = "review" /\ Valid(s[k]) =>
             s[k].hash = x \/ ToldOther(q, w, x) \/ FetchAfter(s, 0, w)

\* The copies: the entries of the cache, and the pane of the open worktree.
Held(ch, p, cur, w, x, b) ==
    \/ \E i \in DOMAIN ch : ch[i].id = w /\ ch[i].hash = x /\ ch[i].on = b
    \/ w = cur /\ p.id = w /\ p.hash = x /\ p.on = b
Copies(ch, p, cur, s, q, d, m, bl) ==
    \A w \in Worktree, x \in Hash, b \in BOOLEAN :
       Held(ch, p, cur, w, x, b) => CopyOK(s, q, d[w], m[w], bl[w], w, x, b)

\* t is s after a step: o says where each request of t was in s, but for the
\* n-th, which is new and the last (n is 0 when there is no such).  What is
\* still valid in t was valid in s, and has behind it what it had.
Comes(s, t, n, o) ==
    /\ n # 0 => n = Len(t)
    /\ \A j \in DOMAIN t : j # n =>
       /\ o[j] \in DOMAIN s /\ t[j].do = s[o[j]].do /\ t[j].id = s[o[j]].id
       /\ Valid(t[j]) =>
          /\ Valid(s[o[j]]) /\ Same(s[o[j]], t[j])
          /\ FetchAfter(s, o[j], t[j].id) => FetchAfter(t, j, t[j].id)
          /\ TouchAfter(s, o[j], t[j].id) => TouchAfter(t, j, t[j].id)
    /\ \A j, k \in DOMAIN t : j # n /\ k # n /\ j < k => o[j] < o[k]
Carried(s, t, n) == \E o : Comes(s, t, n, o)

\* What the daemon and the events do to w is no harm to an answer about it
\* that stays valid: no event of w is lost, and its diff, unless it is gone, is
\* what it was or was just announced, and its mark is what it was or the new
\* request is a toggle of it.
Steady(q, r, d, d2, m, m2, t, n, w) ==
    /\ Keeps(q, r, w)
    /\ d2 # None => /\ d # None
                    /\ d2 = d \/ Told(r, w, d2)
                    /\ m2 = m \/ (n # 0 /\ t[n].id = w /\ t[n].do \in Touches)

\* A new request that is answered as it is served tells the truth.
NewOK(t, q, d, m, n) ==
    n # 0 /\ Valid(t[n]) =>
       /\ t[n].do = "diff" => FetchOK(t, q, d[t[n].id], m[t[n].id], n)
       /\ t[n].do = "review" => ToggleOK(t, d[t[n].id], m[t[n].id], n)

-----------------------------------------------------------------------------
(* The requests after each shape of step.                                  *)

\* Nothing is new: requests may fail and grow old.
Faded(s, t) ==
    /\ DOMAIN t = DOMAIN s
    /\ \A j \in DOMAIN t :
          /\ t[j].do = s[j].do /\ t[j].id = s[j].id
          /\ Valid(t[j]) => Valid(s[j]) /\ Same(s[j], t[j])

\* An answer that did not change is as true as it was.
LEMMA SameFacts ==
    /\ \A c : Same(c, c)
    /\ \A c, a : a.hash = c.hash /\ a.on = c.on /\ a.at = c.at /\ a.seen = c.seen
                 => Same(c, a)
BY DEF Same, Right

LEMMA FadedCarried ==
    ASSUME NEW s, NEW t, Faded(s, t)
    PROVE  /\ Carried(s, t, 0)
           /\ \A j, w : /\ FetchAfter(s, j, w) => FetchAfter(t, j, w)
                        /\ TouchAfter(s, j, w) => TouchAfter(t, j, w)
<1> DEFINE o == [j \in DOMAIN t |-> j]
<1>1. \A j, w : /\ FetchAfter(s, j, w) => FetchAfter(t, j, w)
                /\ TouchAfter(s, j, w) => TouchAfter(t, j, w)
  BY DEF Faded, FetchAfter, TouchAfter
<1>2. Comes(s, t, 0, o)
  BY <1>1 DEF Faded, Comes
<1> QED BY <1>1, <1>2 DEF Carried

\* A request is sent.
LEMMA AppendCarried ==
    ASSUME NEW s \in Seq(Call), NEW c \in Call
    PROVE  /\ Append(s, c) \in Seq(Call) /\ Len(Append(s, c)) = Len(s) + 1
           /\ DOMAIN Append(s, c) = 1 .. Len(s) + 1 /\ DOMAIN s = 1 .. Len(s)
           /\ Len(s) \in Nat
           /\ \A k \in DOMAIN s : Append(s, c)[k] = s[k]
           /\ Append(s, c)[Len(s) + 1] = c
           /\ Carried(s, Append(s, c), Len(s) + 1)
           /\ \A j, w : /\ FetchAfter(s, j, w) => FetchAfter(Append(s, c), j, w)
                        /\ TouchAfter(s, j, w) => TouchAfter(Append(s, c), j, w)
<1> DEFINE t == Append(s, c)
           n == Len(s) + 1
           o == [j \in DOMAIN t |-> j]
<1>1. /\ t \in Seq(Call) /\ Len(t) = n /\ DOMAIN t = 1 .. n /\ DOMAIN s = 1 .. Len(s)
      /\ Len(s) \in Nat /\ n \in Nat /\ n # 0
      /\ \A k \in DOMAIN s : t[k] = s[k]
      /\ t[n] = c
  BY AppendProperties
<1> HIDE DEF t, n
<1>2. \A j \in DOMAIN t : j # n => j \in DOMAIN s
  BY <1>1 DEF n
<1>3. DOMAIN s \subseteq DOMAIN t
  BY <1>1 DEF n
<1>4. \A j, w : /\ FetchAfter(s, j, w) => FetchAfter(t, j, w)
                /\ TouchAfter(s, j, w) => TouchAfter(t, j, w)
  BY <1>1, <1>3 DEF FetchAfter, TouchAfter
<1>5. Comes(s, t, n, o)
  <2>1. \A j \in DOMAIN t : j # n => o[j] = j /\ o[j] \in DOMAIN s /\ t[j] = s[o[j]]
    BY <1>1, <1>2
  <2>2. \A j, k \in DOMAIN t : j # n /\ k # n /\ j < k => o[j] < o[k]
    BY <2>1
  <2> HIDE DEF o
  <2>3. \A j \in DOMAIN t : j # n => Same(s[o[j]], t[j])
    BY <2>1, SameFacts
  <2> QED BY <1>1, <1>4, <2>1, <2>2, <2>3 DEF Comes
<1> QED BY <1>1, <1>4, <1>5 DEF Carried, t, n

\* A request is served: it goes behind the others, as r.
LEMMA ServedCarried ==
    ASSUME calls \in Seq(Call), NEW i \in DOMAIN calls, NEW r \in Call,
           r.do = calls[i].do, r.id = calls[i].id, Served(i, r)
    PROVE  /\ calls' \in Seq(Call) /\ Len(calls') = Len(calls) /\ Len(calls) \in Nat \ {0}
           /\ DOMAIN calls = 1 .. Len(calls) /\ DOMAIN calls' = 1 .. Len(calls)
           /\ calls'[Len(calls)] = r
           /\ \A j \in DOMAIN calls : j # Len(calls) =>
                 \E k \in DOMAIN calls : k # i /\ calls'[j] = calls[k]
           /\ Carried(calls, calls', Len(calls))
           /\ \A w : /\ FetchAfter(calls, 0, w) => FetchAfter(calls', 0, w)
                     /\ TouchAfter(calls, 0, w) => TouchAfter(calls', 0, w)
           /\ \A k \in DOMAIN calls : \E l \in DOMAIN calls' :
                 calls'[l].do = calls[k].do /\ calls'[l].id = calls[k].id
<1> DEFINE s == calls
           t == calls'
           n == Len(s)
           u == Without(s, i)
           o == [j \in 1 .. n |-> IF j < i THEN j ELSE j + 1]
           p(k) == IF k < i THEN k ELSE IF k = i THEN n ELSE k - 1
<1>1. /\ u \in Seq(Call) /\ Len(u) = n - 1 /\ DOMAIN u = 1 .. n - 1
      /\ n \in Nat /\ DOMAIN s = 1 .. n /\ i \in 1 .. n
      /\ \A j \in 1 .. n - 1 : u[j] = IF j < i THEN s[j] ELSE s[j + 1]
  BY WithoutFacts
<1>2. t = Append(u, r)
  BY DEF Served
<1>3. s \in Seq(Call) /\ i \in DOMAIN s /\ r.do = s[i].do /\ r.id = s[i].id
  OBVIOUS
<1> HIDE DEF u, s, t
<1>4. /\ t \in Seq(Call) /\ Len(t) = (n - 1) + 1 /\ t[(n - 1) + 1] = r
      /\ \A j \in 1 .. n - 1 : t[j] = u[j]
  BY <1>1, <1>2, AppendProperties
<1>5. n \in Nat \ {0} /\ (n - 1) + 1 = n
  BY <1>1
<1>6. t \in Seq(Call) /\ Len(t) = n /\ DOMAIN t = 1 .. n /\ t[n] = r
  BY <1>4, <1>5
<1> HIDE DEF n
<1>7. ASSUME NEW j \in 1 .. n, j # n
      PROVE  /\ o[j] \in 1 .. n /\ o[j] # i /\ t[j] = s[o[j]]
             /\ o[j] = IF j < i THEN j ELSE j + 1
  <2>1. j \in 1 .. n - 1
    BY <1>5, <1>7
  <2> QED BY <1>1, <1>4, <2>1
<1>8. ASSUME NEW k \in 1 .. n
      PROVE  /\ p(k) \in 1 .. n /\ t[p(k)].do = s[k].do /\ t[p(k)].id = s[k].id
  <2>1. CASE k < i
    <3>1. k \in 1 .. n /\ k # n /\ o[k] = k
      BY <1>1, <1>7, <2>1
    <3> QED BY <1>7, <2>1, <3>1
  <2>2. CASE k = i
    BY <1>1, <1>5, <1>6, <1>3, <2>2
  <2>3. CASE k > i
    <3>1. k - 1 \in 1 .. n /\ k - 1 # n /\ ~ (k - 1 < i) /\ (k - 1) + 1 = k
      BY <1>1, <2>3
    <3>2. t[k - 1] = s[o[k - 1]] /\ o[k - 1] = IF k - 1 < i THEN k - 1 ELSE (k - 1) + 1
      BY <1>7, <3>1
    <3>3. t[k - 1] = s[k]
      BY <3>1, <3>2
    <3>4. p(k) = k - 1
      BY <1>1, <2>3
    <3> QED BY <3>1, <3>3, <3>4
  <2>4. k < i \/ k = i \/ k > i
    BY <1>1
  <2> HIDE DEF p
  <2> QED BY <2>1, <2>2, <2>3, <2>4
<1>9. ASSUME NEW j \in 1 .. n, j # n, NEW k \in 1 .. n, k > o[j]
      PROVE  p(k) > j
  BY <1>1, <1>5, <1>7, <1>9
<1>10. ASSUME NEW k \in 1 .. n
      PROVE  p(k) > 0
  BY <1>8
<1> HIDE DEF p
<1> USE DEF n
<1>11. DOMAIN s = 1 .. n /\ DOMAIN t = 1 .. n
  BY <1>1, <1>6
<1>12. \A k \in DOMAIN s : /\ p(k) \in DOMAIN t /\ p(k) > 0
                            /\ t[p(k)].do = s[k].do /\ t[p(k)].id = s[k].id
  BY <1>8, <1>10, <1>11
<1> HIDE DEF n
<1>13. ASSUME NEW w
       PROVE  /\ FetchAfter(s, 0, w) => FetchAfter(t, 0, w)
              /\ TouchAfter(s, 0, w) => TouchAfter(t, 0, w)
  BY <1>12 DEF FetchAfter, TouchAfter
<1>14. ASSUME NEW w, NEW j \in 1 .. n, j # n
       PROVE  /\ FetchAfter(s, o[j], w) => FetchAfter(t, j, w)
              /\ TouchAfter(s, o[j], w) => TouchAfter(t, j, w)
  <2> DEFINE x == o[j]
  <2>1. \A k \in DOMAIN s : k > x => p(k) > j
    BY <1>9, <1>14, <1>11
  <2> HIDE DEF x
  <2>2. /\ FetchAfter(s, x, w) => FetchAfter(t, j, w)
        /\ TouchAfter(s, x, w) => TouchAfter(t, j, w)
    BY <1>12, <2>1 DEF FetchAfter, TouchAfter
  <2> QED BY <2>2 DEF x
<1>15. \A j, k \in 1 .. n : j # n /\ k # n /\ j < k => o[j] < o[k]
  BY <1>1, <1>7
<1> HIDE DEF o
<1>16. Comes(s, t, n, o)
  <2>1. \A j \in DOMAIN t : j # n => Same(s[o[j]], t[j])
    BY <1>6, <1>7, SameFacts
  <2> QED BY <1>1, <1>6, <1>7, <1>14, <1>15, <2>1 DEF Comes, n
<1>17. \A j \in DOMAIN s : j # n => \E k \in DOMAIN s : k # i /\ t[j] = s[k]
  <2>1. \A j \in DOMAIN s : j # n => o[j] \in DOMAIN s /\ o[j] # i /\ t[j] = s[o[j]]
    BY <1>7, <1>11
  <2> QED BY <2>1
<1>18. \A k \in DOMAIN s : \E l \in DOMAIN t :
          t[l].do = s[k].do /\ t[l].id = s[k].id
  BY <1>12
<1>19. Carried(s, t, n)
  BY <1>16 DEF Carried
<1> QED BY <1>1, <1>5, <1>6, <1>13, <1>17, <1>18, <1>19 DEF n, s, t

\* A request that grows old.
LEMMA AgedFacts ==
    ASSUME NEW c \in Call
    PROVE  LET a == [c EXCEPT !.old = TRUE] IN
           /\ a \in Call /\ a.do = c.do /\ a.id = c.id /\ a.hash = c.hash
           /\ a.on = c.on /\ a.at = c.at /\ a.seen = c.seen /\ ~ Valid(a)
  BY DEF Call, Valid

\* An answer is taken: answers of its worktree that were served before it are
\* old now.
LEMMA RestCarried ==
    ASSUME calls \in Seq(Call), NEW i \in DOMAIN calls
    PROVE  /\ Rest(i) \in Seq(Call) /\ Len(calls) \in Nat \ {0} /\ Len(Rest(i)) = Len(calls) - 1
           /\ Carried(calls, Rest(i), 0)
           /\ \A w : /\ FetchAfter(calls, i, w) => FetchAfter(Rest(i), 0, w)
                     /\ TouchAfter(calls, i, w) => TouchAfter(Rest(i), 0, w)
           /\ \A w : w # calls[i].id \/ calls[i].do # "diff" =>
                 (FetchAfter(calls, 0, w) => FetchAfter(Rest(i), 0, w))
           /\ \A w : w # calls[i].id \/ calls[i].do \notin Touches =>
                 (TouchAfter(calls, 0, w) => TouchAfter(Rest(i), 0, w))
           /\ \A k \in DOMAIN Rest(i) : Rest(i)[k].id = calls[i].id /\ Valid(Rest(i)[k]) =>
                 \E l \in DOMAIN calls : /\ l > i /\ Valid(calls[l])
                                         /\ calls[l].id = Rest(i)[k].id /\ calls[l].do = Rest(i)[k].do
                                         /\ calls[l].hash = Rest(i)[k].hash
           /\ \A k \in DOMAIN Rest(i) : \E l \in DOMAIN calls :
                 /\ l # i /\ calls[l].do = Rest(i)[k].do /\ calls[l].id = Rest(i)[k].id
                 /\ calls[l].hash = Rest(i)[k].hash /\ calls[l].at = Rest(i)[k].at
           /\ \A l \in DOMAIN calls : l # i => \E k \in DOMAIN Rest(i) :
                 Rest(i)[k].do = calls[l].do /\ Rest(i)[k].id = calls[l].id
<1> DEFINE t == Rest(i)
           n == Len(calls)
           s == [j \in DOMAIN calls |->
                   IF j < i /\ calls[j].id = calls[i].id /\ calls[j].at # "asked"
                   THEN [calls[j] EXCEPT !.old = TRUE] ELSE calls[j]]
           o == [j \in 1 .. n - 1 |-> IF j < i THEN j ELSE j + 1]
           p(k) == IF k < i THEN k ELSE k - 1
<1>1. n \in Nat /\ DOMAIN calls = 1 .. n /\ i \in 1 .. n
  OBVIOUS
<1>2. ASSUME NEW j \in 1 .. n
      PROVE  /\ s[j] \in Call /\ s[j].do = calls[j].do /\ s[j].id = calls[j].id
             /\ s[j].hash = calls[j].hash /\ s[j].on = calls[j].on
             /\ s[j].at = calls[j].at /\ s[j].seen = calls[j].seen
             /\ Valid(s[j]) => Valid(calls[j])
             /\ Valid(s[j]) /\ calls[j].id = calls[i].id => ~ (j < i)
  <2>1. calls[j] \in Call
    BY <1>1
  <2>2. CASE j < i /\ calls[j].id = calls[i].id /\ calls[j].at # "asked"
    <3>1. s[j] = [calls[j] EXCEPT !.old = TRUE]
      BY <1>1, <2>2
    <3> HIDE DEF s
    <3> QED BY <2>1, <3>1, AgedFacts
  <2>3. CASE ~ (j < i /\ calls[j].id = calls[i].id /\ calls[j].at # "asked")
    <3>1. s[j] = calls[j]
      BY <1>1, <2>3
    <3>2. calls[j].at \in Known => calls[j].at # "asked"
      BY DEF Known
    <3> HIDE DEF s
    <3> QED BY <2>1, <2>3, <3>1, <3>2 DEF Valid
  <2> QED BY <2>2, <2>3
<1>3. DOMAIN s = 1 .. n /\ s \in Seq(Call) /\ Len(s) = n /\ i \in DOMAIN s
  <2>1. DOMAIN s = 1 .. n
    BY <1>1
  <2>2. s \in [1 .. n -> Call]
    BY <1>2, <2>1
  <2> HIDE DEF s
  <2> QED BY <1>1, <2>1, <2>2
<1>4. t = Without(s, i)
  BY DEF Rest
<1> HIDE DEF s, t
<1>5. /\ t \in Seq(Call) /\ Len(t) = n - 1 /\ DOMAIN t = 1 .. n - 1
      /\ \A j \in 1 .. n - 1 : t[j] = IF j < i THEN s[j] ELSE s[j + 1]
  <2> HIDE DEF n
  <2>1. /\ Without(s, i) \in Seq(Call) /\ Len(Without(s, i)) = Len(s) - 1
        /\ DOMAIN Without(s, i) = 1 .. Len(s) - 1
        /\ \A j \in 1 .. Len(s) - 1 :
              Without(s, i)[j] = IF j < i THEN s[j] ELSE s[j + 1]
    BY <1>3, WithoutFacts
  <2> QED BY <1>3, <1>4, <2>1
<1> HIDE DEF n
<1>6. ASSUME NEW j \in 1 .. n - 1
      PROVE  /\ o[j] \in 1 .. n /\ o[j] # i /\ t[j] = s[o[j]]
             /\ o[j] = IF j < i THEN j ELSE j + 1
  BY <1>1, <1>5
<1>7. ASSUME NEW k \in 1 .. n, k # i
      PROVE  /\ p(k) \in 1 .. n - 1 /\ t[p(k)] = s[k] /\ p(k) > 0
             /\ k > i => p(k) >= i
  <2>1. CASE k < i
    BY <1>1, <1>5, <2>1
  <2>2. CASE k > i
    <3>1. k - 1 \in 1 .. n - 1 /\ ~ (k - 1 < i) /\ (k - 1) + 1 = k
      BY <1>1, <2>2
    <3>2. t[k - 1] = s[k] /\ p(k) = k - 1
      BY <1>1, <1>5, <2>2, <3>1
    <3> QED BY <1>1, <2>2, <3>1, <3>2
  <2> QED BY <1>1, <1>7, <2>1, <2>2
<1>8. ASSUME NEW j \in 1 .. n - 1, NEW k \in 1 .. n, k # i, k > o[j]
      PROVE  p(k) > j
  BY <1>1, <1>6, <1>8
<1> HIDE DEF p
<1>9. ASSUME NEW j \in 1 .. n - 1, Valid(t[j]), t[j].id = calls[i].id
      PROVE  o[j] > i
  <2>1. Valid(s[o[j]]) /\ s[o[j]].id = calls[i].id /\ o[j] \in 1 .. n /\ o[j] # i
    BY <1>6, <1>9
  <2>2. ~ (o[j] < i)
    BY <1>2, <2>1
  <2> QED BY <1>1, <2>1, <2>2
<1>10. ASSUME NEW w, NEW j \in 1 .. n - 1, Valid(t[j]), w = t[j].id
       PROVE  /\ FetchAfter(calls, o[j], w) => FetchAfter(t, j, w)
              /\ TouchAfter(calls, o[j], w) => TouchAfter(t, j, w)
  <2> DEFINE x == o[j]
  <2>1. \A k \in 1 .. n : k # i /\ k > x => p(k) > j
    BY <1>8
  <2>2. ~ (i > x /\ calls[i].id = w)
    BY <1>1, <1>6, <1>9, <1>10
  <2>3. x \in 1 .. n
    BY <1>6
  <2> HIDE DEF x
  <2>4. \A k \in DOMAIN calls : k > x /\ calls[k].id = w =>
           /\ p(k) \in DOMAIN t /\ p(k) > j
           /\ t[p(k)].id = w /\ t[p(k)].do = calls[k].do
    BY <1>1, <1>2, <1>5, <1>7, <2>1, <2>2
  <2>5. /\ FetchAfter(calls, x, w) => FetchAfter(t, j, w)
        /\ TouchAfter(calls, x, w) => TouchAfter(t, j, w)
    BY <2>4 DEF FetchAfter, TouchAfter
  <2> QED BY <2>5 DEF x
<1>11. \A k \in DOMAIN calls : k # i =>
          p(k) \in DOMAIN t /\ p(k) > 0 /\ t[p(k)].id = calls[k].id
          /\ t[p(k)].do = calls[k].do
  BY <1>1, <1>2, <1>5, <1>7
<1>12. ASSUME NEW w
       PROVE  /\ FetchAfter(calls, i, w) => FetchAfter(t, 0, w)
              /\ TouchAfter(calls, i, w) => TouchAfter(t, 0, w)
              /\ w # calls[i].id \/ calls[i].do # "diff" =>
                    (FetchAfter(calls, 0, w) => FetchAfter(t, 0, w))
              /\ w # calls[i].id \/ calls[i].do \notin Touches =>
                    (TouchAfter(calls, 0, w) => TouchAfter(t, 0, w))
  BY <1>1, <1>11 DEF FetchAfter, TouchAfter
<1>13. \A j, k \in 1 .. n - 1 : j < k => o[j] < o[k]
  BY <1>1, <1>6
<1> HIDE DEF o
<1>14. ASSUME NEW j \in DOMAIN t
       PROVE  /\ o[j] \in DOMAIN calls /\ o[j] # i
              /\ t[j].do = calls[o[j]].do /\ t[j].id = calls[o[j]].id
              /\ t[j].hash = calls[o[j]].hash /\ t[j].on = calls[o[j]].on
              /\ t[j].at = calls[o[j]].at /\ Same(calls[o[j]], t[j])
              /\ Valid(t[j]) => Valid(calls[o[j]])
  <2>1. /\ o[j] \in DOMAIN calls /\ o[j] # i
        /\ t[j].do = calls[o[j]].do /\ t[j].id = calls[o[j]].id
        /\ t[j].hash = calls[o[j]].hash /\ t[j].on = calls[o[j]].on
        /\ t[j].at = calls[o[j]].at /\ t[j].seen = calls[o[j]].seen
        /\ Valid(t[j]) => Valid(calls[o[j]])
    BY <1>1, <1>2, <1>5, <1>6
  <2>2. Same(calls[o[j]], t[j])
    BY <2>1 DEF Same, Right
  <2> QED BY <2>1, <2>2
<1>15. Comes(calls, t, 0, o)
  <2>1. ASSUME NEW j \in DOMAIN t, Valid(t[j])
        PROVE  /\ FetchAfter(calls, o[j], t[j].id) => FetchAfter(t, j, t[j].id)
               /\ TouchAfter(calls, o[j], t[j].id) => TouchAfter(t, j, t[j].id)
    BY <1>5, <1>10, <2>1
  <2> QED BY <1>5, <1>13, <1>14, <2>1 DEF Comes
<1>16. \A k \in DOMAIN t : t[k].id = calls[i].id /\ Valid(t[k]) =>
          \E l \in DOMAIN calls : /\ l > i /\ Valid(calls[l])
                                  /\ calls[l].id = t[k].id /\ calls[l].do = t[k].do
                                  /\ calls[l].hash = t[k].hash
  BY <1>5, <1>9, <1>14
<1>17. n \in Nat \ {0}
  BY <1>1
<1>18. \A k \in DOMAIN t : \E l \in DOMAIN calls :
          /\ l # i /\ calls[l].do = t[k].do /\ calls[l].id = t[k].id
          /\ calls[l].hash = t[k].hash /\ calls[l].at = t[k].at
  BY <1>14
<1>19. \A l \in DOMAIN calls : l # i => \E k \in DOMAIN t :
          t[k].do = calls[l].do /\ t[k].id = calls[l].id
  BY <1>11
<1> QED BY <1>5, <1>12, <1>15, <1>16, <1>17, <1>18, <1>19 DEF Carried, n, t

-----------------------------------------------------------------------------
(* What a step keeps.                                                      *)

\* A fetch behind a request makes up for all that can be said of it.
LEMMA FetchSettles ==
    ASSUME NEW s, NEW q, NEW dw, NEW mw, NEW j, FetchAfter(s, j, s[j].id)
    PROVE  FetchOK(s, q, dw, mw, j) /\ ToggleOK(s, dw, mw, j)
<1>1. TouchAfter(s, j, s[j].id)
  BY DEF FetchAfter, TouchAfter, Touches
<1> QED BY <1>1 DEF FetchOK, ToggleOK

\* The answers on their way keep to the truth, when nothing that is done to
\* their worktrees escapes the events and the requests behind them.
LEMMA CallsCarried ==
    ASSUME NEW s \in Seq(Call), NEW t \in Seq(Call), NEW n \in Nat, NEW q, NEW r,
           NEW d \in [Worktree -> Hash \cup {None}], NEW e \in [Worktree -> Hash \cup {None}],
           NEW m, NEW l,
           Carried(s, t, n), CallsOK(s, q, d, m), NewOK(t, r, e, l, n),
           n # 0 /\ Valid(t[n]) /\ t[n].do = "review" =>
              e[t[n].id] # None /\ t[n].hash = e[t[n].id],
           \A w \in Worktree :
              \/ Steady(q, r, d[w], e[w], m[w], l[w], t, n, w)
              \/ \A j \in DOMAIN t :
                    j # n /\ t[j].id = w /\ Valid(t[j]) => FetchAfter(t, j, w)
    PROVE  CallsOK(t, r, e, l)
<1> PICK o : Comes(s, t, n, o)
  BY DEF Carried
<1>1. DOMAIN t = 1 .. Len(t) /\ Len(t) \in Nat
  OBVIOUS
<1>2. ASSUME NEW j \in DOMAIN t, Valid(t[j]), t[j].do \in Touches
      PROVE  /\ t[j].do = "diff" => FetchOK(t, r, e[t[j].id], l[t[j].id], j)
             /\ t[j].do = "review" => ToggleOK(t, e[t[j].id], l[t[j].id], j)
  <2>1. CASE j = n
    <3>1. n # 0
      BY <1>1, <2>1
    <3> QED BY <1>2, <2>1, <3>1 DEF NewOK
  <2>2. CASE j # n /\ FetchAfter(t, j, t[j].id)
    BY <2>2, FetchSettles
  <2>3. CASE j # n /\ ~ FetchAfter(t, j, t[j].id)
    <3> DEFINE w == t[j].id
               i == o[j]
               x == t[j].hash
               dw == d[w]
               ew == e[w]
               mw == m[w]
               lw == l[w]
    <3>1. w \in Worktree /\ dw \in Hash \cup {None} /\ ew \in Hash \cup {None}
      <4>1. t[j] \in Call
        OBVIOUS
      <4>2. w \in Worktree
        BY <4>1 DEF Call
      <4> HIDE DEF w
      <4> QED BY <4>2
    <3>2. Steady(q, r, dw, ew, mw, lw, t, n, w)
      BY <1>2, <2>3, <3>1
    <3>3. /\ i \in DOMAIN s /\ t[j].do = s[i].do /\ s[i].id = w
          /\ Valid(s[i]) /\ x = s[i].hash /\ t[j].on = s[i].on
          /\ FetchAfter(s, i, w) => FetchAfter(t, j, w)
          /\ TouchAfter(s, i, w) => TouchAfter(t, j, w)
          /\ Right(s[i], mw) => Right(t[j], mw)
      <4>1. /\ i \in DOMAIN s /\ t[j].do = s[i].do /\ s[i].id = w
            /\ Valid(s[i]) /\ Same(s[i], t[j])
            /\ FetchAfter(s, i, w) => FetchAfter(t, j, w)
            /\ TouchAfter(s, i, w) => TouchAfter(t, j, w)
        BY <1>2, <2>3 DEF Comes
      <4>2. x = s[i].hash /\ t[j].on = s[i].on /\ (Right(s[i], mw) => Right(t[j], mw))
        BY <4>1 DEF Same
      <4> QED BY <4>1, <4>2
    <3>4. /\ t[j].do = "diff" => FetchOK(s, q, dw, mw, i)
          /\ t[j].do = "review" => ToggleOK(s, dw, mw, i)
      BY <3>3 DEF CallsOK
    <3>5. ~ FetchAfter(s, i, w)
      BY <2>3, <3>3
    <3>6. \A h : ToldOther(q, w, h) => ToldOther(r, w, h)
      BY <3>2 DEF Steady, Keeps, ToldOther
    <3>7. n # 0 /\ t[n].id = w /\ t[n].do \in Touches => TouchAfter(t, j, w)
      <4> SUFFICES ASSUME n # 0, t[n].id = w, t[n].do \in Touches
                   PROVE  TouchAfter(t, j, w)
        OBVIOUS
      <4>1. n = Len(t) /\ n \in DOMAIN t
        BY <1>1 DEF Comes
      <4>2. n > j
        BY <1>1, <2>3, <4>1
      <4> QED BY <4>1, <4>2 DEF TouchAfter
    <3>8. ew # None => /\ dw # None /\ (ew = dw \/ Told(r, w, ew))
                       /\ lw = mw \/ TouchAfter(t, j, w)
      BY <3>2, <3>7 DEF Steady
    <3>9. CASE t[j].do = "review"
      BY <3>3, <3>4, <3>8, <3>9 DEF ToggleOK
    <3>10. CASE t[j].do = "diff"
      <4>1. /\ dw # None => x = dw \/ Told(q, w, dw)
            /\ dw # None => Right(t[j], mw) \/ ToldOther(q, w, x) \/ TouchAfter(t, j, w)
        BY <3>3, <3>4, <3>5, <3>10 DEF FetchOK
      <4>2. ew # None => x = ew \/ Told(r, w, ew)
        <5> SUFFICES ASSUME ew # None PROVE x = ew \/ Told(r, w, ew)
          OBVIOUS
        <5>1. CASE Told(r, w, ew)
          BY <5>1
        <5>2. CASE ew = dw
          <6>1. Told(q, w, dw) => Told(r, w, dw)
            BY <3>1, <3>2, <5>2 DEF Steady, Keeps
          <6> QED BY <4>1, <5>2, <6>1
        <5> QED BY <3>8, <5>1, <5>2
      <4>3. ew # None => Right(t[j], lw) \/ ToldOther(r, w, x) \/ TouchAfter(t, j, w)
        BY <3>6, <3>8, <4>1
      <4>4. ASSUME NEW k \in DOMAIN t, k > j, t[k].id = w, t[k].do = "review", Valid(t[k])
            PROVE  t[k].hash = x \/ ToldOther(r, w, x)
        <5>1. CASE k = n
          <6>1. ew # None /\ t[k].hash = ew
            BY <1>1, <4>4, <5>1
          <6>2. ew \in Hash
            BY <3>1, <6>1
          <6> QED BY <4>2, <6>1, <6>2 DEF ToldOther
        <5>2. CASE k # n
          <6>1. /\ o[k] \in DOMAIN s /\ o[k] > i /\ s[o[k]].id = w
                /\ s[o[k]].do = "review" /\ Valid(s[o[k]]) /\ s[o[k]].hash = t[k].hash
            <7>1. Same(s[o[k]], t[k])
              BY <2>3, <4>4, <5>2 DEF Comes
            <7>2. s[o[k]].hash = t[k].hash
              BY <7>1 DEF Same
            <7> QED BY <2>3, <4>4, <5>2, <7>2 DEF Comes
          <6>2. s[o[k]].hash = x \/ ToldOther(q, w, x)
            BY <3>3, <3>4, <3>5, <3>10, <6>1 DEF FetchOK
          <6> QED BY <3>6, <6>1, <6>2
        <5> QED BY <5>1, <5>2
      <4> QED BY <3>10, <4>2, <4>3, <4>4 DEF FetchOK
    <3> QED BY <1>2, <3>9, <3>10 DEF Touches
  <2> QED BY <2>1, <2>2, <2>3
<1> QED BY <1>2 DEF CallsOK, Touches

\* What a step does to w is no harm to a copy of its diff: what makes the copy
\* right is kept, or a fetch of w is under way, or something befell the copy.
Fresh(s, t, q, r, d, e, w) ==
    \/ FetchAfter(t, 0, w)
    \/ /\ Keeps(q, r, w)
       /\ e = d \/ Told(r, w, e)
       /\ FetchAfter(s, 0, w) => FetchAfter(t, 0, w)
Marked(s, t, r, d, m, l, w, x, b, c) ==
    \/ FetchAfter(t, 0, w)
    \/ /\ d # None
       /\ \/ TouchAfter(t, 0, w)
          \/ ToldOther(r, w, x)
          \/ c = (l = x)
          \/ c = b /\ l = m /\ (TouchAfter(s, 0, w) => TouchAfter(t, 0, w))

LEMMA CopyCarried ==
    ASSUME NEW s \in Seq(Call), NEW t \in Seq(Call), NEW n \in Nat, NEW q, NEW r,
           NEW d \in Hash \cup {None}, NEW e \in Hash \cup {None}, NEW m, NEW l,
           NEW f, NEW g, NEW w, NEW x \in Hash, NEW b, NEW c,
           Carried(s, t, n), CopyOK(s, q, d, m, f, w, x, b),
           n # 0 /\ Valid(t[n]) /\ t[n].do = "review" /\ t[n].id = w /\ e # None =>
              t[n].hash = e,
           f \subseteq g,
           g \cap Stale = {} /\ e # None => Fresh(s, t, q, r, d, e, w),
           g = {} /\ e # None => Marked(s, t, r, d, m, l, w, x, b, c)
    PROVE  CopyOK(t, r, e, l, g, w, x, c)
<1> SUFFICES ASSUME e # None
             PROVE  CopyOK(t, r, e, l, g, w, x, c)
  BY DEF CopyOK
<1> PICK o : Comes(s, t, n, o)
  BY DEF Carried
<1>1. CASE FetchAfter(t, 0, w)
  <2>1. TouchAfter(t, 0, w)
    BY <1>1 DEF FetchAfter, TouchAfter, Touches
  <2> QED BY <1>1, <2>1 DEF CopyOK
<1>2. CASE ~ FetchAfter(t, 0, w) /\ g \cap Stale = {}
  <2>1. /\ Keeps(q, r, w)
        /\ e = d \/ Told(r, w, e)
        /\ ~ FetchAfter(s, 0, w)
    BY <1>2 DEF Fresh
  <2>2. x = e \/ Told(r, w, e)
    <3>1. CASE Told(r, w, e)
      BY <3>1
    <3>2. CASE e = d
      <4>1. x = d \/ Told(q, w, d)
        BY <1>2, <2>1, <3>2 DEF CopyOK
      <4> QED BY <2>1, <3>2, <4>1 DEF Keeps
    <3> QED BY <2>1, <3>1, <3>2
  <2>3. CASE g # {}
    BY <1>2, <2>2, <2>3 DEF CopyOK
  <2>4. CASE g = {}
    <3>1. f = {} /\ d # None
      BY <1>2, <2>4 DEF Marked
    <3>2. \A h : ToldOther(q, w, h) => ToldOther(r, w, h)
      BY <2>1 DEF Keeps, ToldOther
    <3>3. b = (m = x) \/ ToldOther(q, w, x) \/ TouchAfter(s, 0, w)
      BY <3>1 DEF CopyOK
    <3>4. c = (l = x) \/ ToldOther(r, w, x) \/ TouchAfter(t, 0, w)
      BY <1>2, <2>4, <3>2, <3>3 DEF Marked
    <3>5. ASSUME NEW k \in DOMAIN t, t[k].id = w, t[k].do = "review", Valid(t[k])
          PROVE  t[k].hash = x \/ ToldOther(r, w, x)
      <4>1. CASE k = n
        <5>1. t[k].hash = e
          <6>1. k # 0
            OBVIOUS
          <6> QED BY <3>5, <4>1, <6>1
        <5>2. e \in Hash
          OBVIOUS
        <5> QED BY <2>2, <5>1, <5>2 DEF ToldOther
      <4>2. CASE k # n
        <5>1. /\ o[k] \in DOMAIN s /\ s[o[k]].id = w
              /\ s[o[k]].do = "review" /\ Valid(s[o[k]]) /\ s[o[k]].hash = t[k].hash
          <6>1. Same(s[o[k]], t[k])
            BY <3>5, <4>2 DEF Comes
          <6>2. s[o[k]].hash = t[k].hash
            BY <6>1 DEF Same
          <6> QED BY <3>5, <4>2, <6>2 DEF Comes
        <5>2. s[o[k]].hash = x \/ ToldOther(q, w, x)
          BY <2>1, <3>1, <5>1 DEF CopyOK
        <5> QED BY <3>2, <5>1, <5>2
      <4> QED BY <4>1, <4>2
    <3> QED BY <2>2, <3>4, <3>5 DEF CopyOK
  <2> QED BY <2>3, <2>4
<1>3. CASE g \cap Stale # {}
  BY <1>3 DEF CopyOK
<1> QED BY <1>1, <1>2, <1>3

-----------------------------------------------------------------------------
(* The invariant.                                                          *)

Dialog == [id : Worktree \cup {None}, submitting : BOOLEAN, error : Worktree \cup {None}]
Pane == [id : Worktree, hash : Hash, on : BOOLEAN, shared : BOOLEAN]

\* The parts of TypeOK, and that a toggle, and the answer of a fetch, carry a hash.
DaemonTyped ==
    disk \in [Worktree -> Hash \cup {None}] /\ mark \in [Worktree -> Hash \cup {None}]
StreamTyped == up \in BOOLEAN /\ inbox \in Seq(Event)
SidebarTyped ==
    /\ rows \subseteq Worktree /\ hidden \subseteq Worktree
    /\ selected \in Visible(rows) \cup {None}
    /\ selected = None => Visible(rows) = {}
PaneTyped ==
    /\ current \in Worktree \cup {None} /\ failed \in BOOLEAN
    /\ pane = Blank \/ pane \in Pane
CacheTyped ==
    /\ cache \in Seq(Diff) /\ Len(cache) <= CacheCap
    /\ \A i, j \in DOMAIN cache : cache[i].id = cache[j].id => i = j
DialogTyped == dialog \in Dialog /\ (dialog.id = None => dialog = Closed)
Answered(s) ==
    \A j \in DOMAIN s :
       s[j].do = "review" \/ (s[j].do = "diff" /\ s[j].at \in Known) => s[j].hash \in Hash
CallsTyped == calls \in Seq(Call) /\ Answered(calls)
FlagsTyped == listing \in BOOLEAN /\ reviewing \in BOOLEAN /\ work \in 0 .. MaxWork
BlameTyped == blame \in [Worktree -> SUBSET Blames]
Types ==
    /\ DaemonTyped /\ StreamTyped /\ SidebarTyped /\ PaneTyped /\ CacheTyped
    /\ DialogTyped /\ CallsTyped /\ FlagsTyped /\ BlameTyped

LEMMA TypesGive == Types => TypeOK
BY DEF Types, TypeOK, DaemonTyped, StreamTyped, SidebarTyped, PaneTyped, CacheTyped,
       DialogTyped, CallsTyped, FlagsTyped, BlameTyped, Pane

\* The selected worktree is the open one; the open one is on the screen, or an
\* error is, or its fetch is under way.
Open1 == selected # None => current = selected
Coming(s) == current # None => failed \/ pane.id = current \/ FetchAfter(s, 0, current)

\* The cached diff of the open worktree is the one the pane shows.
Shares ==
    \A i \in DOMAIN cache : cache[i].id = current =>
       /\ pane.id = current /\ pane.shared
       /\ pane.hash = cache[i].hash /\ pane.on = cache[i].on

Truthful == CallsOK(calls, inbox, disk, mark)
Copied == Copies(cache, pane, current, calls, inbox, disk, mark, blame)

IInv == Types /\ Open1 /\ Coming(calls) /\ Shares /\ Truthful /\ Copied

\* Every copy after the step was one before it, its mark perhaps changed, or a
\* fetch will replace it.
LEMMA CopiesCarried ==
    ASSUME Types, Types', Copied, NEW n \in Nat, Carried(calls, calls', n),
           n # 0 /\ Valid(calls'[n]) /\ calls'[n].do = "review" =>
              disk'[calls'[n].id] # None /\ calls'[n].hash = disk'[calls'[n].id],
           \A w \in Worktree :
              /\ blame[w] \subseteq blame'[w]
              /\ blame'[w] \cap Stale = {} /\ disk'[w] # None =>
                    Fresh(calls, calls', inbox, inbox', disk[w], disk'[w], w),
           \A w \in Worktree, x \in Hash, c \in BOOLEAN :
              Held(cache', pane', current', w, x, c) =>
                 \/ FetchAfter(calls', 0, w)
                 \/ \E b \in BOOLEAN :
                    /\ Held(cache, pane, current, w, x, b)
                    /\ blame'[w] = {} /\ disk'[w] # None =>
                          Marked(calls, calls', inbox', disk[w], mark[w], mark'[w], w, x, b, c)
    PROVE  Copied'
<1> SUFFICES ASSUME NEW w \in Worktree, NEW x \in Hash, NEW c \in BOOLEAN,
                    Held(cache', pane', current', w, x, c)
             PROVE  CopyOK(calls', inbox', disk'[w], mark'[w], blame'[w], w, x, c)
  BY DEF Copied, Copies
<1> DEFINE s == calls
           t == calls'
           q == inbox
           r == inbox'
           dw == disk[w]
           ew == disk'[w]
           fw == blame[w]
           gw == blame'[w]
           mw == mark[w]
           lw == mark'[w]
<1>1. /\ s \in Seq(Call) /\ t \in Seq(Call) /\ Carried(s, t, n)
      /\ dw \in Hash \cup {None} /\ ew \in Hash \cup {None} /\ fw \subseteq gw
      /\ gw \cap Stale = {} /\ ew # None => Fresh(s, t, q, r, dw, ew, w)
      /\ n # 0 /\ Valid(t[n]) /\ t[n].do = "review" /\ t[n].id = w /\ ew # None =>
           t[n].hash = ew
  BY DEF Types, CallsTyped, DaemonTyped
<1>2. CASE FetchAfter(t, 0, w)
  <2>1. TouchAfter(t, 0, w)
    BY <1>2 DEF FetchAfter, TouchAfter, Touches
  <2> QED BY <1>2, <2>1 DEF CopyOK
<1>3. CASE ~ FetchAfter(t, 0, w)
  <2> PICK b \in BOOLEAN :
         /\ Held(cache, pane, current, w, x, b)
         /\ gw = {} /\ ew # None => Marked(s, t, r, dw, mw, lw, w, x, b, c)
    BY <1>3
  <2>1. CopyOK(s, q, dw, mw, fw, w, x, b)
    BY DEF Copied, Copies
  <2> HIDE DEF s, t, q, r, dw, ew, fw, gw, mw, lw
  <2>2. CopyOK(t, r, ew, lw, gw, w, x, c)
    BY <1>1, <2>1, CopyCarried
  <2> QED BY <2>2 DEF t, r, ew, lw, gw
<1> QED BY <1>2, <1>3

-----------------------------------------------------------------------------
(* Steps that leave the client's own state alone.                          *)

\* What such a step has to respect.
Background(n) ==
    /\ UNCHANGED <<sidebar, radar>>
    /\ calls' \in Seq(Call) /\ Carried(calls, calls', n)
    /\ \A w : /\ FetchAfter(calls, 0, w) => FetchAfter(calls', 0, w)
              /\ TouchAfter(calls, 0, w) => TouchAfter(calls', 0, w)
    /\ NewOK(calls', inbox', disk', mark', n)
    /\ n # 0 /\ Valid(calls'[n]) /\ calls'[n].do = "review" =>
          disk'[calls'[n].id] # None /\ calls'[n].hash = disk'[calls'[n].id]
    /\ \A w \in Worktree :
          /\ \/ Steady(inbox, inbox', disk[w], disk'[w], mark[w], mark'[w], calls', n, w)
             \/ \A j \in DOMAIN calls' : calls'[j].id = w => ~ Valid(calls'[j])
          /\ blame[w] \subseteq blame'[w]
          /\ blame'[w] \cap Stale = {} /\ disk'[w] # None =>
                Fresh(calls, calls', inbox, inbox', disk[w], disk'[w], w)
          /\ blame'[w] = {} /\ disk'[w] # None =>
                disk[w] # None /\ (mark'[w] = mark[w] \/ TouchAfter(calls', 0, w))

LEMMA BackgroundKeeps ==
    ASSUME IInv, Types', NEW n \in Nat, Background(n)
    PROVE  IInv'
<1>1. calls \in Seq(Call) /\ calls' \in Seq(Call)
  BY DEF IInv, Types, CallsTyped
<1>2. /\ disk \in [Worktree -> Hash \cup {None}]
      /\ disk' \in [Worktree -> Hash \cup {None}]
  BY DEF IInv, Types, DaemonTyped
<1>3. Truthful'
  <2>1. CallsOK(calls, inbox, disk, mark)
    BY DEF IInv, Truthful
  <2>2. CallsOK(calls', inbox', disk', mark')
    BY <1>1, <1>2, <2>1, CallsCarried DEF Background
  <2> QED BY <2>2 DEF Truthful
<1>4. Copied'
  <2>2. ASSUME NEW w \in Worktree, NEW x \in Hash, NEW c \in BOOLEAN,
               Held(cache', pane', current', w, x, c)
        PROVE  /\ Held(cache, pane, current, w, x, c)
               /\ blame'[w] = {} /\ disk'[w] # None =>
                     Marked(calls, calls', inbox', disk[w], mark[w], mark'[w], w, x, c, c)
    BY <2>2 DEF Background, Marked, radar
  <2>3. /\ Carried(calls, calls', n)
        /\ n # 0 /\ Valid(calls'[n]) /\ calls'[n].do = "review" =>
              disk'[calls'[n].id] # None /\ calls'[n].hash = disk'[calls'[n].id]
        /\ \A w \in Worktree :
              /\ blame[w] \subseteq blame'[w]
              /\ blame'[w] \cap Stale = {} /\ disk'[w] # None =>
                    Fresh(calls, calls', inbox, inbox', disk[w], disk'[w], w)
    BY DEF Background
  <2>4. \A w \in Worktree, x \in Hash, c \in BOOLEAN :
           Held(cache', pane', current', w, x, c) =>
              \/ FetchAfter(calls', 0, w)
              \/ \E b \in BOOLEAN :
                 /\ Held(cache, pane, current, w, x, b)
                 /\ blame'[w] = {} /\ disk'[w] # None =>
                       Marked(calls, calls', inbox', disk[w], mark[w], mark'[w], w, x, b, c)
    BY <2>2
  <2>5. Copied'
    BY <2>3, <2>4, CopiesCarried DEF IInv
  <2> QED BY <2>5
<1>5. Open1' /\ Coming(calls)'
  BY DEF IInv, Open1, Coming, Background, sidebar, radar
<1>6. Shares'
  BY DEF IInv, Shares, Background, radar
<1> QED BY <1>3, <1>4, <1>5, <1>6 DEF IInv

\* The same when no request is sent, served or answered.
Unanswered(s, w) == \A j \in DOMAIN s : s[j].id = w => ~ Valid(s[j])
Harmless(w) ==
    /\ blame[w] \subseteq blame'[w]
    /\ \/ blame'[w] \cap Stale # {} /\ Unanswered(calls', w)
       \/ /\ Keeps(inbox, inbox', w)
          /\ disk'[w] # None =>
             /\ disk'[w] = disk[w] \/ Told(inbox', w, disk'[w])
             /\ \/ disk[w] # None /\ mark'[w] = mark[w]
                \/ blame'[w] # {} /\ Unanswered(calls', w)

LEMMA FadedKeeps ==
    ASSUME IInv, Types', UNCHANGED <<sidebar, radar>>, Faded(calls, calls'),
           \A w \in Worktree : Harmless(w)
    PROVE  IInv'
<1>1. /\ Carried(calls, calls', 0)
      /\ \A w : /\ FetchAfter(calls, 0, w) => FetchAfter(calls', 0, w)
                /\ TouchAfter(calls, 0, w) => TouchAfter(calls', 0, w)
  BY FadedCarried
<1>2. ASSUME NEW w \in Worktree
      PROVE  /\ \/ Steady(inbox, inbox', disk[w], disk'[w], mark[w], mark'[w], calls', 0, w)
                \/ Unanswered(calls', w)
             /\ blame[w] \subseteq blame'[w]
             /\ blame'[w] \cap Stale = {} /\ disk'[w] # None =>
                   Fresh(calls, calls', inbox, inbox', disk[w], disk'[w], w)
             /\ blame'[w] = {} /\ disk'[w] # None =>
                   disk[w] # None /\ (mark'[w] = mark[w] \/ TouchAfter(calls', 0, w))
  <2>1. Harmless(w)
    OBVIOUS
  <2>2. CASE blame'[w] \cap Stale # {} /\ Unanswered(calls', w)
    BY <2>1, <2>2 DEF Harmless
  <2>3. CASE ~ (blame'[w] \cap Stale # {} /\ Unanswered(calls', w))
    <3>1. /\ Keeps(inbox, inbox', w)
          /\ disk'[w] # None =>
             /\ disk'[w] = disk[w] \/ Told(inbox', w, disk'[w])
             /\ \/ disk[w] # None /\ mark'[w] = mark[w]
                \/ blame'[w] # {} /\ Unanswered(calls', w)
      BY <2>1, <2>3 DEF Harmless
    <3>2. disk'[w] # None => Fresh(calls, calls', inbox, inbox', disk[w], disk'[w], w)
      BY <1>1, <3>1 DEF Fresh
    <3>3. \/ Steady(inbox, inbox', disk[w], disk'[w], mark[w], mark'[w], calls', 0, w)
          \/ Unanswered(calls', w)
      BY <3>1 DEF Steady
    <3> QED BY <2>1, <3>1, <3>2, <3>3 DEF Harmless
  <2> QED BY <2>2, <2>3
<1>3. Background(0)
  BY <1>1, <1>2 DEF Background, NewOK, Unanswered, Types, CallsTyped
<1> QED BY <1>3, BackgroundKeeps

\* What is sent joins what is not yet handled.
LEMMA SendFacts ==
    ASSUME inbox \in Seq(Event), NEW es \in Seq(Event), Send(es)
    PROVE  /\ inbox' \in Seq(Event)
           /\ \A w : Keeps(inbox, inbox', w)
           /\ up => \A k \in DOMAIN es : \E n \in DOMAIN inbox' : inbox'[n] = es[k]
<1>1. CASE ~ up
  BY <1>1 DEF Send, Keeps
<1>2. CASE up
  <2>1. inbox' = inbox \o es
    BY <1>2 DEF Send
  <2>2. /\ inbox \o es \in Seq(Event) /\ Len(inbox \o es) = Len(inbox) + Len(es)
        /\ \A j \in 1 .. Len(inbox) + Len(es) :
              (inbox \o es)[j] = IF j <= Len(inbox) THEN inbox[j] ELSE es[j - Len(inbox)]
    BY ConcatProperties
  <2>3. /\ inbox' \in Seq(Event) /\ DOMAIN inbox' = 1 .. Len(inbox) + Len(es)
        /\ \A j \in 1 .. Len(inbox) + Len(es) :
              inbox'[j] = IF j <= Len(inbox) THEN inbox[j] ELSE es[j - Len(inbox)]
    BY <2>1, <2>2
  <2>4. /\ Len(inbox) \in Nat /\ Len(es) \in Nat
        /\ DOMAIN inbox = 1 .. Len(inbox) /\ DOMAIN es = 1 .. Len(es)
    OBVIOUS
  <2>5. \A j \in DOMAIN inbox : j \in DOMAIN inbox' /\ inbox'[j] = inbox[j]
    BY <2>3, <2>4
  <2>6. ASSUME NEW k \in DOMAIN es
        PROVE  \E n \in DOMAIN inbox' : inbox'[n] = es[k]
    <3>1. /\ Len(inbox) + k \in 1 .. Len(inbox) + Len(es) /\ ~ (Len(inbox) + k <= Len(inbox))
          /\ (Len(inbox) + k) - Len(inbox) = k
      BY <2>4
    <3>2. inbox'[Len(inbox) + k] = es[k]
      BY <2>3, <3>1
    <3> QED BY <2>3, <3>1, <3>2
  <2> QED BY <2>3, <2>5, <2>6 DEF Keeps, Told
<1> QED BY <1>1, <1>2

LEMMA AgeFacts ==
    ASSUME CallsTyped, NEW w
    PROVE  /\ Age(w) \in Seq(Call) /\ Answered(Age(w)) /\ Faded(calls, Age(w))
           /\ Unanswered(Age(w), w)
<1>1. DOMAIN Age(w) = DOMAIN calls
  BY DEF Age
<1>2. ASSUME NEW j \in DOMAIN calls
      PROVE  /\ Age(w)[j] \in Call /\ Age(w)[j].do = calls[j].do /\ Age(w)[j].id = calls[j].id
             /\ Age(w)[j].hash = calls[j].hash /\ Age(w)[j].on = calls[j].on
             /\ Age(w)[j].at = calls[j].at /\ Age(w)[j].seen = calls[j].seen
             /\ Valid(Age(w)[j]) => Valid(calls[j]) /\ calls[j].id # w
  <2>1. calls[j] \in Call
    BY DEF CallsTyped
  <2>2. CASE calls[j].id = w /\ calls[j].at # "asked"
    <3>1. Age(w)[j] = [calls[j] EXCEPT !.old = TRUE]
      BY <2>2 DEF Age
    <3> QED BY <2>1, <3>1, AgedFacts
  <2>3. CASE ~ (calls[j].id = w /\ calls[j].at # "asked")
    <3>1. Age(w)[j] = calls[j]
      BY <2>3 DEF Age
    <3>2. calls[j].at \in Known => calls[j].at # "asked"
      BY DEF Known
    <3> QED BY <2>1, <2>3, <3>1, <3>2 DEF Valid
  <2> QED BY <2>2, <2>3
<1>4. \A j \in DOMAIN calls : Same(calls[j], Age(w)[j])
  BY <1>2, SameFacts
<1>3. Age(w) \in Seq(Call)
  <2>1. calls \in Seq(Call)
    BY DEF CallsTyped
  <2>2. Len(calls) \in Nat /\ DOMAIN calls = 1 .. Len(calls)
    BY <2>1
  <2>3. Age(w) \in [1 .. Len(calls) -> Call]
    BY <1>2, <2>2 DEF Age
  <2> QED BY <2>2, <2>3
<1> QED BY <1>1, <1>2, <1>3, <1>4 DEF Faded, Answered, Unanswered, CallsTyped

-----------------------------------------------------------------------------
(* The daemon, the network and other clients.                              *)

LEMMA EffortTyped ==
    ASSUME work \in 0 .. MaxWork, NEW n \in Nat, Effort(n)
    PROVE  work' \in 0 .. MaxWork
BY CockpitAssumption DEF Effort

LEMMA BlamedTyped ==
    ASSUME BlameTyped, NEW w \in Worktree, NEW why \in SUBSET Blames,
           blame' = [blame EXCEPT ![w] = @ \cup why]
    PROVE  /\ BlameTyped'
           /\ blame'[w] = blame[w] \cup why
           /\ \A v \in Worktree : v # w => blame'[v] = blame[v]
BY DEF BlameTyped

LEMMA EditKeeps ==
    ASSUME IInv, NEW w \in Worktree, NEW h \in Hash, Edit(w, h)
    PROVE  IInv'
<1> DEFINE told == [type |-> "diff.ready", id |-> w, hash |-> h]
           es == <<told, [type |-> "upserted", id |-> w]>>
           why == (IF up THEN {} ELSE {"missed"})
                  \cup (IF disk[w] = None THEN {"reborn"} ELSE {})
<1>1. Types
  BY DEF IInv
<1>2. /\ es \in Seq(Event) /\ 1 \in DOMAIN es /\ es[1] = told
      /\ why \in SUBSET Blames
  <2>1. told \in Event /\ [type |-> "upserted", id |-> w] \in Event
    BY DEF Event
  <2>2. why \in SUBSET Blames
    BY DEF Blames
  <2> HIDE DEF told, why
  <2> QED BY <2>1, <2>2
<1>3. /\ Effort(2) /\ disk' = [disk EXCEPT ![w] = h] /\ Send(es)
      /\ blame' = [blame EXCEPT ![w] = @ \cup why]
      /\ calls' = IF why = {} THEN calls ELSE Age(w)
      /\ UNCHANGED <<mark, up, listing, sidebar, radar, reviewing, dialog>>
  BY DEF Edit
<1> HIDE DEF es, told
<1>4. /\ inbox' \in Seq(Event)
      /\ \A v : Keeps(inbox, inbox', v)
      /\ up => \E n \in DOMAIN inbox' : inbox'[n] = told
  <2>1. inbox \in Seq(Event)
    BY <1>1 DEF Types, StreamTyped
  <2>2. /\ inbox' \in Seq(Event)
        /\ \A v : Keeps(inbox, inbox', v)
        /\ up => \A k \in DOMAIN es : \E n \in DOMAIN inbox' : inbox'[n] = es[k]
    BY <1>2, <1>3, <2>1, SendFacts
  <2> QED BY <1>2, <2>2
<1>5. /\ BlameTyped' /\ blame'[w] = blame[w] \cup why
      /\ \A v \in Worktree : v # w => blame'[v] = blame[v]
  <2>1. BlameTyped
    BY <1>1 DEF Types
  <2> HIDE DEF why
  <2> QED BY <1>2, <1>3, <2>1, BlamedTyped
<1>6. /\ CallsTyped' /\ Faded(calls, calls')
      /\ why # {} => Unanswered(calls', w)
  <2>1. CallsTyped
    BY <1>1 DEF Types
  <2> HIDE DEF why
  <2>2. CASE why = {}
    BY <1>3, <2>1, <2>2, SameFacts DEF CallsTyped, Faded
  <2>3. CASE why # {}
    BY <1>3, <2>1, <2>3, AgeFacts DEF CallsTyped
  <2> QED BY <2>2, <2>3
<1>7. DaemonTyped' /\ disk'[w] = h /\ \A v \in Worktree : v # w => disk'[v] = disk[v]
  BY <1>1, <1>3 DEF Types, DaemonTyped
<1>8. Types'
  <2>1. work' \in 0 .. MaxWork
    BY <1>1, <1>3, EffortTyped DEF Types, FlagsTyped
  <2> QED BY <1>1, <1>3, <1>4, <1>5, <1>6, <1>7, <2>1
       DEF Types, StreamTyped, SidebarTyped, PaneTyped, CacheTyped, DialogTyped,
           FlagsTyped, sidebar, radar, Visible
<1>9. ASSUME NEW v \in Worktree PROVE Harmless(v)
  <2>1. CASE v # w
    BY <1>3, <1>4, <1>5, <1>7, <2>1 DEF Harmless
  <2>2. CASE v = w /\ ~ up
    <3>1. "missed" \in why
      BY <2>2
    <3>2. "missed" \in Stale
      BY DEF Stale
    <3> HIDE DEF why
    <3> QED BY <1>5, <1>6, <2>2, <3>1, <3>2 DEF Harmless
  <2>3. CASE v = w /\ up
    <3>1. Told(inbox', w, disk'[w])
      BY <1>4, <1>7, <2>3 DEF Told, told
    <3>2. disk[w] = None => why # {}
      OBVIOUS
    <3> HIDE DEF why
    <3> QED BY <1>3, <1>4, <1>5, <1>6, <2>3, <3>1, <3>2 DEF Harmless
  <2> QED BY <2>1, <2>2, <2>3
<1> HIDE DEF why
<1> QED BY <1>3, <1>6, <1>8, <1>9, FadedKeeps

LEMMA ForgetKeeps ==
    ASSUME IInv, NEW w \in Worktree, Forget(w)
    PROVE  IInv'
<1>1. Types
  BY DEF IInv
<1>2. <<[type |-> "removed", id |-> w]>> \in Seq(Event)
  BY DEF Event
<1>3. inbox' \in Seq(Event) /\ \A v : Keeps(inbox, inbox', v)
  BY <1>1, <1>2, SendFacts DEF Forget, Types, StreamTyped
<1>4. DaemonTyped' /\ disk'[w] = None /\ \A v \in Worktree : v # w => disk'[v] = disk[v]
  BY <1>1 DEF Types, DaemonTyped, Forget
<1>5. work' \in 0 .. MaxWork
  BY <1>1, EffortTyped DEF Types, FlagsTyped, Forget
<1>6. Types'
  BY <1>1, <1>3, <1>4, <1>5
  DEF Forget, Types, StreamTyped, SidebarTyped, PaneTyped, CacheTyped, DialogTyped,
      CallsTyped, FlagsTyped, BlameTyped, sidebar, radar, Visible
<1>7. \A v \in Worktree : Harmless(v)
  BY <1>3, <1>4 DEF Forget, Harmless
<1> QED BY <1>6, <1>7, FadedKeeps, SameFacts DEF Forget, Faded

LEMMA ToggleElsewhereKeeps ==
    ASSUME IInv, NEW w \in Worktree, ToggleElsewhere(w)
    PROVE  IInv'
<1> DEFINE es == <<[type |-> "upserted", id |-> w], [type |-> "review.changed", id |-> w]>>
<1>1. Types
  BY DEF IInv
<1>2. es \in Seq(Event)
  BY DEF Event
<1>3. /\ Effort(2) /\ Send(es) /\ calls' = Age(w)
      /\ blame' = [blame EXCEPT ![w] = @ \cup {"elsewhere"}]
      /\ mark' = [mark EXCEPT ![w] = IF @ = disk[w] THEN None ELSE disk[w]]
      /\ UNCHANGED <<disk, up, listing, sidebar, radar, reviewing, dialog>>
  BY DEF ToggleElsewhere, Blamed
<1> HIDE DEF es
<1>4. inbox' \in Seq(Event) /\ \A v : Keeps(inbox, inbox', v)
  BY <1>1, <1>2, <1>3, SendFacts DEF Types, StreamTyped
<1>5. DaemonTyped' /\ \A v \in Worktree : v # w => mark'[v] = mark[v]
  BY <1>1, <1>3 DEF Types, DaemonTyped
<1>6. work' \in 0 .. MaxWork
  BY <1>1, <1>3, EffortTyped DEF Types, FlagsTyped
<1>7. CallsTyped' /\ Faded(calls, calls') /\ Unanswered(calls', w)
  BY <1>1, <1>3, AgeFacts DEF Types, CallsTyped
<1>8. /\ BlameTyped' /\ blame'[w] # {} /\ blame[w] \subseteq blame'[w]
      /\ \A v \in Worktree : v # w => blame'[v] = blame[v]
  <2>1. BlameTyped /\ {"elsewhere"} \in SUBSET Blames
    BY <1>1 DEF Types, Blames
  <2>2. /\ BlameTyped' /\ blame'[w] = blame[w] \cup {"elsewhere"}
        /\ \A v \in Worktree : v # w => blame'[v] = blame[v]
    BY <1>3, <2>1, BlamedTyped
  <2> QED BY <2>2
<1>9. Types'
  BY <1>1, <1>3, <1>4, <1>5, <1>6, <1>7, <1>8
  DEF Types, StreamTyped, SidebarTyped, PaneTyped, CacheTyped, DialogTyped,
      FlagsTyped, sidebar, radar, Visible
<1>10. ASSUME NEW v \in Worktree PROVE Harmless(v)
  <2>1. CASE v # w
    BY <1>3, <1>4, <1>5, <1>8, <2>1 DEF Harmless
  <2>2. CASE v = w
    BY <1>3, <1>4, <1>7, <1>8, <2>2 DEF Harmless
  <2> QED BY <2>1, <2>2
<1> QED BY <1>3, <1>7, <1>9, <1>10, FadedKeeps

LEMMA FailKeeps ==
    ASSUME IInv, NEW i \in DOMAIN calls, Fail(i)
    PROVE  IInv'
<1>1. Types /\ CallsTyped
  BY DEF IInv, Types
<1>2. calls[i] \in Call
  BY <1>1 DEF CallsTyped
<1> DEFINE c == [calls[i] EXCEPT !.at = "failed"]
<1>3. /\ c \in Call /\ c.do = calls[i].do /\ c.id = calls[i].id /\ c.at = "failed"
      /\ c.hash = calls[i].hash
  BY <1>2 DEF Call, Outcome
<1>4. calls' = [calls EXCEPT ![i] = c]
  BY DEF Fail
<1> HIDE DEF c
<1>5. /\ calls' \in Seq(Call) /\ DOMAIN calls' = DOMAIN calls /\ calls'[i] = c
      /\ \A j \in DOMAIN calls : j # i => calls'[j] = calls[j]
  BY <1>1, <1>3, <1>4 DEF CallsTyped
<1>6. CallsTyped' /\ Faded(calls, calls')
  <2>1. \A j \in DOMAIN calls : j = i \/ calls'[j] = calls[j]
    BY <1>5
  <2>2. Answered(calls')
    BY <1>1, <1>3, <1>5, <2>1 DEF CallsTyped, Answered, Known
  <2>3. Faded(calls, calls')
    BY <1>3, <1>5, <2>1, SameFacts DEF Faded, Valid, Known
  <2> QED BY <1>5, <2>2, <2>3 DEF CallsTyped
<1>7. work' \in 0 .. MaxWork
  BY <1>1, EffortTyped DEF Types, FlagsTyped, Fail
<1>8. Types'
  BY <1>1, <1>6, <1>7
  DEF Fail, Types, DaemonTyped, StreamTyped, SidebarTyped, PaneTyped, CacheTyped,
      DialogTyped, FlagsTyped, BlameTyped, sidebar, radar, stream, daemon, Visible
<1>9. \A v \in Worktree : Harmless(v)
  <2>1. /\ inbox' = inbox /\ disk' = disk /\ mark' = mark /\ blame' = blame
    BY DEF Fail, daemon, stream
  <2>2. \A v \in Worktree : Keeps(inbox, inbox', v)
    BY <2>1 DEF Keeps
  <2>3. ASSUME NEW v \in Worktree, disk[v] # None PROVE Harmless(v)
    BY <2>1, <2>2, <2>3 DEF Harmless
  <2>4. ASSUME NEW v \in Worktree, disk[v] = None PROVE Harmless(v)
    BY <2>1, <2>2, <2>4 DEF Harmless
  <2> QED BY <2>3, <2>4
<1> QED BY <1>6, <1>8, <1>9, FadedKeeps DEF Fail

\* Disconnect's lost: the worktrees whose diff.ready is cut off.
Lost(n) == {inbox[i].id : i \in {j \in n + 1 .. Len(inbox) :
                                   inbox[j].type = "diff.ready"}}

LEMMA DisconnectKeeps ==
    ASSUME IInv, Disconnect
    PROVE  IInv'
<1>1. Types /\ CallsTyped /\ BlameTyped /\ inbox \in Seq(Event)
  BY DEF IInv, Types, StreamTyped
<1> PICK n \in 0 .. Len(inbox) :
       /\ inbox' = SubSeq(inbox, 1, n)
       /\ blame' = [w \in Worktree |-> IF w \in Lost(n) THEN blame[w] \cup {"missed"}
                                       ELSE blame[w]]
       /\ calls' = [i \in DOMAIN calls |->
                      IF calls[i].id \in Lost(n) /\ calls[i].at # "asked"
                      THEN [calls[i] EXCEPT !.old = TRUE] ELSE calls[i]]
  BY DEF Disconnect, Lost
<1> DEFINE lost == Lost(n)
<1>2. /\ inbox' = SubSeq(inbox, 1, n)
      /\ blame' = [w \in Worktree |-> IF w \in lost THEN blame[w] \cup {"missed"}
                                      ELSE blame[w]]
      /\ calls' = [i \in DOMAIN calls |->
                     IF calls[i].id \in lost /\ calls[i].at # "asked"
                     THEN [calls[i] EXCEPT !.old = TRUE] ELSE calls[i]]
  OBVIOUS
<1>3. \A k \in 1 .. Len(inbox) : inbox[k].type = "diff.ready" /\ k > n => inbox[k].id \in lost
  BY <1>1 DEF Lost
<1> HIDE DEF lost
<1>4. /\ inbox' \in Seq(Event) /\ DOMAIN inbox' = 1 .. n
      /\ \A k \in 1 .. n : inbox'[k] = inbox[k]
      /\ DOMAIN inbox = 1 .. Len(inbox) /\ Len(inbox) \in Nat
  BY <1>1, <1>2
<1>5. ASSUME NEW w, w \notin lost
      PROVE  Keeps(inbox, inbox', w)
  <2>1. ASSUME NEW h, NEW k \in DOMAIN inbox,
               inbox[k] = [type |-> "diff.ready", id |-> w, hash |-> h]
        PROVE  k \in DOMAIN inbox' /\ inbox'[k] = inbox[k]
    <3>1. inbox[k].type = "diff.ready" /\ inbox[k].id = w
      BY <2>1
    <3>2. ~ (k > n)
      BY <1>3, <1>4, <1>5, <3>1
    <3> QED BY <1>4, <3>2
  <2> QED BY <2>1 DEF Keeps, Told
<1>6. ASSUME NEW j \in DOMAIN calls
      PROVE  /\ calls'[j] \in Call /\ calls'[j].do = calls[j].do /\ calls'[j].id = calls[j].id
             /\ calls'[j].hash = calls[j].hash /\ calls'[j].on = calls[j].on
             /\ calls'[j].at = calls[j].at /\ calls'[j].seen = calls[j].seen
             /\ Valid(calls'[j]) => Valid(calls[j]) /\ calls[j].id \notin lost
  <2>1. calls[j] \in Call
    BY <1>1 DEF CallsTyped
  <2>2. CASE calls[j].id \in lost /\ calls[j].at # "asked"
    <3>1. calls'[j] = [calls[j] EXCEPT !.old = TRUE]
      BY <1>2, <2>2
    <3> QED BY <2>1, <3>1, AgedFacts
  <2>3. CASE ~ (calls[j].id \in lost /\ calls[j].at # "asked")
    <3>1. calls'[j] = calls[j]
      BY <1>2, <2>3
    <3>2. calls[j].at \in Known => calls[j].at # "asked"
      BY DEF Known
    <3> QED BY <2>1, <2>3, <3>1, <3>2 DEF Valid
  <2> QED BY <2>2, <2>3
<1>7. calls' \in Seq(Call) /\ DOMAIN calls' = DOMAIN calls
  <2>1. calls \in Seq(Call) /\ DOMAIN calls' = DOMAIN calls
    BY <1>1, <1>2 DEF CallsTyped
  <2>2. Len(calls) \in Nat /\ DOMAIN calls = 1 .. Len(calls)
    BY <2>1
  <2>3. calls' \in [1 .. Len(calls) -> Call]
    BY <1>2, <1>6, <2>2
  <2> QED BY <2>1, <2>2, <2>3
<1>8. CallsTyped' /\ Faded(calls, calls')
  <2>1. Answered(calls)
    BY <1>1 DEF CallsTyped
  <2>2. Answered(calls')
    BY <1>6, <1>7, <2>1 DEF Answered
  <2>4. \A j \in DOMAIN calls : Same(calls[j], calls'[j])
    <3>1. ASSUME NEW j \in DOMAIN calls PROVE Same(calls[j], calls'[j])
      <4> DEFINE a == calls'[j]
                 c == calls[j]
      <4>1. a.hash = c.hash /\ a.on = c.on /\ a.at = c.at /\ a.seen = c.seen
        BY <1>6
      <4> HIDE DEF a, c
      <4>2. Same(c, a)
        BY <4>1, SameFacts
      <4> QED BY <4>2 DEF a, c
    <3> QED BY <3>1
  <2>3. Faded(calls, calls')
    BY <1>6, <1>7, <2>4 DEF Faded
  <2> QED BY <1>7, <2>2, <2>3 DEF CallsTyped
<1>9. BlameTyped'
  BY <1>1, <1>2 DEF BlameTyped, Blames
<1>10. Types'
  <2>1. work' \in 0 .. MaxWork
    BY <1>1, EffortTyped DEF Types, FlagsTyped, Disconnect
  <2> QED BY <1>1, <1>4, <1>8, <1>9, <2>1
       DEF Disconnect, Types, DaemonTyped, StreamTyped, SidebarTyped, PaneTyped, CacheTyped,
           DialogTyped, FlagsTyped, sidebar, radar, daemon, Visible
<1>11. disk' = disk /\ mark' = mark /\ UNCHANGED <<sidebar, radar>>
  BY DEF Disconnect, daemon
<1>12. ASSUME NEW v \in Worktree PROVE Harmless(v)
  <2>1. CASE v \in lost
    <3>1. blame'[v] = blame[v] \cup {"missed"} /\ "missed" \in Stale
      BY <1>2, <2>1 DEF Stale
    <3>2. Unanswered(calls', v)
      BY <1>6, <1>7, <2>1 DEF Unanswered
    <3> QED BY <3>1, <3>2 DEF Harmless
  <2>2. CASE v \notin lost
    <3>1. blame'[v] = blame[v] /\ Keeps(inbox, inbox', v)
      BY <1>2, <1>5, <2>2
    <3> QED BY <1>11, <3>1 DEF Harmless
  <2> QED BY <2>1, <2>2
<1> QED BY <1>8, <1>10, <1>11, <1>12, FadedKeeps

LEMMA ConnectKeeps ==
    ASSUME IInv, Connect
    PROVE  IInv'
<1>1. Types /\ inbox \in Seq(Event)
  BY DEF IInv, Types, StreamTyped
<1>2. [type |-> "snapshot"] \in Event
  BY DEF Event
<1>3. /\ inbox' \in Seq(Event) /\ DOMAIN inbox \subseteq DOMAIN inbox'
      /\ \A k \in DOMAIN inbox : inbox'[k] = inbox[k]
  BY <1>1, <1>2, AppendProperties DEF Connect
<1>4. \A v : Keeps(inbox, inbox', v)
  BY <1>3 DEF Keeps, Told
<1>5. Types'
  BY <1>1, <1>3
  DEF Connect, Types, DaemonTyped, StreamTyped, SidebarTyped, PaneTyped, CacheTyped,
      DialogTyped, CallsTyped, FlagsTyped, BlameTyped, sidebar, radar, daemon, Visible
<1>6. \A v \in Worktree : Harmless(v)
  BY <1>4 DEF Connect, daemon, Harmless
<1> QED BY <1>5, <1>6, FadedKeeps, SameFacts DEF Connect, Faded

\* A step that touches none of what the invariant relates.
Aside == UNCHANGED <<daemon, inbox, sidebar, radar, calls, blame>>

LEMMA AsideKeeps ==
    ASSUME IInv, Aside, Types'
    PROVE  IInv'
BY DEF IInv, Aside, Open1, Coming, Shares, Truthful, Copied, daemon, sidebar, radar

LEMMA FailListKeeps ==
    ASSUME IInv, FailList
    PROVE  IInv'
<1>1. Types
  BY DEF IInv
<1>2. work' \in 0 .. MaxWork
  BY <1>1, EffortTyped DEF Types, FlagsTyped, FailList
<1>3. Types' /\ Aside
  BY <1>1, <1>2
  DEF FailList, Types, DaemonTyped, StreamTyped, SidebarTyped, PaneTyped, CacheTyped,
      DialogTyped, CallsTyped, FlagsTyped, BlameTyped, sidebar, radar, daemon, stream, Visible,
      Aside
<1> QED BY <1>3, AsideKeeps

\* A request is served as r: what r says is so, and what serving it does is
\* announced, or is the mark that r set.
LEMMA ServedKeeps ==
    ASSUME IInv, NEW i \in DOMAIN calls, NEW r \in Call, Served(i, r),
           r.do = calls[i].do, r.id = calls[i].id,
           r.do = "review" => r.hash = calls[i].hash,
           DaemonTyped', StreamTyped',
           UNCHANGED <<listing, sidebar, radar, reviewing, dialog, work, blame>>,
           \A w \in Worktree :
              /\ Keeps(inbox, inbox', w)
              /\ disk'[w] # None => disk'[w] = disk[w]
              /\ mark'[w] = mark[w] \/ disk'[w] = None \/ (w = r.id /\ r.do \in Touches),
           r.at \in Known /\ r.do \in Touches =>
              /\ disk'[r.id] # None /\ r.hash = disk'[r.id]
              /\ \/ r.at = "read" /\ r.do = "diff"
                 \/ r.at = "ok" /\ r.on = (mark'[r.id] = r.hash)
    PROVE  IInv'
<1>1. Types /\ calls \in Seq(Call) /\ Answered(calls)
  BY DEF IInv, Types, CallsTyped
<1> DEFINE t == calls'
           n == Len(calls)
<1>2. /\ t \in Seq(Call) /\ n \in Nat \ {0}
      /\ DOMAIN calls = 1 .. n /\ DOMAIN t = 1 .. n /\ t[n] = r
      /\ \A j \in DOMAIN calls : j # n =>
            \E k \in DOMAIN calls : k # i /\ t[j] = calls[k]
      /\ Carried(calls, t, n)
      /\ \A w : /\ FetchAfter(calls, 0, w) => FetchAfter(t, 0, w)
                /\ TouchAfter(calls, 0, w) => TouchAfter(t, 0, w)
  BY <1>1, ServedCarried
<1> HIDE DEF n
<1>3. r.id \in Worktree
  BY DEF Call
<1>4. Answered(t)
  <2>1. ASSUME NEW j \in DOMAIN t,
               t[j].do = "review" \/ (t[j].do = "diff" /\ t[j].at \in Known)
        PROVE  t[j].hash \in Hash
    <3>1. CASE j = n /\ r.do = "review"
      BY <1>1, <1>2, <3>1 DEF Answered
    <3>2. CASE j = n /\ r.do # "review"
      <4>1. r.hash = disk'[r.id] /\ disk'[r.id] # None
        BY <1>2, <2>1, <3>2 DEF Touches
      <4> QED BY <1>2, <1>3, <3>2, <4>1 DEF DaemonTyped
    <3>3. CASE j # n
      BY <1>1, <1>2, <2>1, <3>3 DEF Answered
    <3> QED BY <3>1, <3>2, <3>3
  <2> QED BY <2>1 DEF Answered
<1>5. Types'
  BY <1>1, <1>2, <1>4
  DEF Types, SidebarTyped, PaneTyped, CacheTyped, DialogTyped, CallsTyped, FlagsTyped,
      BlameTyped, sidebar, radar, Visible
<1>6. NewOK(t, inbox', disk', mark', n)
  <2>1. \A k \in DOMAIN t : ~ (k > n)
    BY <1>2
  <2>2. CASE Valid(r) /\ r.do \in Touches
    <3>1. /\ r.hash = disk'[r.id] /\ Right(r, mark'[r.id])
          /\ r.do = "review" => r.on = (mark'[r.id] = r.hash)
      BY <2>2 DEF Valid, Right
    <3> QED BY <1>2, <2>1, <3>1 DEF NewOK, FetchOK, ToggleOK
  <2>3. CASE ~ (Valid(r) /\ r.do \in Touches)
    BY <1>2, <2>3 DEF NewOK, Touches
  <2> QED BY <2>2, <2>3
<1>7. ASSUME NEW w \in Worktree
      PROVE  /\ Steady(inbox, inbox', disk[w], disk'[w], mark[w], mark'[w], t, n, w)
             /\ blame[w] \subseteq blame'[w]
             /\ disk'[w] # None => Fresh(calls, t, inbox, inbox', disk[w], disk'[w], w)
             /\ disk'[w] # None => disk[w] # None /\ (mark'[w] = mark[w] \/ TouchAfter(t, 0, w))
  <2>1. /\ Keeps(inbox, inbox', w)
        /\ disk'[w] # None => disk'[w] = disk[w]
        /\ mark'[w] = mark[w] \/ disk'[w] = None \/ (w = r.id /\ r.do \in Touches)
    OBVIOUS
  <2>2. w = r.id /\ r.do \in Touches => TouchAfter(t, 0, w)
    BY <1>2 DEF TouchAfter
  <2> QED BY <1>2, <2>1, <2>2 DEF Steady, Fresh
<1>8. Background(n)
  <2>1. n # 0 /\ Valid(t[n]) /\ t[n].do = "review" =>
           disk'[t[n].id] # None /\ t[n].hash = disk'[t[n].id]
    BY <1>2 DEF Valid, Touches
  <2> QED BY <1>2, <1>6, <1>7, <2>1 DEF Background
<1> QED BY <1>2, <1>5, <1>8, BackgroundKeeps

\* A fetch goes on to its next step: as c, in the same place.
GoesOn(i, c) ==
    /\ c \in Call /\ c.do = "diff" /\ calls[i].do = "diff" /\ c.id = calls[i].id
    /\ c.hash = calls[i].hash /\ c.old = calls[i].old
    /\ c.at \in Known /\ calls[i].at \in Known
    /\ calls' = [calls EXCEPT ![i] = c]
RightSoon(i, c, dw, mw) ==
    FetchOK(calls, inbox, dw, mw, i) /\ dw # None =>
       \/ Right(c, mw) \/ ToldOther(inbox, c.id, c.hash) \/ TouchAfter(calls, i, c.id)

LEMMA GoesOnFacts ==
    ASSUME CallsTyped, NEW i \in DOMAIN calls, NEW c, GoesOn(i, c)
    PROVE  /\ CallsTyped' /\ DOMAIN calls' = DOMAIN calls /\ calls'[i] = c
           /\ \A j \in DOMAIN calls : j # i => calls'[j] = calls[j]
           /\ \A j \in DOMAIN calls :
                 /\ calls'[j].do = calls[j].do /\ calls'[j].id = calls[j].id
                 /\ calls'[j].hash = calls[j].hash
                 /\ Valid(calls'[j]) => Valid(calls[j])
           /\ \A j, w : /\ (FetchAfter(calls, j, w) <=> FetchAfter(calls', j, w))
                        /\ (TouchAfter(calls, j, w) <=> TouchAfter(calls', j, w))
<1>1. calls \in Seq(Call) /\ Answered(calls) /\ c \in Call /\ calls' = [calls EXCEPT ![i] = c]
  BY DEF CallsTyped, GoesOn
<1>2. /\ calls' \in Seq(Call) /\ DOMAIN calls' = DOMAIN calls /\ calls'[i] = c
      /\ \A j \in DOMAIN calls : j # i => calls'[j] = calls[j]
  BY <1>1
<1>3. \A j \in DOMAIN calls :
         /\ calls'[j].do = calls[j].do /\ calls'[j].id = calls[j].id
         /\ calls'[j].hash = calls[j].hash
         /\ Valid(calls'[j]) => Valid(calls[j])
         /\ calls'[j].at \in Known => calls[j].at \in Known
  BY <1>2 DEF GoesOn, Valid
<1>4. Answered(calls')
  BY <1>1, <1>2, <1>3 DEF Answered
<1>5. \A j, w : /\ (FetchAfter(calls, j, w) <=> FetchAfter(calls', j, w))
               /\ (TouchAfter(calls, j, w) <=> TouchAfter(calls', j, w))
  BY <1>2, <1>3 DEF FetchAfter, TouchAfter
<1>6. CallsTyped'
  BY <1>2, <1>4 DEF CallsTyped
<1>7. \A j \in DOMAIN calls :
         /\ calls'[j].do = calls[j].do /\ calls'[j].id = calls[j].id
         /\ calls'[j].hash = calls[j].hash
         /\ Valid(calls'[j]) => Valid(calls[j])
  BY <1>3
<1> QED BY <1>2, <1>5, <1>6, <1>7

LEMMA GoesOnKeeps ==
    ASSUME IInv, NEW i \in DOMAIN calls, NEW c, GoesOn(i, c),
           RightSoon(i, c, disk[c.id], mark[c.id]), work' \in 0 .. MaxWork,
           UNCHANGED <<daemon, stream, listing, sidebar, radar, reviewing, dialog, blame>>
    PROVE  IInv'
<1>1. Types /\ CallsTyped
  BY DEF IInv, Types
<1>2. /\ CallsTyped' /\ DOMAIN calls' = DOMAIN calls /\ calls'[i] = c
      /\ \A j \in DOMAIN calls : j # i => calls'[j] = calls[j]
      /\ \A j \in DOMAIN calls :
            /\ calls'[j].do = calls[j].do /\ calls'[j].id = calls[j].id
            /\ calls'[j].hash = calls[j].hash
            /\ Valid(calls'[j]) => Valid(calls[j])
      /\ \A j, w : /\ (FetchAfter(calls, j, w) <=> FetchAfter(calls', j, w))
                   /\ (TouchAfter(calls, j, w) <=> TouchAfter(calls', j, w))
  BY <1>1, GoesOnFacts
<1>3. Types'
  BY <1>1, <1>2
  DEF Types, DaemonTyped, StreamTyped, SidebarTyped, PaneTyped, CacheTyped,
      DialogTyped, FlagsTyped, BlameTyped, sidebar, radar, stream, daemon, Visible
<1>4. /\ inbox' = inbox /\ disk' = disk /\ mark' = mark /\ blame' = blame
      /\ selected' = selected /\ current' = current /\ failed' = failed
      /\ pane' = pane /\ cache' = cache
  BY DEF daemon, stream, sidebar, radar
<1>5. ASSUME NEW j \in DOMAIN calls, Valid(calls'[j]), calls[j].do \in Touches
      PROVE  /\ calls[j].do = "diff" => FetchOK(calls', inbox, disk[calls[j].id], mark[calls[j].id], j)
             /\ calls[j].do = "review" => ToggleOK(calls', disk[calls[j].id], mark[calls[j].id], j)
  <2> DEFINE w == calls[j].id
             x == calls[j].hash
             dw == disk[w]
             mw == mark[w]
  <2>1. /\ calls[j].do = "diff" => FetchOK(calls, inbox, dw, mw, j)
        /\ calls[j].do = "review" => ToggleOK(calls, dw, mw, j)
    BY <1>2, <1>5 DEF IInv, Truthful, CallsOK
  <2>2. calls'[j].id = w /\ calls'[j].hash = x /\ calls'[j].do = calls[j].do
    BY <1>2
  <2>3. CASE calls[j].do = "review"
    <3>1. calls'[j] = calls[j]
      BY <1>2, <2>3 DEF GoesOn
    <3> QED BY <1>2, <2>1, <2>3, <3>1 DEF ToggleOK
  <2>4. CASE calls[j].do = "diff"
    <3>1. /\ dw # None => x = dw \/ Told(inbox, w, dw) \/ FetchAfter(calls, j, w)
          /\ dw # None => Right(calls[j], mw) \/ ToldOther(inbox, w, x) \/ TouchAfter(calls, j, w)
          /\ \A k \in DOMAIN calls :
                k > j /\ calls[k].id = w /\ calls[k].do = "review" /\ Valid(calls[k]) =>
                   calls[k].hash = x \/ ToldOther(inbox, w, x) \/ FetchAfter(calls, j, w)
      BY <2>1, <2>4 DEF FetchOK
    <3>2. dw # None => Right(calls'[j], mw) \/ ToldOther(inbox, w, x) \/ TouchAfter(calls, j, w)
      <4>1. CASE j # i
        BY <1>2, <3>1, <4>1
      <4>2. CASE j = i
        BY <1>2, <2>1, <2>2, <2>4, <4>2 DEF RightSoon
      <4> QED BY <4>1, <4>2
    <3>3. \A k \in DOMAIN calls' :
             k > j /\ calls'[k].id = w /\ calls'[k].do = "review" /\ Valid(calls'[k]) =>
                calls'[k].hash = x \/ ToldOther(inbox, w, x) \/ FetchAfter(calls', j, w)
      BY <1>2, <3>1
    <3>4. /\ FetchAfter(calls, j, w) <=> FetchAfter(calls', j, w)
          /\ TouchAfter(calls, j, w) <=> TouchAfter(calls', j, w)
      BY <1>2
    <3> HIDE DEF dw, mw, w, x
    <3>5. FetchOK(calls', inbox, dw, mw, j)
      BY <2>2, <3>1, <3>2, <3>3, <3>4 DEF FetchOK
    <3> QED BY <2>4, <3>5 DEF dw, mw, w
  <2> QED BY <1>5, <2>3, <2>4 DEF Touches
<1>6. Truthful'
  BY <1>2, <1>4, <1>5 DEF Truthful, CallsOK, Touches
<1>7. Copied'
  <2> SUFFICES ASSUME NEW w \in Worktree, NEW x \in Hash, NEW b \in BOOLEAN,
                      Held(cache, pane, current, w, x, b)
               PROVE  CopyOK(calls', inbox, disk[w], mark[w], blame[w], w, x, b)
    BY <1>4 DEF Copied, Copies
  <2>1. CopyOK(calls, inbox, disk[w], mark[w], blame[w], w, x, b)
    BY DEF IInv, Copied, Copies
  <2> DEFINE dw == disk[w]
             mw == mark[w]
             bw == blame[w]
  <2>2. CopyOK(calls, inbox, dw, mw, bw, w, x, b)
    BY <2>1
  <2> HIDE DEF dw, mw, bw
  <2>3. CopyOK(calls', inbox, dw, mw, bw, w, x, b)
    BY <1>2, <2>2 DEF CopyOK
  <2> QED BY <2>3 DEF dw, mw, bw
<1>8. Open1' /\ Coming(calls)' /\ Shares'
  BY <1>2, <1>4 DEF IInv, Open1, Coming, Shares
<1> QED BY <1>3, <1>6, <1>7, <1>8 DEF IInv

\* The cache is read again, and the mark: the hash found may be a newer one, and
\* then an event or a fetch will say so.
LEMMA ReadKeeps ==
    ASSUME IInv, NEW i \in DOMAIN calls, FindFiles(i) \/ ReadMark(i),
           UNCHANGED <<listing, sidebar, radar, reviewing, dialog, work, blame>>
    PROVE  IInv'
<1>1. Types /\ CallsTyped /\ work' \in 0 .. MaxWork
  BY DEF IInv, Types, FlagsTyped
<1>2. calls[i] \in Call
  BY <1>1 DEF CallsTyped
<1> DEFINE w == calls[i].id
           dw == disk[w]
           mw == mark[w]
<1>3. w \in Worktree /\ dw \in Hash \cup {None}
  BY <1>1, <1>2 DEF Call, Types, DaemonTyped
<1>4. CASE FindFiles(i)
  <2>1. CASE dw = None
    <3> DEFINE c == [calls[i] EXCEPT !.at = "ok"]
    <3>1. /\ c \in Call /\ c.do = calls[i].do /\ c.id = w /\ c.hash = calls[i].hash
          /\ c.old = calls[i].old /\ c.at = "ok"
      BY <1>2 DEF Call, Outcome
    <3>2. calls' = [calls EXCEPT ![i] = c]
      BY <1>4, <2>1 DEF FindFiles
    <3> HIDE DEF c
    <3>3. GoesOn(i, c)
      BY <1>4, <3>1, <3>2 DEF GoesOn, FindFiles, Known
    <3>4. RightSoon(i, c, disk[c.id], mark[c.id])
      BY <2>1, <3>1 DEF RightSoon
    <3> QED BY <1>1, <1>4, <3>3, <3>4, GoesOnKeeps DEF FindFiles
  <2>2. CASE dw # None
    <3> DEFINE c == [calls[i] EXCEPT !.at = "found", !.seen = dw]
    <3>1. /\ c \in Call /\ c.do = calls[i].do /\ c.id = w /\ c.hash = calls[i].hash
          /\ c.old = calls[i].old /\ c.at = "found" /\ c.seen = dw
      BY <1>2, <1>3 DEF Call, Stage
    <3>2. calls' = [calls EXCEPT ![i] = c]
      BY <1>4, <2>2 DEF FindFiles
    <3> HIDE DEF c
    <3>3. GoesOn(i, c)
      BY <1>4, <3>1, <3>2 DEF GoesOn, FindFiles, Known
    <3>4. RightSoon(i, c, dw, mw)
      <4> SUFFICES ASSUME FetchOK(calls, inbox, dw, mw, i)
                   PROVE  \/ Right(c, mw) \/ ToldOther(inbox, w, c.hash)
                          \/ TouchAfter(calls, i, w)
        BY <3>1 DEF RightSoon
      <4> DEFINE x == c.hash
      <4>1. x = dw \/ Told(inbox, w, dw) \/ FetchAfter(calls, i, w)
        BY <2>2, <3>1 DEF FetchOK
      <4>2. CASE x = dw
        BY <3>1, <4>2 DEF Right
      <4>3. CASE x # dw /\ Told(inbox, w, dw)
        BY <1>3, <2>2, <4>3 DEF ToldOther
      <4>4. CASE FetchAfter(calls, i, w)
        BY <4>4 DEF FetchAfter, TouchAfter, Touches
      <4> QED BY <4>1, <4>2, <4>3, <4>4
    <3> QED BY <1>1, <1>4, <3>1, <3>3, <3>4, GoesOnKeeps DEF FindFiles
  <2> QED BY <2>1, <2>2
<1>5. CASE ReadMark(i)
  <2> DEFINE c == [calls[i] EXCEPT !.at = "ok", !.seen = None, !.on = (mw = calls[i].seen)]
  <2>1. /\ c \in Call /\ c.do = calls[i].do /\ c.id = w /\ c.hash = calls[i].hash
        /\ c.old = calls[i].old /\ c.at = "ok" /\ c.on = (mw = calls[i].seen)
    <3>1. (mw = calls[i].seen) \in BOOLEAN
      OBVIOUS
    <3> DEFINE b == (mw = calls[i].seen)
    <3> HIDE DEF b
    <3>2. [calls[i] EXCEPT !.at = "ok", !.seen = None, !.on = b] \in Call
      BY <1>2, <3>1 DEF Call, Outcome, b
    <3> QED BY <1>2, <3>2 DEF Call, b
  <2>2. calls' = [calls EXCEPT ![i] = c]
    BY <1>5 DEF ReadMark
  <2> HIDE DEF c
  <2>3. GoesOn(i, c)
    BY <1>5, <2>1, <2>2 DEF GoesOn, ReadMark, Known
  <2>4. RightSoon(i, c, dw, mw)
    BY <1>5, <2>1 DEF RightSoon, FetchOK, Right, ReadMark
  <2> QED BY <1>1, <1>5, <2>1, <2>3, <2>4, GoesOnKeeps DEF ReadMark
<1> QED BY <1>4, <1>5

\* The store cannot be read: nothing is said of the mark any more.
LEMMA UnreadMarkKeeps ==
    ASSUME IInv, NEW i \in DOMAIN calls, UnreadMark(i)
    PROVE  IInv'
<1>1. Types /\ CallsTyped
  BY DEF IInv, Types
<1>2. calls[i] \in Call
  BY <1>1 DEF CallsTyped
<1> DEFINE c == [calls[i] EXCEPT !.at = "unread", !.seen = None]
<1>3. /\ c \in Call /\ c.do = calls[i].do /\ c.id = calls[i].id /\ c.hash = calls[i].hash
      /\ c.old = calls[i].old /\ c.at = "unread"
  BY <1>2 DEF Call, Outcome
<1>4. calls' = [calls EXCEPT ![i] = c]
  BY DEF UnreadMark
<1> HIDE DEF c
<1>5. GoesOn(i, c)
  BY <1>3, <1>4 DEF GoesOn, UnreadMark, Known
<1>6. RightSoon(i, c, disk[c.id], mark[c.id])
  BY <1>3 DEF RightSoon, Right
<1>7. work' \in 0 .. MaxWork
  BY <1>1, EffortTyped DEF Types, FlagsTyped, UnreadMark
<1> QED BY <1>5, <1>6, <1>7, GoesOnKeeps DEF UnreadMark

LEMMA ServeKeeps ==
    ASSUME IInv, Serve
    PROVE  IInv'
<1>1. Types /\ calls \in Seq(Call) /\ inbox \in Seq(Event) /\ DaemonTyped
  BY DEF IInv, Types, CallsTyped, StreamTyped
<1> PICK i \in DOMAIN calls : \/ ServeDiff(i) \/ FindFiles(i) \/ ReadMark(i)
                            \/ ServeReview(i) \/ ServeApprove(i)
  BY DEF Serve
<1> DEFINE c == calls[i]
           w == c.id
<1>2. /\ UNCHANGED <<listing, sidebar, radar, reviewing, dialog, work, blame>>
      /\ c \in Call /\ w \in Worktree
  <2>1. calls[i] \in Call
    BY <1>1
  <2> QED BY <2>1 DEF Serve, Call
<1>3. ASSUME NEW at \in {"failed", "conflict"}, Served(i, [c EXCEPT !.at = at]),
             UNCHANGED <<daemon, stream>>
      PROVE  IInv'
  <2> DEFINE r == [c EXCEPT !.at = at]
  <2>1. r \in Call /\ r.do = c.do /\ r.id = c.id /\ r.hash = c.hash /\ r.at = at /\ at \notin Known
    BY <1>2 DEF Call, Outcome, Known
  <2>2. Served(i, r)
    BY <1>3
  <2> HIDE DEF r
  <2>3. /\ DaemonTyped' /\ StreamTyped' /\ disk' = disk /\ mark' = mark
        /\ \A v : Keeps(inbox, inbox', v)
    BY <1>1, <1>3 DEF Types, DaemonTyped, StreamTyped, daemon, stream, Keeps
  <2> QED BY <1>2, <2>1, <2>2, <2>3, ServedKeeps
<1>4. CASE ServeDiff(i)
  <2>1. CASE disk[w] = None
    BY <1>3, <1>4, <2>1 DEF ServeDiff
  <2>2. CASE disk[w] # None
    <3> DEFINE r == [c EXCEPT !.at = "read", !.hash = disk[w]]
    <3>1. disk[w] \in Hash
      BY <1>1, <1>2, <2>2 DEF DaemonTyped
    <3>2. /\ r \in Call /\ r.do = "diff" /\ c.do = "diff" /\ r.id = w /\ r.at = "read"
          /\ r.hash = disk[w]
      BY <1>2, <1>4, <3>1 DEF Call, Stage, ServeDiff
    <3>3. Served(i, r)
      BY <1>4, <2>2 DEF ServeDiff
    <3> HIDE DEF r
    <3>4. /\ DaemonTyped' /\ StreamTyped' /\ disk' = disk /\ mark' = mark
          /\ \A v : Keeps(inbox, inbox', v)
      BY <1>1, <1>4 DEF Types, DaemonTyped, StreamTyped, daemon, stream, Keeps, ServeDiff
    <3> QED BY <1>2, <2>2, <3>2, <3>3, <3>4, ServedKeeps
  <2> QED BY <2>1, <2>2
<1>5. CASE ServeReview(i)
  <2>1. CASE disk[w] \notin {None, c.hash}
    BY <1>3, <1>5, <2>1 DEF ServeReview, daemon, stream
  <2>2. CASE disk[w] = None
    <3>1. c.hash \in Hash
      BY <1>1, <1>5 DEF ServeReview, IInv, Types, CallsTyped, Answered
    <3>2. disk[w] # c.hash
      BY <2>2, <3>1, CockpitAssumption
    <3> QED BY <1>3, <1>5, <2>2, <3>2 DEF ServeReview, daemon, stream
  <2>3. CASE disk[w] = c.hash /\ disk[w] # None
    <3> DEFINE es == <<[type |-> "upserted", id |-> w],
                       [type |-> "review.changed", id |-> w]>>
               r == [c EXCEPT !.at = "ok"]
    <3>1. /\ mark' = [mark EXCEPT ![w] = IF c.on THEN disk[w] ELSE None]
          /\ Send(es) /\ Served(i, r) /\ UNCHANGED <<disk, up>> /\ c.do = "review"
      BY <1>5, <2>3 DEF ServeReview
    <3>2. es \in Seq(Event)
      BY <1>2 DEF Event
    <3>3. /\ r \in Call /\ r.do = "review" /\ r.id = w /\ r.at = "ok"
          /\ r.hash = disk[w] /\ r.hash = c.hash
          /\ r.on = c.on /\ r.on \in BOOLEAN
      BY <1>2, <2>3, <3>1 DEF Call, Outcome
    <3> HIDE DEF es, r
    <3>4. inbox' \in Seq(Event) /\ \A v : Keeps(inbox, inbox', v)
      BY <1>1, <3>1, <3>2, SendFacts
    <3>5. /\ DaemonTyped' /\ disk' = disk
          /\ mark'[w] = IF c.on THEN disk[w] ELSE None
          /\ \A v \in Worktree : v # w => mark'[v] = mark[v]
      BY <1>1, <1>2, <3>1 DEF DaemonTyped
    <3>6. StreamTyped'
      BY <1>1, <3>1, <3>4 DEF Types, StreamTyped
    <3>7. r.on = (mark'[w] = r.hash)
      BY <2>3, <3>3, <3>5
    <3>8. r.do \in Touches
      BY <3>3 DEF Touches
    <3> QED BY <1>2, <2>3, <3>1, <3>3, <3>4, <3>5, <3>6, <3>7, <3>8, ServedKeeps
  <2> QED BY <2>1, <2>2, <2>3
<1>6. CASE ServeApprove(i)
  <2>1. CASE Served(i, [c EXCEPT !.at = "failed"]) /\ UNCHANGED <<daemon, inbox>>
    BY <1>3, <1>6, <2>1 DEF ServeApprove, stream
  <2>2. CASE ~ (Served(i, [c EXCEPT !.at = "failed"]) /\ UNCHANGED <<daemon, inbox>>)
    <3> DEFINE es == <<[type |-> "removed", id |-> w]>>
               r == [c EXCEPT !.at = "ok"]
    <3>1. /\ disk' = [disk EXCEPT ![w] = None] /\ mark' = [mark EXCEPT ![w] = None]
          /\ Send(es) /\ Served(i, r) /\ up' = up /\ c.do = "approve"
      BY <1>6, <2>2 DEF ServeApprove
    <3>2. es \in Seq(Event)
      BY <1>2 DEF Event
    <3>3. r \in Call /\ r.do = c.do /\ r.id = w /\ r.do # "review"
      BY <1>2, <3>1 DEF Call, Outcome
    <3> HIDE DEF es, r
    <3>4. inbox' \in Seq(Event) /\ \A v : Keeps(inbox, inbox', v)
      BY <1>1, <3>1, <3>2, SendFacts
    <3>5. /\ DaemonTyped' /\ disk'[w] = None
          /\ \A v \in Worktree : v # w => mark'[v] = mark[v] /\ disk'[v] = disk[v]
      BY <1>1, <1>2, <3>1 DEF DaemonTyped
    <3>6. StreamTyped'
      BY <1>1, <3>1, <3>4 DEF Types, StreamTyped
    <3>7. r.do \notin Touches
      BY <3>1, <3>3 DEF Touches
    <3>8. ASSUME NEW v \in Worktree
          PROVE  /\ Keeps(inbox, inbox', v)
                 /\ disk'[v] # None => disk'[v] = disk[v]
                 /\ mark'[v] = mark[v] \/ disk'[v] = None \/ (v = r.id /\ r.do \in Touches)
      BY <3>4, <3>5
    <3> QED BY <1>2, <3>1, <3>3, <3>5, <3>6, <3>7, <3>8, ServedKeeps
  <2> QED BY <2>1, <2>2
<1>7. CASE FindFiles(i) \/ ReadMark(i)
  BY <1>2, <1>7, ReadKeeps
<1> QED BY <1>4, <1>5, <1>6, <1>7

-----------------------------------------------------------------------------
(* The client's own steps: the daemon's state stays.                       *)

LEMMA ClientTruthful ==
    ASSUME Types, Types', Truthful, UNCHANGED daemon,
           NEW n \in Nat, Carried(calls, calls', n), n = 0 \/ ~ Valid(calls'[n]),
           \A w \in Worktree :
              \/ Keeps(inbox, inbox', w)
              \/ \A j \in DOMAIN calls' :
                    j # n /\ calls'[j].id = w /\ Valid(calls'[j]) => FetchAfter(calls', j, w)
    PROVE  Truthful'
<1>1. /\ calls \in Seq(Call) /\ calls' \in Seq(Call)
      /\ disk \in [Worktree -> Hash \cup {None}] /\ disk' \in [Worktree -> Hash \cup {None}]
      /\ disk' = disk /\ mark' = mark
  BY DEF Types, CallsTyped, DaemonTyped, daemon
<1>2. CallsOK(calls, inbox, disk, mark)
  BY DEF Truthful
<1>3. NewOK(calls', inbox', disk', mark', n)
  BY DEF NewOK
<1>4. \A w \in Worktree :
         \/ Steady(inbox, inbox', disk[w], disk'[w], mark[w], mark'[w], calls', n, w)
         \/ \A j \in DOMAIN calls' :
               j # n /\ calls'[j].id = w /\ Valid(calls'[j]) => FetchAfter(calls', j, w)
  BY <1>1 DEF Steady
<1>5. CallsOK(calls', inbox', disk', mark')
  BY <1>1, <1>2, <1>3, <1>4, CallsCarried
<1> QED BY <1>5 DEF Truthful

LEMMA ClientCopied ==
    ASSUME Types, Types', Copied, UNCHANGED daemon,
           NEW n \in Nat, Carried(calls, calls', n), n = 0 \/ ~ Valid(calls'[n]),
           \A w \in Worktree :
              /\ blame[w] \subseteq blame'[w]
              /\ blame'[w] \cap Stale = {} =>
                    \/ FetchAfter(calls', 0, w)
                    \/ /\ Keeps(inbox, inbox', w)
                       /\ FetchAfter(calls, 0, w) => FetchAfter(calls', 0, w),
           \A w \in Worktree, x \in Hash, c \in BOOLEAN :
              Held(cache', pane', current', w, x, c) =>
                 \/ FetchAfter(calls', 0, w)
                 \/ \E b \in BOOLEAN :
                    /\ Held(cache, pane, current, w, x, b)
                    /\ blame'[w] = {} /\ disk[w] # None =>
                       \/ TouchAfter(calls', 0, w)
                       \/ ToldOther(inbox', w, x)
                       \/ c = (mark[w] = x)
                       \/ c = b /\ (TouchAfter(calls, 0, w) => TouchAfter(calls', 0, w))
    PROVE  Copied'
<1>1. disk' = disk /\ mark' = mark
  BY DEF daemon
<1>2. \A w \in Worktree :
         /\ blame[w] \subseteq blame'[w]
         /\ blame'[w] \cap Stale = {} /\ disk'[w] # None =>
               Fresh(calls, calls', inbox, inbox', disk[w], disk'[w], w)
  BY <1>1 DEF Fresh
<1>3. ASSUME NEW w \in Worktree, NEW x \in Hash, NEW c \in BOOLEAN,
             Held(cache', pane', current', w, x, c)
      PROVE  \/ FetchAfter(calls', 0, w)
             \/ \E b \in BOOLEAN :
                /\ Held(cache, pane, current, w, x, b)
                /\ blame'[w] = {} /\ disk'[w] # None =>
                      Marked(calls, calls', inbox', disk[w], mark[w], mark'[w], w, x, b, c)
  BY <1>1, <1>3 DEF Marked
<1>4. n # 0 /\ Valid(calls'[n]) /\ calls'[n].do = "review" =>
         disk'[calls'[n].id] # None /\ calls'[n].hash = disk'[calls'[n].id]
  OBVIOUS
<1> QED BY <1>2, <1>3, <1>4, CopiesCarried

\* The requests after one more is sent.
LEMMA AskFacts ==
    ASSUME CallsTyped, NEW do, NEW w \in Worktree, NEW h, NEW on \in BOOLEAN,
           (do \in {"diff", "approve"} /\ h = None) \/ (do = "review" /\ h \in Hash),
           calls' = Append(calls, Ask(do, w, h, on))
    PROVE  /\ CallsTyped' /\ Len(calls) + 1 \in Nat
           /\ Carried(calls, calls', Len(calls) + 1) /\ ~ Valid(calls'[Len(calls) + 1])
           /\ \A j, v : /\ FetchAfter(calls, j, v) => FetchAfter(calls', j, v)
                        /\ TouchAfter(calls, j, v) => TouchAfter(calls', j, v)
           /\ do = "diff" =>
                 /\ FetchAfter(calls', 0, w)
                 /\ \A j \in DOMAIN calls : FetchAfter(calls', j, w)
           /\ do \in Touches => TouchAfter(calls', 0, w)
           /\ \A j \in DOMAIN calls : j \in DOMAIN calls' /\ calls'[j] = calls[j]
           /\ \A j \in DOMAIN calls' : j = Len(calls) + 1 \/ j \in DOMAIN calls
           /\ Len(calls) + 1 \in DOMAIN calls' /\ calls'[Len(calls) + 1] = Ask(do, w, h, on)
<1> DEFINE c == Ask(do, w, h, on)
           n == Len(calls) + 1
<1>1. /\ c \in Call /\ c.do = do /\ c.id = w /\ c.hash = h /\ c.at = "asked" /\ ~ Valid(c)
      /\ c.at \notin Known
  BY DEF Ask, Call, Valid, Known, Stage
<1>2. calls \in Seq(Call) /\ Answered(calls)
  BY DEF CallsTyped
<1>3. calls' = Append(calls, c)
  OBVIOUS
<1> HIDE DEF c
<1>4. /\ Append(calls, c) \in Seq(Call) /\ DOMAIN Append(calls, c) = 1 .. n
      /\ DOMAIN calls = 1 .. Len(calls) /\ Len(calls) \in Nat
      /\ \A k \in DOMAIN calls : Append(calls, c)[k] = calls[k]
      /\ Append(calls, c)[n] = c
  BY <1>1, <1>2, AppendCarried
<1>5. /\ Carried(calls, Append(calls, c), n)
      /\ \A j, v : /\ FetchAfter(calls, j, v) => FetchAfter(Append(calls, c), j, v)
                   /\ TouchAfter(calls, j, v) => TouchAfter(Append(calls, c), j, v)
  BY <1>1, <1>2, AppendCarried
<1>6. /\ n \in Nat /\ n > 0 /\ \A j \in DOMAIN calls : j # n /\ n > j /\ j \in 1 .. n
      /\ \A j \in 1 .. n : j = n \/ j \in DOMAIN calls
  BY <1>4
<1> HIDE DEF n
<1>7. /\ calls' \in Seq(Call) /\ DOMAIN calls' = 1 .. n /\ calls'[n] = c /\ n \in DOMAIN calls'
      /\ \A k \in DOMAIN calls : calls'[k] = calls[k]
  BY <1>3, <1>4, <1>6
<1>8. Answered(calls')
  <2>1. ASSUME NEW j \in DOMAIN calls',
               calls'[j].do = "review" \/ (calls'[j].do = "diff" /\ calls'[j].at \in Known)
        PROVE  calls'[j].hash \in Hash
    <3>1. CASE j = n
      BY <1>1, <1>7, <2>1, <3>1
    <3>2. CASE j # n
      BY <1>2, <1>6, <1>7, <2>1, <3>2 DEF Answered
    <3> QED BY <3>1, <3>2
  <2> QED BY <2>1 DEF Answered
<1>9. do = "diff" =>
         /\ FetchAfter(calls', 0, w)
         /\ \A j \in DOMAIN calls : FetchAfter(calls', j, w)
  BY <1>1, <1>6, <1>7 DEF FetchAfter
<1>10. do \in Touches => TouchAfter(calls', 0, w)
  BY <1>1, <1>6, <1>7 DEF TouchAfter
<1>11. /\ Carried(calls, calls', n)
       /\ \A j, v : /\ FetchAfter(calls, j, v) => FetchAfter(calls', j, v)
                    /\ TouchAfter(calls, j, v) => TouchAfter(calls', j, v)
  BY <1>3, <1>5
<1>12. CallsTyped'
  BY <1>7, <1>8 DEF CallsTyped
<1> QED BY <1>1, <1>6, <1>7, <1>9, <1>10, <1>11, <1>12 DEF n, c

\* Nothing is asked.
LEMMA SameCalls ==
    ASSUME calls' = calls
    PROVE  /\ Carried(calls, calls', 0)
           /\ \A j, v : /\ FetchAfter(calls, j, v) => FetchAfter(calls', j, v)
                        /\ TouchAfter(calls, j, v) => TouchAfter(calls', j, v)
<1>1. Faded(calls, calls')
  BY SameFacts DEF Faded
<1> QED BY <1>1, FadedCarried

LEMMA EnsureKeeps ==
    ASSUME IInv, EnsureDiff(selected', calls), UNCHANGED <<daemon, blame>>,
           \A w \in Worktree : Keeps(inbox, inbox', w),
           StreamTyped', SidebarTyped', DialogTyped', FlagsTyped'
    PROVE  IInv'
<1> DEFINE w == selected'
<1>1. /\ Types /\ Truthful /\ Copied /\ Shares /\ Open1 /\ Coming(calls)
      /\ PaneTyped /\ CacheTyped /\ CallsTyped /\ DaemonTyped' /\ BlameTyped'
      /\ None \notin Worktree /\ CacheCap \in Nat
  BY CockpitAssumption
  DEF IInv, Types, DaemonTyped, BlameTyped, daemon
<1>2. w \in Worktree \cup {None}
  BY DEF SidebarTyped, Visible
<1>3. CASE calls' = calls /\ UNCHANGED radar /\ (w = None \/ w = current)
  <2>1. Types'
    BY <1>1, <1>3 DEF Types, PaneTyped, CacheTyped, CallsTyped, radar
  <2>2. /\ Carried(calls, calls', 0)
        /\ \A j, v : /\ FetchAfter(calls, j, v) => FetchAfter(calls', j, v)
                     /\ TouchAfter(calls, j, v) => TouchAfter(calls', j, v)
    BY <1>3, SameCalls
  <2>3. Truthful'
    BY <1>1, <2>1, <2>2, ClientTruthful
  <2>4. Copied'
    <3>1. \A v \in Worktree, x \in Hash, c \in BOOLEAN :
             Held(cache', pane', current', v, x, c) => Held(cache, pane, current, v, x, c)
      BY <1>3 DEF radar
    <3> QED BY <1>1, <2>1, <2>2, <3>1, ClientCopied
  <2>5. Open1' /\ Coming(calls)' /\ Shares'
    BY <1>1, <1>3 DEF Open1, Coming, Shares, radar
  <2> QED BY <2>1, <2>3, <2>4, <2>5 DEF IInv
<1>4. CASE \E i \in Cached(w) :
              /\ w # None
              /\ current' = w /\ failed' = FALSE
              /\ cache' = Get(i)
              /\ pane' = Show(cache[i])
              /\ calls' = calls
  <2> PICK i \in Cached(w) :
         /\ w # None
         /\ current' = w /\ failed' = FALSE
         /\ cache' = Get(i)
         /\ pane' = Show(cache[i])
         /\ calls' = calls
    BY <1>4
  <2>1. i \in DOMAIN cache /\ cache[i].id = w /\ cache[i] \in Diff /\ w \in Worktree
    BY <1>1, <1>2 DEF Cached, CacheTyped
  <2>2. /\ cache' \in Seq(Diff) /\ Len(cache') <= CacheCap
        /\ \A k, l \in DOMAIN cache' : cache'[k].id = cache'[l].id => k = l
        /\ \A k \in DOMAIN cache' : \E l \in DOMAIN cache : cache'[k] = cache[l]
    BY <1>1, <2>1, GetFacts DEF CacheTyped
  <2>3. /\ pane' \in Pane /\ pane'.id = w /\ pane'.hash = cache[i].hash
        /\ pane'.on = cache[i].on /\ pane'.shared = TRUE
    BY <2>1 DEF Show, Pane, Diff
  <2>4. Types'
    <3>1. PaneTyped' /\ CacheTyped' /\ CallsTyped'
      BY <1>1, <2>1, <2>2, <2>3 DEF PaneTyped, CacheTyped, CallsTyped
    <3> QED BY <1>1, <3>1 DEF Types
  <2>5. /\ Carried(calls, calls', 0)
        /\ \A j, v : /\ FetchAfter(calls, j, v) => FetchAfter(calls', j, v)
                     /\ TouchAfter(calls, j, v) => TouchAfter(calls', j, v)
    BY SameCalls
  <2>6. Truthful'
    BY <1>1, <2>4, <2>5, ClientTruthful
  <2>7. Copied'
    <3>1. ASSUME NEW v \in Worktree, NEW x \in Hash, NEW c \in BOOLEAN,
                 Held(cache', pane', current', v, x, c)
          PROVE  Held(cache, pane, current, v, x, c)
      BY <2>1, <2>2, <2>3, <3>1 DEF Held
    <3> QED BY <1>1, <2>4, <2>5, <3>1, ClientCopied
  <2>8. Shares'
    <3>1. ASSUME NEW k \in DOMAIN cache', cache'[k].id = current'
          PROVE  cache'[k] = cache[i]
      BY <1>1, <2>1, <2>2, <3>1 DEF CacheTyped
    <3> QED BY <2>3, <3>1 DEF Shares
  <2>9. Open1' /\ Coming(calls)'
    BY <2>3 DEF Open1, Coming
  <2> QED BY <2>4, <2>6, <2>7, <2>8, <2>9 DEF IInv
<1>5. CASE /\ w # None /\ Cached(w) = {} /\ current' = w /\ failed' = FALSE
           /\ calls' = Append(calls, Ask("diff", w, None, FALSE))
           /\ UNCHANGED <<pane, cache>>
  <2>1. w \in Worktree
    BY <1>2, <1>5
  <2> DEFINE n == Len(calls) + 1
  <2>2. /\ CallsTyped' /\ n \in Nat /\ Carried(calls, calls', n) /\ ~ Valid(calls'[n])
        /\ \A j, v : /\ FetchAfter(calls, j, v) => FetchAfter(calls', j, v)
                     /\ TouchAfter(calls, j, v) => TouchAfter(calls', j, v)
        /\ FetchAfter(calls', 0, w)
    <3>1. calls' = Append(calls, Ask("diff", w, None, FALSE)) /\ FALSE \in BOOLEAN
      BY <1>5
    <3>2. ("diff" \in {"diff", "approve"} /\ None = None) \/ ("diff" = "review" /\ None \in Hash)
      OBVIOUS
    <3> QED BY <1>1, <2>1, <3>1, <3>2, AskFacts
  <2> HIDE DEF n
  <2>3. Types'
    BY <1>1, <1>5, <2>1, <2>2 DEF Types, PaneTyped, CacheTyped
  <2>4. Truthful'
    BY <1>1, <2>2, <2>3, ClientTruthful
  <2>5. Copied'
    <3>1. ASSUME NEW v \in Worktree, NEW x \in Hash, NEW c \in BOOLEAN,
                 Held(cache', pane', current', v, x, c)
          PROVE  FetchAfter(calls', 0, v) \/ Held(cache, pane, current, v, x, c)
      BY <1>5, <2>2, <3>1 DEF Held
    <3> QED BY <1>1, <2>2, <2>3, <3>1, ClientCopied
  <2>6. Shares'
    BY <1>5 DEF Shares, Cached
  <2>7. Open1' /\ Coming(calls)'
    BY <1>5, <2>2 DEF Open1, Coming
  <2> QED BY <2>3, <2>4, <2>5, <2>6, <2>7 DEF IInv
<1> QED BY <1>3, <1>4, <1>5 DEF EnsureDiff

-----------------------------------------------------------------------------
(* Events and the list.                                                    *)

LEMMA FixTyped ==
    ASSUME SidebarTyped, NEW rs \in SUBSET Worktree, NEW keep, FixSelection(rs, keep)
    PROVE  SidebarTyped'
<1>1. rows' = rs /\ hidden' = hidden /\ hidden \subseteq Worktree
  BY DEF SidebarTyped, FixSelection
<1>2. /\ selected' \in (rs \ hidden) \cup {None}
      /\ selected' = None => rs \ hidden = {}
  <2>1. CASE keep \in rs \ hidden
    BY <2>1, CockpitAssumption DEF FixSelection, Visible
  <2>2. CASE keep \notin rs \ hidden /\ rs \ hidden = {}
    BY <2>2 DEF FixSelection, Visible
  <2>3. CASE keep \notin rs \ hidden /\ rs \ hidden # {}
    BY <2>3, CockpitAssumption DEF FixSelection, Visible
  <2> QED BY <2>1, <2>2, <2>3
<1> QED BY <1>1, <1>2 DEF SidebarTyped, Visible

\* The first event is handled: no other is lost.
LEMMA TailFacts ==
    ASSUME inbox \in Seq(Event), inbox # <<>>, inbox' = Tail(inbox)
    PROVE  /\ inbox' \in Seq(Event) /\ Head(inbox) \in Event
           /\ \A w : Head(inbox).type # "diff.ready" \/ Head(inbox).id # w =>
                        Keeps(inbox, inbox', w)
           /\ \A w, g : Head(inbox).hash # g => (Told(inbox, w, g) => Told(inbox', w, g))
<1>1. /\ Len(inbox) \in Nat \ {0} /\ DOMAIN inbox = 1 .. Len(inbox)
      /\ Head(inbox) = inbox[1] /\ inbox[1] \in Event
  OBVIOUS
<1>2. /\ inbox' \in Seq(Event) /\ DOMAIN inbox' = 1 .. Len(inbox) - 1
      /\ \A j \in 1 .. Len(inbox) - 1 : inbox'[j] = inbox[j + 1]
  BY <1>1
<1>3. ASSUME NEW k \in DOMAIN inbox, k # 1
      PROVE  k - 1 \in DOMAIN inbox' /\ inbox'[k - 1] = inbox[k]
  <2>1. k - 1 \in 1 .. Len(inbox) - 1 /\ (k - 1) + 1 = k
    BY <1>1, <1>3
  <2> QED BY <1>2, <2>1
<1>4. ASSUME NEW w, NEW g, Told(inbox, w, g),
             Head(inbox) # [type |-> "diff.ready", id |-> w, hash |-> g]
      PROVE  Told(inbox', w, g)
  BY <1>1, <1>3, <1>4 DEF Told
<1>5. ASSUME NEW w, Head(inbox).type # "diff.ready" \/ Head(inbox).id # w
      PROVE  Keeps(inbox, inbox', w)
  <2>1. ASSUME NEW g PROVE Head(inbox) # [type |-> "diff.ready", id |-> w, hash |-> g]
    BY <1>5
  <2> QED BY <1>4, <2>1 DEF Keeps
<1>6. ASSUME NEW w, NEW g, Head(inbox).hash # g, Told(inbox, w, g)
      PROVE  Told(inbox', w, g)
  <2>1. Head(inbox) # [type |-> "diff.ready", id |-> w, hash |-> g]
    BY <1>6
  <2> QED BY <1>4, <1>6, <2>1
<1> QED BY <1>1, <1>2, <1>5, <1>6

\* A diff.ready of the open worktree is handled by a fetch.
LEMMA RefetchKeeps ==
    ASSUME IInv, NEW w \in Worktree, w = current,
           calls' = Append(calls, Ask("diff", w, None, FALSE)),
           UNCHANGED <<daemon, sidebar, current, failed, pane, blame>>,
           \A v \in Worktree : v # w => Keeps(inbox, inbox', v),
           StreamTyped', DialogTyped', FlagsTyped', CacheTyped',
           \A k \in DOMAIN cache' : \E l \in DOMAIN cache : cache'[k] = cache[l]
    PROVE  IInv'
<1>1. /\ Types /\ Truthful /\ Copied /\ Shares /\ Open1 /\ Coming(calls) /\ CallsTyped
      /\ DaemonTyped' /\ BlameTyped' /\ PaneTyped' /\ SidebarTyped'
  BY DEF IInv, Types, DaemonTyped, BlameTyped, PaneTyped, SidebarTyped, daemon, sidebar, Visible
<1> DEFINE n == Len(calls) + 1
<1>2. /\ CallsTyped' /\ n \in Nat /\ Carried(calls, calls', n) /\ ~ Valid(calls'[n])
      /\ \A j, v : /\ FetchAfter(calls, j, v) => FetchAfter(calls', j, v)
                   /\ TouchAfter(calls, j, v) => TouchAfter(calls', j, v)
      /\ FetchAfter(calls', 0, w)
      /\ \A j \in DOMAIN calls : FetchAfter(calls', j, w)
      /\ \A j \in DOMAIN calls' : j = n \/ j \in DOMAIN calls
  <2>1. FALSE \in BOOLEAN
    OBVIOUS
  <2>2. ("diff" \in {"diff", "approve"} /\ None = None) \/ ("diff" = "review" /\ None \in Hash)
    OBVIOUS
  <2> QED BY <1>1, <2>1, <2>2, AskFacts
<1> HIDE DEF n
<1>3. Types'
  BY <1>1, <1>2 DEF Types
<1>4. Truthful'
  <2>1. \A v \in Worktree :
           \/ Keeps(inbox, inbox', v)
           \/ \A j \in DOMAIN calls' :
                 j # n /\ calls'[j].id = v /\ Valid(calls'[j]) => FetchAfter(calls', j, v)
    BY <1>2
  <2> QED BY <1>1, <1>2, <1>3, <2>1, ClientTruthful
<1>5. Copied'
  <2>1. ASSUME NEW v \in Worktree, NEW x \in Hash, NEW c \in BOOLEAN,
               Held(cache', pane', current', v, x, c)
        PROVE  Held(cache, pane, current, v, x, c)
    BY <2>1 DEF Held
  <2>2. \A v \in Worktree :
           /\ blame[v] \subseteq blame'[v]
           /\ blame'[v] \cap Stale = {} =>
                 \/ FetchAfter(calls', 0, v)
                 \/ /\ Keeps(inbox, inbox', v)
                    /\ FetchAfter(calls, 0, v) => FetchAfter(calls', 0, v)
    BY <1>2
  <2> QED BY <1>1, <1>2, <1>3, <2>1, <2>2, ClientCopied
<1>6. Shares'
  BY <1>1 DEF Shares
<1>7. Open1' /\ Coming(calls)'
  BY <1>1, <1>2 DEF Open1, Coming, sidebar
<1> QED BY <1>3, <1>4, <1>5, <1>6, <1>7 DEF IInv

\* A diff.ready of the open worktree whose diff the cache has, as announced:
\* every copy of it is that one.
LEMMA KnownKeeps ==
    ASSUME IInv, NEW w \in Worktree, NEW h, NEW i \in Cached(w), w = current,
           cache[i].hash = h, calls' = Age(w), cache' = Get(i),
           UNCHANGED <<daemon, sidebar, current, failed, pane, blame>>,
           \A v \in Worktree : v # w => Keeps(inbox, inbox', v),
           \A g : h # g => (Told(inbox, w, g) => Told(inbox', w, g)),
           StreamTyped', DialogTyped', FlagsTyped', CacheTyped',
           \A k \in DOMAIN cache' : \E l \in DOMAIN cache : cache'[k] = cache[l]
    PROVE  IInv'
<1>1. /\ Types /\ Truthful /\ Copied /\ Shares /\ Open1 /\ Coming(calls) /\ CallsTyped
      /\ DaemonTyped' /\ BlameTyped' /\ PaneTyped' /\ SidebarTyped' /\ CacheTyped
      /\ disk' = disk /\ mark' = mark
  BY DEF IInv, Types, DaemonTyped, BlameTyped, PaneTyped, SidebarTyped, daemon, sidebar, Visible
<1>2. /\ calls' \in Seq(Call) /\ Answered(calls') /\ Faded(calls, calls')
      /\ Unanswered(calls', w)
  BY <1>1, AgeFacts
<1>3. Types'
  BY <1>1, <1>2 DEF Types, CallsTyped
<1>4. /\ Carried(calls, calls', 0)
      /\ \A j, v : /\ FetchAfter(calls, j, v) => FetchAfter(calls', j, v)
                   /\ TouchAfter(calls, j, v) => TouchAfter(calls', j, v)
  BY <1>2, FadedCarried
<1>5. Truthful'
  <2>1. \A v \in Worktree :
           \/ Keeps(inbox, inbox', v)
           \/ \A j \in DOMAIN calls' :
                 j # 0 /\ calls'[j].id = v /\ Valid(calls'[j]) => FetchAfter(calls', j, v)
    BY <1>2 DEF Unanswered
  <2> QED BY <1>1, <1>3, <1>4, <2>1, ClientTruthful
<1>6. ASSUME NEW v \in Worktree, NEW x \in Hash, NEW c \in BOOLEAN,
             Held(cache', pane', current', v, x, c)
      PROVE  Held(cache, pane, current, v, x, c)
  BY <1>6 DEF Held
<1>7. ASSUME NEW x \in Hash, NEW c \in BOOLEAN, Held(cache, pane, current, w, x, c)
      PROVE  x = h
  <2>1. i \in DOMAIN cache /\ cache[i].id = w
    BY DEF Cached
  <2>2. pane.hash = h
    BY <1>1, <2>1 DEF Shares
  <2>3. \A k \in DOMAIN cache : cache[k].id = w => k = i
    BY <1>1, <2>1 DEF CacheTyped
  <2> QED BY <1>7, <2>2, <2>3 DEF Held
<1>8. ASSUME NEW x \in Hash, NEW c \in BOOLEAN, Held(cache', pane', current', w, x, c)
      PROVE  CopyOK(calls', inbox', disk'[w], mark'[w], blame'[w], w, x, c)
  <2>1. CopyOK(calls, inbox, disk[w], mark[w], blame[w], w, x, c) /\ x = h
    BY <1>1, <1>6, <1>7, <1>8 DEF Copied, Copies
  <2>2. ToldOther(inbox, w, x) => ToldOther(inbox', w, x)
    BY <2>1 DEF ToldOther
  <2>3. \A g : Told(inbox, w, g) => g = x \/ Told(inbox', w, g)
    BY <2>1
  <2>4. \A k \in DOMAIN calls' : ~ (calls'[k].id = w /\ Valid(calls'[k]))
    BY <1>2 DEF Unanswered
  <2> QED BY <1>1, <1>4, <2>1, <2>2, <2>3, <2>4 DEF CopyOK
<1>9. ASSUME NEW v \in Worktree, v # w, NEW x \in Hash, NEW c \in BOOLEAN,
             Held(cache', pane', current', v, x, c)
      PROVE  CopyOK(calls', inbox', disk'[v], mark'[v], blame'[v], v, x, c)
  <2>1. CopyOK(calls, inbox, disk[v], mark[v], blame[v], v, x, c)
    BY <1>1, <1>6, <1>9 DEF Copied, Copies
  <2>2. Keeps(inbox, inbox', v)
    BY <1>9
  <2>3. Fresh(calls, calls', inbox, inbox', disk[v], disk[v], v)
    BY <1>4, <2>2 DEF Fresh
  <2>4. disk[v] # None => Marked(calls, calls', inbox', disk[v], mark[v], mark[v], v, x, c, c)
    BY <1>4 DEF Marked
  <2>5. disk[v] \in Hash \cup {None} /\ calls \in Seq(Call)
    BY <1>1 DEF DaemonTyped, CallsTyped
  <2> DEFINE d == disk[v]
             m == mark[v]
             f == blame[v]
  <2>6. d = disk'[v] /\ m = mark'[v] /\ f = blame'[v]
    BY <1>1
  <2> HIDE DEF d, m, f
  <2>7. CopyOK(calls', inbox', d, m, f, v, x, c)
    <3>1. /\ CopyOK(calls, inbox, d, m, f, v, x, c)
          /\ Fresh(calls, calls', inbox, inbox', d, d, v)
          /\ d # None => Marked(calls, calls', inbox', d, m, m, v, x, c, c)
          /\ d \in Hash \cup {None}
      BY <2>1, <2>3, <2>4, <2>5 DEF d, m, f
    <3> QED BY <1>2, <1>4, <2>5, <3>1, CopyCarried
  <2> QED BY <2>6, <2>7
<1>10. Copied'
  <2>1. ASSUME NEW v \in Worktree, NEW x \in Hash, NEW c \in BOOLEAN,
               Held(cache', pane', current', v, x, c)
        PROVE  CopyOK(calls', inbox', disk'[v], mark'[v], blame'[v], v, x, c)
    <3>1. CASE v = w
      BY <1>8, <2>1, <3>1
    <3>2. CASE v # w
      BY <1>9, <2>1, <3>2
    <3> QED BY <3>1, <3>2
  <2> QED BY <2>1 DEF Copied, Copies
<1>11. Shares'
  BY <1>1 DEF Shares
<1>12. Open1' /\ Coming(calls)'
  BY <1>1, <1>4 DEF Open1, Coming, sidebar
<1> QED BY <1>3, <1>5, <1>10, <1>11, <1>12 DEF IInv

LEMMA DiffReadyKeeps ==
    ASSUME IInv, NEW w \in Worktree, NEW h \in Hash, OnDiffReady(w, h),
           UNCHANGED <<daemon, up, reviewing, dialog, work>>, inbox' \in Seq(Event),
           \A v \in Worktree : v # w => Keeps(inbox, inbox', v),
           \A g : h # g => (Told(inbox, w, g) => Told(inbox', w, g))
    PROVE  IInv'
<1>1. Types /\ CallsTyped /\ BlameTyped /\ CacheTyped /\ CacheCap \in Nat
  BY CockpitAssumption DEF IInv, Types
<1>2. /\ UNCHANGED <<listing, sidebar, current, failed, pane>>
      /\ StreamTyped' /\ DialogTyped' /\ FlagsTyped'
  BY <1>1 DEF OnDiffReady, radar, Types, StreamTyped, DialogTyped, FlagsTyped
<1>3. CASE /\ w # current
           /\ blame' = Blamed(w, "ignored") /\ calls' = Age(w)
           /\ UNCHANGED <<listing, sidebar, radar>>
  <2>1. /\ BlameTyped' /\ blame'[w] = blame[w] \cup {"ignored"}
        /\ \A v \in Worktree : v # w => blame'[v] = blame[v]
    <3>1. {"ignored"} \in SUBSET Blames /\ blame' = [blame EXCEPT ![w] = @ \cup {"ignored"}]
      BY <1>3 DEF Blames, Blamed
    <3> QED BY <1>1, <3>1, BlamedTyped
  <2>2. CallsTyped' /\ Faded(calls, calls') /\ Unanswered(calls', w)
    BY <1>1, <1>3, AgeFacts DEF CallsTyped
  <2>3. Types'
    BY <1>1, <1>2, <1>3, <2>1, <2>2
    DEF Types, DaemonTyped, SidebarTyped, PaneTyped, CacheTyped, daemon, sidebar, radar, Visible
  <2>4. ASSUME NEW v \in Worktree PROVE Harmless(v)
    <3>1. CASE v = w
      BY <2>1, <2>2, <3>1 DEF Harmless, Stale
    <3>2. CASE v # w
      BY <2>1, <3>2 DEF Harmless, daemon
    <3> QED BY <3>1, <3>2
  <2> QED BY <1>3, <2>2, <2>3, <2>4, FadedKeeps
<1>4. CASE /\ w = current /\ Cached(w) = {}
           /\ calls' = Append(calls, Ask("diff", w, None, FALSE))
           /\ UNCHANGED <<listing, sidebar, radar, blame>>
  <2>1. CacheTyped' /\ \A k \in DOMAIN cache' : \E l \in DOMAIN cache : cache'[k] = cache[l]
    BY <1>1, <1>4 DEF CacheTyped, radar
  <2> QED BY <1>2, <1>4, <2>1, RefetchKeeps
<1>5. CASE \E i \in Cached(w) :
              /\ w = current
              /\ cache' = Get(i)
              /\ calls' = IF cache[i].hash = h THEN Age(w)
                          ELSE Append(calls, Ask("diff", w, None, FALSE))
              /\ UNCHANGED <<listing, sidebar, current, failed, pane, blame>>
  <2> PICK i \in Cached(w) :
              /\ w = current
              /\ cache' = Get(i)
              /\ calls' = IF cache[i].hash = h THEN Age(w)
                          ELSE Append(calls, Ask("diff", w, None, FALSE))
              /\ UNCHANGED <<listing, sidebar, current, failed, pane, blame>>
    BY <1>5
  <2>1. i \in DOMAIN cache
    BY DEF Cached
  <2>2. CacheTyped' /\ \A k \in DOMAIN cache' : \E l \in DOMAIN cache : cache'[k] = cache[l]
    BY <1>1, <2>1, GetFacts DEF CacheTyped
  <2>3. CASE cache[i].hash = h
    <3>1. calls' = Age(w)
      BY <2>3
    <3> QED BY <1>2, <2>2, <2>3, <3>1, KnownKeeps
  <2>4. CASE cache[i].hash # h
    <3>1. calls' = Append(calls, Ask("diff", w, None, FALSE))
      BY <2>4
    <3> QED BY <1>2, <2>2, <3>1, RefetchKeeps
  <2> QED BY <2>3, <2>4
<1> QED BY <1>3, <1>4, <1>5 DEF OnDiffReady

LEMMA HandleKeeps ==
    ASSUME IInv, Handle
    PROVE  IInv'
<1>1. Types /\ SidebarTyped /\ rows \subseteq Worktree /\ inbox \in Seq(Event)
      /\ selected \in Worktree \cup {None}
  BY DEF IInv, Types, SidebarTyped, StreamTyped, Visible
<1> DEFINE e == Head(inbox)
<1>2. /\ inbox' \in Seq(Event) /\ e \in Event
      /\ \A w : e.type # "diff.ready" \/ e.id # w => Keeps(inbox, inbox', w)
      /\ \A w, g : e.hash # g => (Told(inbox, w, g) => Told(inbox', w, g))
  BY <1>1, TailFacts DEF Handle
<1>3. /\ \/ e.type = "upserted" /\ OnUpserted(e.id)
         \/ e.type = "removed" /\ OnRemoved(e.id)
         \/ e.type = "diff.ready" /\ OnDiffReady(e.id, e.hash)
         \/ e.type \in {"review.changed", "snapshot"} /\ OnListed
      /\ UNCHANGED <<daemon, up, reviewing, dialog, work>>
  BY DEF Handle
<1> HIDE DEF e
<1>4. /\ e.type \in {"upserted", "removed", "diff.ready"} => e.id \in Worktree
      /\ e.type = "diff.ready" => e.hash \in Hash
  BY <1>2 DEF Event
<1>5. StreamTyped' /\ DialogTyped' /\ (listing' \in BOOLEAN => FlagsTyped')
  BY <1>1, <1>2, <1>3 DEF Types, StreamTyped, DialogTyped, FlagsTyped
<1>6. CASE e.type = "upserted" /\ OnUpserted(e.id)
  <2>1. rows \cup {e.id} \in SUBSET Worktree
    BY <1>1, <1>4, <1>6
  <2>2. SidebarTyped'
    BY <1>1, <1>6, <2>1, FixTyped DEF OnUpserted
  <2>3. FlagsTyped' /\ UNCHANGED <<daemon, blame>> /\ EnsureDiff(selected', calls)
    BY <1>1, <1>3, <1>5, <1>6 DEF OnUpserted, Types, FlagsTyped
  <2>4. \A w \in Worktree : Keeps(inbox, inbox', w)
    BY <1>2, <1>6
  <2> QED BY <1>5, <2>2, <2>3, <2>4, EnsureKeeps
<1>7. CASE e.type = "removed" /\ OnRemoved(e.id)
  <2>1. rows \ {e.id} \in SUBSET Worktree
    BY <1>1
  <2>2. SidebarTyped'
    BY <1>1, <1>7, <2>1, FixTyped DEF OnRemoved
  <2>3. FlagsTyped' /\ UNCHANGED <<daemon, blame>> /\ EnsureDiff(selected', calls)
    BY <1>1, <1>3, <1>5, <1>7 DEF OnRemoved, Types, FlagsTyped
  <2>4. \A w \in Worktree : Keeps(inbox, inbox', w)
    BY <1>2, <1>7
  <2> QED BY <1>5, <2>2, <2>3, <2>4, EnsureKeeps
<1>8. CASE e.type = "diff.ready" /\ OnDiffReady(e.id, e.hash)
  <2>1. /\ e.id \in Worktree /\ e.hash \in Hash
        /\ \A v \in Worktree : v # e.id => Keeps(inbox, inbox', v)
        /\ \A g : e.hash # g => (Told(inbox, e.id, g) => Told(inbox', e.id, g))
    BY <1>2, <1>4, <1>8
  <2> QED BY <1>2, <1>3, <1>8, <2>1, DiffReadyKeeps
<1>9. CASE e.type \in {"review.changed", "snapshot"} /\ OnListed
  <2>1. \A w \in Worktree : Keeps(inbox, inbox', w)
    BY <1>2, <1>9
  <2>2. Types'
    BY <1>1, <1>3, <1>5, <1>9
    DEF OnListed, Types, DaemonTyped, SidebarTyped, PaneTyped, CacheTyped, CallsTyped,
        BlameTyped, daemon, sidebar, radar, Visible
  <2>3. \A w \in Worktree : Harmless(w)
    <3>1. disk' = disk /\ mark' = mark /\ blame' = blame
      BY <1>3, <1>9 DEF OnListed, daemon
    <3> QED BY <2>1, <3>1 DEF Harmless
  <2>4. UNCHANGED <<sidebar, radar>> /\ Faded(calls, calls')
    BY <1>9, SameFacts DEF OnListed, Faded
  <2> QED BY <2>2, <2>3, <2>4, FadedKeeps
<1> QED BY <1>3, <1>6, <1>7, <1>8, <1>9

LEMMA ListKeeps ==
    ASSUME IInv, List
    PROVE  IInv'
<1>1. Types /\ SidebarTyped
  BY DEF IInv, Types
<1>2. Living \in SUBSET Worktree
  BY DEF Living
<1>3. SidebarTyped'
  BY <1>1, <1>2, FixTyped DEF List
<1>4. StreamTyped' /\ DialogTyped' /\ FlagsTyped'
  BY <1>1 DEF List, Types, StreamTyped, DialogTyped, FlagsTyped, stream
<1>5. \A w \in Worktree : Keeps(inbox, inbox', w)
  BY DEF List, stream, Keeps
<1>6. EnsureDiff(selected', calls) /\ UNCHANGED <<daemon, blame>>
  BY DEF List
<1> QED BY <1>3, <1>4, <1>5, <1>6, EnsureKeeps

-----------------------------------------------------------------------------
(* Keys.                                                                   *)

\* The mark of the pane is set: the cached diff of the open worktree has it too.
LEMMA SetFacts ==
    ASSUME PaneTyped, CacheTyped, Shares, pane.id # None, NEW on \in BOOLEAN,
           SetReviewed(on), UNCHANGED <<current, failed>>
    PROVE  /\ PaneTyped' /\ CacheTyped' /\ Shares'
           /\ pane.id \in Worktree /\ pane.hash \in Hash /\ pane.on \in BOOLEAN
           /\ pane'.id = pane.id /\ pane'.hash = pane.hash /\ pane'.on = on
           /\ DOMAIN cache' = DOMAIN cache
           /\ \A k \in DOMAIN cache :
                 /\ cache'[k].id = cache[k].id /\ cache'[k].hash = cache[k].hash
                 /\ cache'[k].on = IF pane.shared /\ cache[k].id = pane.id THEN on
                                   ELSE cache[k].on
<1>1. pane \in Pane
  BY DEF PaneTyped, Blank
<1>2. /\ pane' \in Pane /\ pane'.id = pane.id /\ pane'.hash = pane.hash /\ pane'.on = on
      /\ pane'.shared = pane.shared
      /\ pane.id \in Worktree /\ pane.hash \in Hash /\ pane.on \in BOOLEAN
  BY <1>1 DEF Pane, SetReviewed
<1>3. DOMAIN cache' = DOMAIN cache
  BY DEF SetReviewed
<1>4. ASSUME NEW k \in DOMAIN cache
      PROVE  /\ cache'[k] \in Diff
             /\ cache'[k].id = cache[k].id /\ cache'[k].hash = cache[k].hash
             /\ cache'[k].on = IF pane.shared /\ cache[k].id = pane.id THEN on
                               ELSE cache[k].on
  <2>1. cache[k] \in Diff
    BY DEF CacheTyped
  <2>2. cache'[k] = IF pane.shared /\ cache[k].id = pane.id
                    THEN [cache[k] EXCEPT !.on = on] ELSE cache[k]
    BY DEF SetReviewed
  <2> QED BY <2>1, <2>2 DEF Diff
<1>5. cache' \in Seq(Diff) /\ Len(cache') = Len(cache)
  <2>1. cache \in Seq(Diff) /\ DOMAIN cache = 1 .. Len(cache) /\ Len(cache) \in Nat
    BY DEF CacheTyped
  <2>2. cache' \in [1 .. Len(cache) -> Diff]
    BY <1>3, <1>4, <2>1 DEF SetReviewed
  <2> QED BY <2>1, <2>2
<1>6. CacheTyped'
  BY <1>3, <1>4, <1>5 DEF CacheTyped
<1>7. PaneTyped'
  BY <1>2 DEF PaneTyped
<1>8. Shares'
  BY <1>2, <1>3, <1>4 DEF Shares
<1> QED BY <1>2, <1>3, <1>4, <1>6, <1>7, <1>8

\* The copies after a mark was set are the copies before, but for that mark.
LEMMA SetHeld ==
    ASSUME PaneTyped, CacheTyped, Shares, pane.id # None, NEW on \in BOOLEAN,
           SetReviewed(on), UNCHANGED <<current, failed>>,
           NEW w \in Worktree, NEW x \in Hash, NEW c \in BOOLEAN,
           Held(cache', pane', current', w, x, c)
    PROVE  \E b \in BOOLEAN :
              /\ Held(cache, pane, current, w, x, b)
              /\ c = b \/ w = pane.id
              /\ w = current => w = pane.id /\ c = on
<1>1. /\ pane.on \in BOOLEAN
      /\ pane'.id = pane.id /\ pane'.hash = pane.hash /\ pane'.on = on
      /\ DOMAIN cache' = DOMAIN cache
      /\ \A k \in DOMAIN cache :
            /\ cache'[k].id = cache[k].id /\ cache'[k].hash = cache[k].hash
            /\ cache'[k].on = IF pane.shared /\ cache[k].id = pane.id THEN on
                              ELSE cache[k].on
  BY SetFacts
<1>2. CASE \E k \in DOMAIN cache' :
              cache'[k].id = w /\ cache'[k].hash = x /\ cache'[k].on = c
  <2> PICK k \in DOMAIN cache :
              cache'[k].id = w /\ cache'[k].hash = x /\ cache'[k].on = c
    BY <1>1, <1>2
  <2>1. cache[k] \in Diff
    BY DEF CacheTyped
  <2>2. cache[k].on \in BOOLEAN
    BY <2>1 DEF Diff
  <2>3. Held(cache, pane, current, w, x, cache[k].on)
    BY <1>1 DEF Held
  <2>4. c = cache[k].on \/ w = pane.id
    BY <1>1
  <2>5. w = current => w = pane.id /\ c = on
    BY <1>1 DEF Shares
  <2> QED BY <2>2, <2>3, <2>4, <2>5
<1>3. CASE w = current /\ pane'.id = w /\ pane'.hash = x /\ pane'.on = c
  <2>1. Held(cache, pane, current, w, x, pane.on)
    BY <1>1, <1>3 DEF Held
  <2> QED BY <1>1, <1>3, <2>1
<1> QED BY <1>2, <1>3 DEF Held

LEMMA ToggleKeeps ==
    ASSUME IInv, Toggle, UNCHANGED <<daemon, stream, listing>>, work' \in 0 .. MaxWork
    PROVE  IInv'
<1>1. /\ Types /\ Truthful /\ Copied /\ Shares /\ Open1 /\ Coming(calls)
      /\ PaneTyped /\ CacheTyped /\ CallsTyped /\ BlameTyped /\ SidebarTyped
      /\ selected \in Worktree \cup {None}
  BY DEF IInv, Types, SidebarTyped, Visible
<1>2. /\ selected \in Worktree /\ pane.id # None
      /\ SetReviewed(~pane.on)
      /\ calls' = Append(calls, Ask("review", selected, pane.hash, ~pane.on))
      /\ blame' = IF pane.id = selected THEN blame ELSE Blamed(pane.id, "misaimed")
      /\ UNCHANGED <<sidebar, current, failed, reviewing, dialog>>
  BY <1>1 DEF Toggle
<1> DEFINE on == ~pane.on
           n == Len(calls) + 1
<1>3. on \in BOOLEAN /\ SetReviewed(on)
  BY <1>2
<1>4. calls' = Append(calls, Ask("review", selected, pane.hash, on))
  BY <1>2
<1> HIDE DEF on
<1>5. /\ PaneTyped' /\ CacheTyped' /\ Shares'
      /\ pane.id \in Worktree /\ pane.hash \in Hash
      /\ pane'.id = pane.id
  BY <1>1, <1>2, <1>3, SetFacts
<1>6. /\ CallsTyped' /\ n \in Nat /\ Carried(calls, calls', n) /\ ~ Valid(calls'[n])
      /\ \A j, v : /\ FetchAfter(calls, j, v) => FetchAfter(calls', j, v)
                   /\ TouchAfter(calls, j, v) => TouchAfter(calls', j, v)
      /\ TouchAfter(calls', 0, selected)
  <2>1. "review" \in Touches
    BY DEF Touches
  <2>2. ("review" \in {"diff", "approve"} /\ pane.hash = None)
        \/ ("review" = "review" /\ pane.hash \in Hash)
    BY <1>5
  <2> QED BY <1>1, <1>2, <1>3, <1>4, <2>1, <2>2, AskFacts
<1> HIDE DEF n
<1>7. /\ BlameTyped' /\ \A v \in Worktree : blame[v] \subseteq blame'[v]
      /\ pane.id # selected => blame'[pane.id] # {}
  <2>1. CASE pane.id = selected
    BY <1>1, <1>2, <2>1 DEF BlameTyped
  <2>2. CASE pane.id # selected
    <3>1. {"misaimed"} \in SUBSET Blames /\ blame' = [blame EXCEPT ![pane.id] = @ \cup {"misaimed"}]
      BY <1>2, <2>2 DEF Blames, Blamed
    <3>2. /\ BlameTyped' /\ blame'[pane.id] = blame[pane.id] \cup {"misaimed"}
          /\ \A v \in Worktree : v # pane.id => blame'[v] = blame[v]
      BY <1>1, <1>5, <3>1, BlamedTyped
    <3>3. \A v \in Worktree : blame[v] \subseteq blame'[v]
      BY <3>2
    <3> QED BY <3>2, <3>3
  <2> QED BY <2>1, <2>2
<1>8. Types'
  BY <1>1, <1>2, <1>5, <1>6, <1>7
  DEF Types, DaemonTyped, StreamTyped, SidebarTyped, DialogTyped, FlagsTyped,
      daemon, stream, sidebar, Visible
<1>9. \A v \in Worktree : Keeps(inbox, inbox', v)
  BY DEF stream, Keeps
<1>10. Truthful'
  BY <1>1, <1>6, <1>8, <1>9, ClientTruthful
<1>11. Copied'
  <2>1. ASSUME NEW v \in Worktree, NEW x \in Hash, NEW c \in BOOLEAN,
               Held(cache', pane', current', v, x, c)
        PROVE  \E b \in BOOLEAN :
                  /\ Held(cache, pane, current, v, x, b)
                  /\ blame'[v] = {} /\ disk[v] # None =>
                     \/ TouchAfter(calls', 0, v)
                     \/ c = b /\ (TouchAfter(calls, 0, v) => TouchAfter(calls', 0, v))
    <3>1. \E b \in BOOLEAN :
              /\ Held(cache, pane, current, v, x, b)
              /\ c = b \/ v = pane.id
      BY <1>1, <1>2, <1>3, <2>1, SetHeld
    <3>2. v = pane.id /\ blame'[v] = {} => TouchAfter(calls', 0, v)
      BY <1>6, <1>7
    <3> QED BY <1>6, <3>1, <3>2
  <2>2. \A v \in Worktree :
           /\ blame[v] \subseteq blame'[v]
           /\ blame'[v] \cap Stale = {} =>
                 \/ FetchAfter(calls', 0, v)
                 \/ /\ Keeps(inbox, inbox', v)
                    /\ FetchAfter(calls, 0, v) => FetchAfter(calls', 0, v)
    BY <1>6, <1>7, <1>9
  <2>3. \A v \in Worktree, x \in Hash, c \in BOOLEAN :
           Held(cache', pane', current', v, x, c) =>
              \/ FetchAfter(calls', 0, v)
              \/ \E b \in BOOLEAN :
                 /\ Held(cache, pane, current, v, x, b)
                 /\ blame'[v] = {} /\ disk[v] # None =>
                    \/ TouchAfter(calls', 0, v)
                    \/ ToldOther(inbox', v, x)
                    \/ c = (mark[v] = x)
                    \/ c = b /\ (TouchAfter(calls, 0, v) => TouchAfter(calls', 0, v))
    BY <2>1
  <2> QED BY <1>1, <1>6, <1>8, <2>2, <2>3, ClientCopied
<1>12. Open1' /\ Coming(calls)'
  BY <1>1, <1>2, <1>5, <1>6 DEF Open1, Coming, sidebar
<1> QED BY <1>5, <1>8, <1>10, <1>11, <1>12 DEF IInv

LEMMA SubmitKeeps ==
    ASSUME IInv, Submit, UNCHANGED <<daemon, stream, listing>>, work' \in 0 .. MaxWork
    PROVE  IInv'
<1>1. /\ Types /\ Truthful /\ Copied /\ Shares /\ Open1 /\ Coming(calls)
      /\ CallsTyped /\ DialogTyped
  BY DEF IInv, Types
<1>2. /\ dialog.id \in Worktree /\ DialogTyped'
      /\ calls' = Append(calls, Ask("approve", dialog.id, None, FALSE))
      /\ UNCHANGED <<sidebar, radar, reviewing, blame>>
  BY <1>1 DEF Submit, Shell, DialogTyped, Dialog
<1> DEFINE n == Len(calls) + 1
<1>3. /\ CallsTyped' /\ n \in Nat /\ Carried(calls, calls', n) /\ ~ Valid(calls'[n])
      /\ \A j, v : /\ FetchAfter(calls, j, v) => FetchAfter(calls', j, v)
                   /\ TouchAfter(calls, j, v) => TouchAfter(calls', j, v)
  <2>1. ("approve" \in {"diff", "approve"} /\ None = None) \/ ("approve" = "review" /\ None \in Hash)
    OBVIOUS
  <2>2. FALSE \in BOOLEAN
    OBVIOUS
  <2> QED BY <1>1, <1>2, <2>1, <2>2, AskFacts
<1> HIDE DEF n
<1>4. Types'
  BY <1>1, <1>2, <1>3
  DEF Types, DaemonTyped, StreamTyped, SidebarTyped, PaneTyped, CacheTyped, FlagsTyped,
      BlameTyped, daemon, stream, sidebar, radar, Visible
<1>5. \A v \in Worktree : Keeps(inbox, inbox', v)
  BY DEF stream, Keeps
<1>6. Truthful'
  BY <1>1, <1>3, <1>4, <1>5, ClientTruthful
<1>7. Copied'
  <2>1. \A v \in Worktree, x \in Hash, c \in BOOLEAN :
           Held(cache', pane', current', v, x, c) => Held(cache, pane, current, v, x, c)
    BY <1>2 DEF radar
  <2>2. blame' = blame
    BY <1>2
  <2> QED BY <1>1, <1>3, <1>4, <1>5, <2>1, <2>2, ClientCopied
<1>8. Open1' /\ Coming(calls)' /\ Shares'
  BY <1>1, <1>2, <1>3 DEF Open1, Coming, Shares, sidebar, radar
<1> QED BY <1>4, <1>6, <1>7, <1>8 DEF IInv

LEMMA KeyKeeps ==
    ASSUME IInv, Key
    PROVE  IInv'
<1>1. Types /\ SidebarTyped /\ FlagsTyped /\ DialogTyped /\ StreamTyped
  BY DEF IInv, Types
<1>2. work' \in 0 .. MaxWork /\ UNCHANGED <<daemon, stream, listing>> /\ StreamTyped'
  BY <1>1, EffortTyped DEF Key, FlagsTyped, StreamTyped, stream
<1>3. \A w \in Worktree : Keeps(inbox, inbox', w)
  BY <1>2 DEF stream, Keeps
<1>4. ASSUME NEW w \in Worktree, Move(w) PROVE IInv'
  <2>1. SidebarTyped'
    BY <1>1, <1>4, CockpitAssumption DEF Move, SidebarTyped, Visible
  <2>2. /\ DialogTyped' /\ FlagsTyped' /\ EnsureDiff(selected', calls) /\ blame' = blame
    BY <1>1, <1>2, <1>4 DEF Move, DialogTyped, FlagsTyped
  <2> QED BY <1>2, <1>3, <2>1, <2>2, EnsureKeeps
<1>5. ASSUME NEW S \in SUBSET Worktree, Filter(S) PROVE IInv'
  <2>1. SidebarTyped'
    <3>1. rows' = rows /\ hidden' = S /\ rows \subseteq Worktree
      BY <1>1, <1>5 DEF Filter, SidebarTyped
    <3>2. selected' \in (rows \ S) \cup {None} /\ (selected' = None => rows \ S = {})
      <4>1. CASE selected \in rows \ S
        BY <1>1, <1>5, <4>1, CockpitAssumption DEF Filter, SidebarTyped
      <4>2. CASE selected \notin rows \ S /\ rows \subseteq S
        BY <1>5, <4>2 DEF Filter
      <4>3. CASE selected \notin rows \ S /\ ~ (rows \subseteq S)
        BY <1>1, <1>5, <4>3, CockpitAssumption DEF Filter, SidebarTyped
      <4> QED BY <4>1, <4>2, <4>3
    <3> QED BY <3>1, <3>2 DEF SidebarTyped, Visible
  <2>2. /\ DialogTyped' /\ FlagsTyped' /\ EnsureDiff(selected', calls) /\ blame' = blame
    BY <1>1, <1>2, <1>5 DEF Filter, DialogTyped, FlagsTyped
  <2> QED BY <1>2, <1>3, <2>1, <2>2, EnsureKeeps
<1>6. ASSUME UNCHANGED <<sidebar, radar, calls, blame>>, DialogTyped', reviewing' \in BOOLEAN
      PROVE  IInv'
  <2>1. Types'
    BY <1>1, <1>2, <1>6
    DEF Types, DaemonTyped, SidebarTyped, PaneTyped, CacheTyped, CallsTyped, FlagsTyped,
        BlameTyped, daemon, sidebar, radar, Visible
  <2> QED BY <1>2, <1>6, <2>1, AsideKeeps DEF Aside, stream
<1>7. CASE Review
  BY <1>1, <1>6, <1>7 DEF Review, DialogTyped, FlagsTyped
<1>8. CASE OpenApprove
  <2>1. Open(selected) \in Dialog /\ (Open(selected).id = None => Open(selected) = Closed)
    BY <1>1, <1>8 DEF OpenApprove, SidebarTyped, Visible, Open, Closed, Dialog
  <2> QED BY <1>1, <1>6, <1>8, <2>1 DEF OpenApprove, DialogTyped, FlagsTyped
<1>9. CASE Cancel
  <2>1. Closed \in Dialog
    BY DEF Closed, Dialog
  <2> QED BY <1>1, <1>6, <1>9, <2>1 DEF Cancel, DialogTyped, FlagsTyped
<1>10. CASE Toggle
  BY <1>2, <1>10, ToggleKeeps
<1>11. CASE Submit
  BY <1>2, <1>11, SubmitKeeps
<1> QED BY <1>4, <1>5, <1>7, <1>8, <1>9, <1>10, <1>11 DEF Key

-----------------------------------------------------------------------------
(* Answers.                                                                *)

\* The requests after an answer was taken, and perhaps a fetch sent.
Refetch(i) == calls' = Append(Rest(i), Ask("diff", calls[i].id, None, FALSE))

LEMMA RestTyped ==
    ASSUME CallsTyped, NEW i \in DOMAIN calls
    PROVE  Rest(i) \in Seq(Call) /\ Answered(Rest(i))
<1>1. calls \in Seq(Call) /\ Answered(calls)
  BY DEF CallsTyped
<1>2. /\ Rest(i) \in Seq(Call)
      /\ \A k \in DOMAIN Rest(i) : \E l \in DOMAIN calls :
            /\ l # i /\ calls[l].do = Rest(i)[k].do /\ calls[l].id = Rest(i)[k].id
            /\ calls[l].hash = Rest(i)[k].hash /\ calls[l].at = Rest(i)[k].at
  BY <1>1, RestCarried
<1>3. Answered(Rest(i))
  <2>1. ASSUME NEW k \in DOMAIN Rest(i),
               Rest(i)[k].do = "review" \/ (Rest(i)[k].do = "diff" /\ Rest(i)[k].at \in Known)
        PROVE  Rest(i)[k].hash \in Hash
    <3> PICK l \in DOMAIN calls :
            /\ calls[l].do = Rest(i)[k].do
            /\ calls[l].hash = Rest(i)[k].hash /\ calls[l].at = Rest(i)[k].at
      BY <1>2
    <3>1. calls[l].do = "review" \/ (calls[l].do = "diff" /\ calls[l].at \in Known)
      BY <2>1
    <3>2. calls[l].hash \in Hash
      BY <1>1, <3>1 DEF Answered
    <3> QED BY <3>2
  <2> QED BY <2>1 DEF Answered
<1> QED BY <1>2, <1>3

LEMMA LeftFacts ==
    ASSUME CallsTyped, NEW i \in DOMAIN calls, calls' = Rest(i) \/ Refetch(i)
    PROVE  /\ CallsTyped'
           /\ \E n \in Nat : Carried(calls, calls', n) /\ (n = 0 \/ ~ Valid(calls'[n]))
           /\ \A w : /\ FetchAfter(calls, i, w) => FetchAfter(calls', 0, w)
                     /\ TouchAfter(calls, i, w) => TouchAfter(calls', 0, w)
           /\ \A w : w # calls[i].id \/ calls[i].do # "diff" =>
                 (FetchAfter(calls, 0, w) => FetchAfter(calls', 0, w))
           /\ \A w : w # calls[i].id \/ calls[i].do \notin Touches =>
                 (TouchAfter(calls, 0, w) => TouchAfter(calls', 0, w))
           /\ Refetch(i) => FetchAfter(calls', 0, calls[i].id)
<1> DEFINE r == Rest(i)
           w == calls[i].id
           c == Ask("diff", w, None, FALSE)
<1>1. calls \in Seq(Call) /\ calls[i] \in Call /\ w \in Worktree
  <2>1. calls \in Seq(Call) /\ calls[i] \in Call
    BY DEF CallsTyped
  <2> QED BY <2>1 DEF Call
<1>2. /\ Carried(calls, r, 0)
      /\ \A v : /\ FetchAfter(calls, i, v) => FetchAfter(r, 0, v)
                /\ TouchAfter(calls, i, v) => TouchAfter(r, 0, v)
      /\ \A v : v # w \/ calls[i].do # "diff" =>
            (FetchAfter(calls, 0, v) => FetchAfter(r, 0, v))
      /\ \A v : v # w \/ calls[i].do \notin Touches =>
            (TouchAfter(calls, 0, v) => TouchAfter(r, 0, v))
  BY <1>1, RestCarried
<1>3. r \in Seq(Call) /\ Answered(r)
  BY RestTyped
<1>4. CASE calls' = r /\ ~ Refetch(i)
  <2>1. 0 \in Nat
    OBVIOUS
  <2> HIDE DEF r
  <2>2. \E n \in Nat : Carried(calls, calls', n) /\ (n = 0 \/ ~ Valid(calls'[n]))
    BY <1>2, <1>4, <2>1
  <2> QED BY <1>2, <1>3, <1>4, <2>2 DEF CallsTyped
<1>5. CASE Refetch(i)
  <2>1. calls' = Append(r, c)
    BY <1>5 DEF Refetch
  <2>2. c \in Call /\ c.do = "diff" /\ c.id = w /\ c.at = "asked" /\ ~ Valid(c)
    BY <1>1 DEF Ask, Call, Valid, Known, Stage
  <2> HIDE DEF r, c, w
  <2>3. /\ Append(r, c) \in Seq(Call) /\ Len(r) \in Nat
        /\ DOMAIN Append(r, c) = 1 .. Len(r) + 1 /\ DOMAIN r = 1 .. Len(r)
        /\ \A k \in DOMAIN r : Append(r, c)[k] = r[k]
        /\ Append(r, c)[Len(r) + 1] = c
        /\ Len(Append(r, c)) = Len(r) + 1
        /\ \A j, v : /\ FetchAfter(r, j, v) => FetchAfter(Append(r, c), j, v)
                     /\ TouchAfter(r, j, v) => TouchAfter(Append(r, c), j, v)
    BY <1>3, <2>2, AppendCarried
  <2> DEFINE n == Len(r) + 1
  <2>4. /\ n \in Nat /\ n > 0 /\ n # 0 /\ n \in 1 .. n
        /\ \A j \in 1 .. n : j # n => j \in 1 .. Len(r)
    BY <2>3
  <2>5. /\ calls' \in Seq(Call) /\ DOMAIN calls' = 1 .. n /\ Len(calls') = n /\ calls'[n] = c
        /\ \A k \in DOMAIN r : calls'[k] = r[k]
        /\ \A j, v : /\ FetchAfter(r, j, v) => FetchAfter(calls', j, v)
                     /\ TouchAfter(r, j, v) => TouchAfter(calls', j, v)
    BY <2>1, <2>3
  <2> HIDE DEF n
  <2>6. \A j \in DOMAIN calls' : j # n => j \in DOMAIN r /\ calls'[j] = r[j]
    BY <2>3, <2>4, <2>5
  <2>7. Carried(calls, calls', n)
    <3> PICK o : Comes(calls, r, 0, o)
      BY <1>2 DEF Carried
    <3>1. \A j \in DOMAIN r : j # 0
      BY <2>3
    <3>2. ASSUME NEW j \in DOMAIN calls', j # n
          PROVE  /\ o[j] \in DOMAIN calls /\ calls'[j].do = calls[o[j]].do
                 /\ calls'[j].id = calls[o[j]].id
                 /\ Valid(calls'[j]) =>
                    /\ Valid(calls[o[j]]) /\ Same(calls[o[j]], calls'[j])
                    /\ FetchAfter(calls, o[j], calls'[j].id) => FetchAfter(calls', j, calls'[j].id)
                    /\ TouchAfter(calls, o[j], calls'[j].id) => TouchAfter(calls', j, calls'[j].id)
      <4>1. j \in DOMAIN r /\ calls'[j] = r[j] /\ j # 0
        BY <2>6, <3>1, <3>2
      <4>2. /\ o[j] \in DOMAIN calls /\ r[j].do = calls[o[j]].do /\ r[j].id = calls[o[j]].id
            /\ Valid(r[j]) =>
               /\ Valid(calls[o[j]]) /\ Same(calls[o[j]], r[j])
               /\ FetchAfter(calls, o[j], r[j].id) => FetchAfter(r, j, r[j].id)
               /\ TouchAfter(calls, o[j], r[j].id) => TouchAfter(r, j, r[j].id)
        BY <4>1 DEF Comes
      <4> QED BY <2>5, <4>1, <4>2
    <3>3. \A j, k \in DOMAIN calls' : j # n /\ k # n /\ j < k => o[j] < o[k]
      BY <2>6, <3>1 DEF Comes
    <3>4. Comes(calls, calls', n, o)
      BY <2>5, <3>2, <3>3 DEF Comes
    <3> QED BY <3>4 DEF Carried
  <2>8. Answered(calls')
    <3>1. ASSUME NEW j \in DOMAIN calls',
                 calls'[j].do = "review" \/ (calls'[j].do = "diff" /\ calls'[j].at \in Known)
          PROVE  calls'[j].hash \in Hash
      <4>1. CASE j = n
        BY <2>2, <2>5, <3>1, <4>1 DEF Known
      <4>2. CASE j # n
        BY <1>3, <2>6, <3>1, <4>2 DEF Answered
      <4> QED BY <4>1, <4>2
    <3> QED BY <3>1 DEF Answered
  <2>9. FetchAfter(calls', 0, w)
    BY <2>2, <2>4, <2>5 DEF FetchAfter
  <2>10. CallsTyped'
    BY <2>5, <2>8 DEF CallsTyped
  <2>11. \E m \in Nat : Carried(calls, calls', m) /\ (m = 0 \/ ~ Valid(calls'[m]))
    BY <2>2, <2>4, <2>5, <2>7
  <2> QED BY <1>2, <2>5, <2>9, <2>10, <2>11 DEF w
<1> QED BY <1>4, <1>5

LEMMA OnDiffKeeps ==
    ASSUME IInv, NEW i \in DOMAIN calls, OnDiff(i),
           UNCHANGED <<daemon, stream, listing, work>>
    PROVE  IInv'
<1> DEFINE c == calls[i]
           w == c.id
           d == [id |-> w, hash |-> c.hash, on |-> c.on]
<1>1. /\ Types /\ Truthful /\ Copied /\ Shares /\ Open1 /\ Coming(calls)
      /\ PaneTyped /\ CacheTyped /\ CallsTyped /\ BlameTyped /\ DaemonTyped
      /\ calls \in Seq(Call) /\ CacheCap \in Nat \ {0}
  BY CockpitAssumption DEF IInv, Types, CallsTyped
<1>2. /\ c.do = "diff" /\ c.at \in {"ok", "unread"} /\ w \in Worktree /\ c.hash \in Hash /\ c.on \in BOOLEAN
      /\ c.old \in BOOLEAN
  <2>1. c \in Call /\ c.do = "diff" /\ c.at \in Known /\ c.at \in {"ok", "unread"}
    BY <1>1 DEF OnDiff, Known
  <2>2. c.hash \in Hash
    BY <1>1, <2>1 DEF CallsTyped, Answered
  <2> QED BY <2>1, <2>2 DEF Call
<1>3. /\ d \in Diff /\ d.id = w /\ d.hash = c.hash /\ d.on = c.on
      /\ Show(d) \in Pane /\ Show(d).id = w /\ Show(d).hash = c.hash /\ Show(d).on = c.on
      /\ Show(d).shared = TRUE
  BY <1>2 DEF Diff, Show, Pane
<1>4. /\ cache' = Put(d)
      /\ IF w = current THEN pane' = Show(d) /\ failed' = FALSE
         ELSE /\ pane' = [pane EXCEPT !.shared = @ /\ pane.id # w]
              /\ UNCHANGED failed
      /\ blame' = [blame EXCEPT ![w] = (IF c.old THEN @ \cup {"overtaken"} ELSE {})
                                       \cup (IF c.at = "unread" THEN {"unread"} ELSE {})]
      /\ calls' = Rest(i)
      /\ UNCHANGED <<sidebar, current, reviewing, dialog>>
  BY DEF OnDiff
<1> HIDE DEF d
<1>5. /\ CacheTyped'
      /\ \A k \in DOMAIN cache' :
            \/ cache'[k] = d
            \/ \E l \in DOMAIN cache : cache'[k] = cache[l] /\ cache[l].id # w
  <2>1. /\ Put(d) \in Seq(Diff) /\ Len(Put(d)) <= CacheCap
        /\ \A k, l \in DOMAIN Put(d) : Put(d)[k].id = Put(d)[l].id => k = l
        /\ \A k \in DOMAIN Put(d) :
              \/ Put(d)[k] = d
              \/ \E l \in DOMAIN cache : Put(d)[k] = cache[l] /\ cache[l].id # d.id
    BY <1>1, <1>3, PutFacts DEF CacheTyped
  <2> QED BY <1>3, <1>4, <2>1 DEF CacheTyped
<1>6. PaneTyped' /\ (w # current => /\ pane'.id = pane.id /\ pane'.hash = pane.hash
                                    /\ pane'.on = pane.on
                                    /\ pane.id # w => pane'.shared = pane.shared)
  <2>1. CASE w = current
    BY <1>1, <1>2, <1>3, <1>4, <2>1 DEF PaneTyped
  <2>2. CASE w # current /\ pane \in Pane
    <3>1. pane' = [pane EXCEPT !.shared = pane.shared /\ pane.id # w]
      BY <1>4, <2>2
    <3>2. (pane.shared /\ pane.id # w) \in BOOLEAN /\ (pane.id # w => (pane.shared /\ pane.id # w) = pane.shared)
      BY <2>2 DEF Pane
    <3> QED BY <1>1, <1>4, <2>2, <3>1, <3>2 DEF PaneTyped, Pane
  <2>3. CASE w # current /\ pane = Blank
    <3>1. pane' = Blank
      BY <1>4, <2>3 DEF Blank
    <3> QED BY <1>1, <1>4, <2>3, <3>1 DEF PaneTyped
  <2> QED BY <1>1, <2>1, <2>2, <2>3 DEF PaneTyped, Pane
<1>7. /\ CallsTyped' /\ Carried(calls, calls', 0)
      /\ \A v : /\ FetchAfter(calls, i, v) => FetchAfter(calls', 0, v)
                /\ TouchAfter(calls, i, v) => TouchAfter(calls', 0, v)
      /\ \A v : v # w =>
            /\ FetchAfter(calls, 0, v) => FetchAfter(calls', 0, v)
            /\ TouchAfter(calls, 0, v) => TouchAfter(calls', 0, v)
      /\ \A k \in DOMAIN calls' : calls'[k].id = w /\ Valid(calls'[k]) =>
            \E l \in DOMAIN calls : /\ l > i /\ Valid(calls[l])
                                    /\ calls[l].id = calls'[k].id /\ calls[l].do = calls'[k].do
                                    /\ calls[l].hash = calls'[k].hash
  <2> DEFINE r == Rest(i)
  <2>1. r \in Seq(Call) /\ Answered(r) /\ calls' = r
    BY <1>1, <1>4, RestTyped
  <2>2. /\ Carried(calls, r, 0)
        /\ \A v : /\ FetchAfter(calls, i, v) => FetchAfter(r, 0, v)
                  /\ TouchAfter(calls, i, v) => TouchAfter(r, 0, v)
        /\ \A v : v # w => (FetchAfter(calls, 0, v) => FetchAfter(r, 0, v))
        /\ \A v : v # w => (TouchAfter(calls, 0, v) => TouchAfter(r, 0, v))
    BY <1>1, RestCarried
  <2>3. \A k \in DOMAIN r : r[k].id = w /\ Valid(r[k]) =>
           \E l \in DOMAIN calls : /\ l > i /\ Valid(calls[l])
                                   /\ calls[l].id = r[k].id /\ calls[l].do = r[k].do
                                   /\ calls[l].hash = r[k].hash
    BY <1>1, RestCarried
  <2> HIDE DEF r, w
  <2> QED BY <2>1, <2>2, <2>3 DEF CallsTyped
<1>8. /\ BlameTyped'
      /\ blame'[w] = (IF c.old THEN blame[w] \cup {"overtaken"} ELSE {})
                     \cup (IF c.at = "unread" THEN {"unread"} ELSE {})
      /\ \A v \in Worktree : v # w => blame'[v] = blame[v]
  <2>1. /\ (IF c.old THEN blame[w] \cup {"overtaken"} ELSE {}) \in SUBSET Blames
        /\ (IF c.at = "unread" THEN {"unread"} ELSE {}) \in SUBSET Blames
    BY <1>1, <1>2 DEF BlameTyped, Blames
  <2> QED BY <1>1, <1>2, <1>4, <2>1 DEF BlameTyped
<1>9. Types'
  BY <1>1, <1>4, <1>5, <1>6, <1>7, <1>8
  DEF Types, DaemonTyped, StreamTyped, SidebarTyped, DialogTyped, FlagsTyped,
      daemon, stream, sidebar, Visible
<1>10. disk' = disk /\ mark' = mark /\ inbox' = inbox
  BY DEF daemon, stream
<1>11. Truthful'
  <2>1. \A v \in Worktree : Keeps(inbox, inbox', v)
    BY <1>10 DEF Keeps
  <2> QED BY <1>1, <1>7, <1>9, <2>1, ClientTruthful
<1>12. ASSUME NEW x \in Hash, NEW b \in BOOLEAN, Held(cache', pane', current', w, x, b)
       PROVE  CopyOK(calls', inbox', disk'[w], mark'[w], blame'[w], w, x, b)
  <2>1. x = c.hash /\ b = c.on
    <3>1. ASSUME NEW k \in DOMAIN cache',
                 cache'[k].id = w /\ cache'[k].hash = x /\ cache'[k].on = b
          PROVE  x = c.hash /\ b = c.on
      BY <1>3, <1>5, <3>1
    <3>2. ASSUME w = current', pane'.hash = x, pane'.on = b
          PROVE  x = c.hash /\ b = c.on
      BY <1>3, <1>4, <3>2
    <3> QED BY <1>12, <3>1, <3>2 DEF Held
  <2>2. CASE c.old
    BY <1>8, <2>2 DEF CopyOK, Stale
  <2>3. CASE ~ c.old
    <3>1. Valid(calls[i])
      BY <1>2, <2>3 DEF Valid, Known
    <3>2. FetchOK(calls, inbox, disk[w], mark[w], i)
      BY <1>1, <1>2, <3>1 DEF Truthful, CallsOK
    <3> DEFINE dw == disk[w]
               mw == mark[w]
    <3>3. /\ dw # None => x = dw \/ Told(inbox, w, dw) \/ FetchAfter(calls, i, w)
          /\ dw # None /\ blame'[w] = {} =>
                b = (mw = x) \/ ToldOther(inbox, w, x) \/ TouchAfter(calls, i, w)
          /\ \A k \in DOMAIN calls :
                k > i /\ calls[k].id = w /\ calls[k].do = "review" /\ Valid(calls[k]) =>
                   calls[k].hash = x \/ ToldOther(inbox, w, x) \/ FetchAfter(calls, i, w)
      <4>1. blame'[w] = {} => c.at = "ok"
        BY <1>2, <1>8
      <4>2. c.at = "ok" /\ Right(c, mw) => b = (mw = x)
        BY <2>1 DEF Right
      <4> QED BY <2>1, <3>2, <4>1, <4>2 DEF FetchOK
    <3>4. \A k \in DOMAIN calls' : calls'[k].id = w /\ calls'[k].do = "review" /\ Valid(calls'[k]) =>
             calls'[k].hash = x \/ ToldOther(inbox, w, x) \/ FetchAfter(calls, i, w)
      BY <1>7, <3>3
    <3>5. CopyOK(calls', inbox, dw, mw, blame'[w], w, x, b)
      BY <1>7, <3>3, <3>4 DEF CopyOK
    <3> QED BY <1>10, <3>5
  <2> QED BY <1>2, <2>2, <2>3
<1>13. ASSUME NEW v \in Worktree, v # w, NEW x \in Hash, NEW b \in BOOLEAN,
              Held(cache', pane', current', v, x, b)
       PROVE  CopyOK(calls', inbox', disk'[v], mark'[v], blame'[v], v, x, b)
  <2>1. Held(cache, pane, current, v, x, b)
    <3>1. ASSUME NEW k \in DOMAIN cache',
                 cache'[k].id = v /\ cache'[k].hash = x /\ cache'[k].on = b
          PROVE  Held(cache, pane, current, v, x, b)
      <4>1. cache'[k] # d
        BY <1>3, <1>13, <3>1
      <4> QED BY <1>5, <3>1, <4>1 DEF Held
    <3>2. ASSUME v = current', pane'.id = v, pane'.hash = x, pane'.on = b
          PROVE  Held(cache, pane, current, v, x, b)
      BY <1>4, <1>6, <1>13, <3>2 DEF Held
    <3> QED BY <1>13, <3>1, <3>2 DEF Held
  <2> DEFINE e == disk[v]
             m == mark[v]
             f == blame[v]
  <2>2. e = disk'[v] /\ m = mark'[v] /\ f = blame'[v]
    BY <1>8, <1>10, <1>13
  <2>3. CopyOK(calls, inbox, e, m, f, v, x, b) /\ e \in Hash \cup {None}
    BY <1>1, <2>1 DEF Copied, Copies, DaemonTyped
  <2> HIDE DEF e, m, f
  <2>4. Fresh(calls, calls', inbox, inbox', e, e, v)
    BY <1>7, <1>10, <1>13 DEF Fresh, Keeps
  <2>5. e # None => Marked(calls, calls', inbox', e, m, m, v, x, b, b)
    BY <1>7, <1>13 DEF Marked
  <2>6. calls \in Seq(Call) /\ calls' \in Seq(Call)
    BY <1>1, <1>7 DEF CallsTyped
  <2>7. CopyOK(calls', inbox', e, m, f, v, x, b)
    BY <1>7, <2>3, <2>4, <2>5, <2>6, CopyCarried
  <2> QED BY <2>2, <2>7
<1>14. Copied'
  <2>1. ASSUME NEW v \in Worktree, NEW x \in Hash, NEW b \in BOOLEAN,
               Held(cache', pane', current', v, x, b)
        PROVE  CopyOK(calls', inbox', disk'[v], mark'[v], blame'[v], v, x, b)
    <3>1. CASE v = w
      BY <1>12, <2>1, <3>1
    <3>2. CASE v # w
      BY <1>13, <2>1, <3>2
    <3> QED BY <3>1, <3>2
  <2> QED BY <2>1 DEF Copied, Copies
<1>15. Shares'
  <2>1. ASSUME NEW k \in DOMAIN cache', cache'[k].id = current'
        PROVE  /\ pane'.id = current' /\ pane'.shared
               /\ pane'.hash = cache'[k].hash /\ pane'.on = cache'[k].on
    <3>1. CASE w = current
      <4>1. cache'[k] = d
        BY <1>4, <1>5, <2>1, <3>1
      <4> QED BY <1>3, <1>4, <3>1, <4>1
    <3>2. CASE w # current
      <4>1. cache'[k] # d
        BY <1>3, <1>4, <2>1, <3>2
      <4> QED BY <1>1, <1>4, <1>5, <1>6, <2>1, <3>2, <4>1 DEF Shares
    <3> QED BY <3>1, <3>2
  <2> QED BY <2>1 DEF Shares
<1>16. Open1' /\ Coming(calls)'
  <2>1. Coming(calls)'
    <3>1. CASE w = current
      BY <1>3, <1>4, <3>1 DEF Coming
    <3>2. CASE w # current
      BY <1>1, <1>4, <1>6, <1>7, <3>2 DEF Coming
    <3> QED BY <3>1, <3>2
  <2> QED BY <1>1, <1>4, <2>1 DEF Open1, sidebar
<1> QED BY <1>9, <1>11, <1>14, <1>15, <1>16 DEF IInv

LEMMA OnDiffFailedKeeps ==
    ASSUME IInv, NEW i \in DOMAIN calls, OnDiffFailed(i),
           UNCHANGED <<daemon, stream, listing, work>>
    PROVE  IInv'
<1> DEFINE w == calls[i].id
<1>1. /\ Types /\ Truthful /\ Copied /\ Shares /\ Open1 /\ Coming(calls)
      /\ PaneTyped /\ CallsTyped /\ BlameTyped
  BY DEF IInv, Types
<1>2. /\ w \in Worktree
      /\ failed' = (failed \/ w = current)
      /\ blame' = [blame EXCEPT ![w] = @ \cup {"failed"}]
      /\ calls' = Rest(i)
      /\ UNCHANGED <<sidebar, current, pane, cache, reviewing, dialog>>
  <2>1. calls[i] \in Call
    BY <1>1 DEF CallsTyped
  <2> QED BY <2>1 DEF OnDiffFailed, Blamed, Call
<1>3. /\ CallsTyped'
      /\ \E n \in Nat : Carried(calls, calls', n) /\ (n = 0 \/ ~ Valid(calls'[n]))
      /\ \A v : v # w =>
            /\ FetchAfter(calls, 0, v) => FetchAfter(calls', 0, v)
            /\ TouchAfter(calls, 0, v) => TouchAfter(calls', 0, v)
  BY <1>1, <1>2, LeftFacts
<1>4. /\ BlameTyped' /\ blame'[w] = blame[w] \cup {"failed"}
      /\ \A v \in Worktree : v # w => blame'[v] = blame[v]
  <2>1. {"failed"} \in SUBSET Blames
    BY DEF Blames
  <2> QED BY <1>1, <1>2, <2>1, BlamedTyped
<1> HIDE DEF w
<1>5. Types'
  BY <1>1, <1>2, <1>3, <1>4
  DEF Types, DaemonTyped, StreamTyped, SidebarTyped, PaneTyped, CacheTyped, DialogTyped,
      FlagsTyped, daemon, stream, sidebar, Visible
<1>6. \A v \in Worktree : Keeps(inbox, inbox', v)
  BY DEF stream, Keeps
<1> PICK n \in Nat : Carried(calls, calls', n) /\ (n = 0 \/ ~ Valid(calls'[n]))
  BY <1>3
<1>7. Truthful'
  BY <1>1, <1>5, <1>6, ClientTruthful
<1>8. Copied'
  <2>1. \A v \in Worktree, x \in Hash, c \in BOOLEAN :
           Held(cache', pane', current', v, x, c) => Held(cache, pane, current, v, x, c)
    BY <1>2
  <2>2. blame'[w] \cap Stale # {} /\ blame'[w] # {}
    BY <1>4 DEF Stale
  <2>3. \A v \in Worktree :
           /\ blame[v] \subseteq blame'[v]
           /\ blame'[v] \cap Stale = {} =>
                 \/ FetchAfter(calls', 0, v)
                 \/ /\ Keeps(inbox, inbox', v)
                    /\ FetchAfter(calls, 0, v) => FetchAfter(calls', 0, v)
    BY <1>3, <1>4, <1>6, <2>2
  <2>4. \A v \in Worktree : blame'[v] = {} =>
           (TouchAfter(calls, 0, v) => TouchAfter(calls', 0, v))
    BY <1>3, <2>2
  <2> QED BY <1>1, <1>5, <2>1, <2>3, <2>4, ClientCopied
<1>9. Open1' /\ Shares'
  BY <1>1, <1>2 DEF Open1, Shares, sidebar
<1>10. Coming(calls)'
  BY <1>1, <1>2, <1>3 DEF Coming, PaneTyped
<1> QED BY <1>5, <1>7, <1>8, <1>9, <1>10 DEF IInv

\* The answer of an approve, which is no copy's business.
LEMMA ApproveAnswerKeeps ==
    ASSUME IInv, NEW i \in DOMAIN calls, calls[i].do = "approve", calls' = Rest(i),
           UNCHANGED <<daemon, stream, listing, work, sidebar, radar, blame>>,
           DialogTyped', reviewing' \in BOOLEAN
    PROVE  IInv'
<1>1. /\ Types /\ Truthful /\ Copied /\ Shares /\ Open1 /\ Coming(calls)
      /\ CallsTyped /\ BlameTyped
  BY DEF IInv, Types
<1>2. /\ CallsTyped'
      /\ \E n \in Nat : Carried(calls, calls', n) /\ (n = 0 \/ ~ Valid(calls'[n]))
      /\ \A v : /\ FetchAfter(calls, 0, v) => FetchAfter(calls', 0, v)
                /\ TouchAfter(calls, 0, v) => TouchAfter(calls', 0, v)
  BY <1>1, LeftFacts DEF Touches
<1>3. Types'
  BY <1>1, <1>2
  DEF Types, DaemonTyped, StreamTyped, SidebarTyped, PaneTyped, CacheTyped,
      FlagsTyped, BlameTyped, daemon, stream, sidebar, radar, Visible
<1>4. \A v \in Worktree : Keeps(inbox, inbox', v)
  BY DEF stream, Keeps
<1> PICK n \in Nat : Carried(calls, calls', n) /\ (n = 0 \/ ~ Valid(calls'[n]))
  BY <1>2
<1>5. Truthful'
  BY <1>1, <1>3, <1>4, ClientTruthful
<1>6. Copied'
  <2>1. \A v \in Worktree, x \in Hash, c \in BOOLEAN :
           Held(cache', pane', current', v, x, c) => Held(cache, pane, current, v, x, c)
    BY DEF radar
  <2>2. blame' = blame
    OBVIOUS
  <2> QED BY <1>1, <1>2, <1>3, <1>4, <2>1, <2>2, ClientCopied
<1>7. Open1' /\ Coming(calls)' /\ Shares'
  BY <1>1, <1>2 DEF Open1, Coming, Shares, sidebar, radar
<1> QED BY <1>3, <1>5, <1>6, <1>7 DEF IInv

\* The answer of a toggle: what is on the screen becomes what it says, or
\* something befell it, or a fetch is sent.
LEMMA ToggleAnswerKeeps ==
    ASSUME IInv, NEW i \in DOMAIN calls, calls[i].do = "review", NEW on \in BOOLEAN,
           NEW why \in SUBSET Blames,
           IF calls[i].id = current /\ pane.id # None THEN SetReviewed(on)
           ELSE UNCHANGED <<pane, cache>>,
           blame' = Misapplied(calls[i], why), calls' = Rest(i) \/ Refetch(i),
           UNCHANGED <<daemon, stream, listing, work, sidebar, current, failed, reviewing, dialog>>,
           \/ Refetch(i)
           \/ why \cap Stale # {}
           \/ Valid(calls[i]) /\ on = calls[i].on
    PROVE  IInv'
<1> DEFINE c == calls[i]
           w == c.id
<1>1. /\ Types /\ Truthful /\ Copied /\ Shares /\ Open1 /\ Coming(calls)
      /\ PaneTyped /\ CacheTyped /\ CallsTyped /\ BlameTyped /\ None \notin Worktree
  BY CockpitAssumption DEF IInv, Types
<1>2. w \in Worktree
  <2>1. c \in Call
    BY <1>1 DEF CallsTyped
  <2> QED BY <2>1 DEF Call
<1>3. /\ CallsTyped'
      /\ \E n \in Nat : Carried(calls, calls', n) /\ (n = 0 \/ ~ Valid(calls'[n]))
      /\ \A v : /\ FetchAfter(calls, i, v) => FetchAfter(calls', 0, v)
                /\ TouchAfter(calls, i, v) => TouchAfter(calls', 0, v)
      /\ \A v : FetchAfter(calls, 0, v) => FetchAfter(calls', 0, v)
      /\ \A v : v # w => (TouchAfter(calls, 0, v) => TouchAfter(calls', 0, v))
      /\ Refetch(i) => FetchAfter(calls', 0, w)
  BY <1>1, LeftFacts
<1>4. \A v \in Worktree :
         blame'[v] = blame[v] \cup (IF v = w THEN why ELSE {})
                              \cup (IF v = w /\ v # current THEN {"unheard"} ELSE {})
                              \cup (IF v = pane.id /\ w = current /\ v # w
                                    THEN {"misapplied"} ELSE {})
  BY DEF Misapplied
<1>5. BlameTyped'
  <2>1. {"unheard"} \in SUBSET Blames /\ {"misapplied"} \in SUBSET Blames
    BY DEF Blames
  <2> QED BY <1>1, <1>4, <2>1 DEF BlameTyped, Misapplied
<1>6. \A v \in Worktree : blame[v] \subseteq blame'[v]
  BY <1>4
<1>7. why \subseteq blame'[w]
  BY <1>2, <1>4
<1>8. PaneTyped' /\ CacheTyped' /\ Shares' /\ pane'.id = pane.id
  <2>1. CASE w = current /\ pane.id # None
    BY <1>1, <2>1, SetFacts
  <2>2. CASE ~ (w = current /\ pane.id # None)
    BY <1>1, <2>2 DEF PaneTyped, CacheTyped, Shares
  <2> QED BY <2>1, <2>2
<1>9. Types'
  BY <1>1, <1>3, <1>5, <1>8
  DEF Types, DaemonTyped, StreamTyped, SidebarTyped, DialogTyped, FlagsTyped,
      daemon, stream, sidebar, Visible
<1>10. \A v \in Worktree : Keeps(inbox, inbox', v)
  BY DEF stream, Keeps
<1> PICK n \in Nat : Carried(calls, calls', n) /\ (n = 0 \/ ~ Valid(calls'[n]))
  BY <1>3
<1>11. Truthful'
  BY <1>1, <1>9, <1>10, ClientTruthful
<1>12. ASSUME NEW x \in Hash, NEW b \in BOOLEAN, Held(cache, pane, current, w, x, b),
              blame'[w] = {}, disk[w] # None, ~ FetchAfter(calls', 0, w),
              ToldOther(inbox, w, x) => ToldOther(inbox', w, x)
       PROVE  \/ TouchAfter(calls', 0, w)
              \/ ToldOther(inbox', w, x)
              \/ on = (mark[w] = x)
  <2>1. Valid(c) /\ on = c.on /\ blame[w] = {}
    BY <1>2, <1>3, <1>6, <1>7, <1>12
  <2>2. CopyOK(calls, inbox, disk[w], mark[w], blame[w], w, x, b)
    BY <1>1, <1>2, <1>12 DEF Copied, Copies
  <2>3. c.hash = x \/ ToldOther(inbox, w, x)
    <3>1. ~ FetchAfter(calls, 0, w)
      BY <1>3, <1>12
    <3> QED BY <1>12, <2>1, <2>2, <3>1 DEF CopyOK
  <2>4. ToggleOK(calls, disk[w], mark[w], i)
    BY <1>1, <2>1 DEF Truthful, CallsOK
  <2>5. c.on = (mark[w] = c.hash) \/ TouchAfter(calls, i, w)
    BY <1>12, <2>4 DEF ToggleOK
  <2> QED BY <1>3, <1>12, <2>1, <2>3, <2>5
<1>13. ASSUME NEW v \in Worktree, NEW x \in Hash, NEW d \in BOOLEAN,
              Held(cache', pane', current', v, x, d)
       PROVE  \/ FetchAfter(calls', 0, v)
              \/ \E b \in BOOLEAN :
                 /\ Held(cache, pane, current, v, x, b)
                 /\ blame'[v] = {} /\ disk[v] # None =>
                    \/ TouchAfter(calls', 0, v)
                    \/ ToldOther(inbox', v, x)
                    \/ d = (mark[v] = x)
                    \/ d = b /\ (TouchAfter(calls, 0, v) => TouchAfter(calls', 0, v))
  <2>1. CASE w = current /\ pane.id # None
    <3> PICK b \in BOOLEAN :
              /\ Held(cache, pane, current, v, x, b)
              /\ d = b \/ v = pane.id
              /\ v = current => v = pane.id /\ d = on
      BY <1>1, <1>13, <2>1, SetHeld
    <3>1. CASE v = w
      <4>1. ToldOther(inbox, w, x) => ToldOther(inbox', w, x)
        BY DEF stream
      <4>2. d = on /\ Held(cache, pane, current, w, x, b)
        BY <2>1, <3>1
      <4> QED BY <1>12, <3>1, <4>1, <4>2
    <3>2. CASE v # w
      <4>1. v = pane.id => blame'[v] # {}
        BY <1>4, <2>1, <3>2
      <4> QED BY <1>3, <3>2, <4>1
    <3> QED BY <3>1, <3>2
  <2>2. CASE ~ (w = current /\ pane.id # None)
    <3>1. Held(cache, pane, current, v, x, d)
      BY <1>13, <2>2
    <3>2. CASE v = w /\ w # current
      BY <1>4, <3>1, <3>2
    <3>3. CASE v = w /\ w = current
      <4>1. pane.id = w
        BY <1>1, <3>1, <3>3 DEF Held, Shares
      <4> QED BY <1>1, <1>2, <2>2, <3>3, <4>1
    <3>4. CASE v # w
      BY <1>3, <3>1, <3>4
    <3> QED BY <3>2, <3>3, <3>4
  <2> QED BY <2>1, <2>2
<1>14. Copied'
  <2>1. \A v \in Worktree :
           /\ blame[v] \subseteq blame'[v]
           /\ blame'[v] \cap Stale = {} =>
                 \/ FetchAfter(calls', 0, v)
                 \/ /\ Keeps(inbox, inbox', v)
                    /\ FetchAfter(calls, 0, v) => FetchAfter(calls', 0, v)
    BY <1>3, <1>6, <1>10
  <2> QED BY <1>1, <1>9, <1>13, <2>1, ClientCopied
<1>15. Open1' /\ Coming(calls)'
  BY <1>1, <1>3, <1>8 DEF Open1, Coming, sidebar
<1> QED BY <1>8, <1>9, <1>11, <1>14, <1>15 DEF IInv

LEMMA AnswerKeeps ==
    ASSUME IInv, Answer
    PROVE  IInv'
<1> PICK i \in DOMAIN calls :
          OnDiff(i) \/ OnDiffFailed(i) \/ OnReviewed(i) \/ OnReviewRefused(i)
             \/ OnApproved(i) \/ OnApproveRefused(i)
  BY DEF Answer
<1>1. UNCHANGED <<daemon, stream, listing, work>>
  BY DEF Answer
<1>2. /\ DialogTyped /\ FlagsTyped /\ PaneTyped
      /\ calls[i] \in Call /\ calls[i].on \in BOOLEAN /\ calls[i].id \in Worktree
  <2>1. calls[i] \in Call
    BY DEF IInv, Types, CallsTyped
  <2> QED BY <2>1 DEF IInv, Types, Call
<1>3. CASE OnDiff(i)
  BY <1>1, <1>3, OnDiffKeeps
<1>4. CASE OnDiffFailed(i)
  BY <1>1, <1>4, OnDiffFailedKeeps
<1>5. CASE OnReviewed(i)
  <2> DEFINE why == IF calls[i].old THEN {"overtaken"} ELSE {}
  <2>1. /\ calls[i].do = "review" /\ calls[i].at = "ok"
        /\ IF calls[i].id = current /\ pane.id # None THEN SetReviewed(calls[i].on)
           ELSE UNCHANGED <<pane, cache>>
        /\ blame' = Misapplied(calls[i], why)
        /\ calls' = Rest(i)
        /\ UNCHANGED <<sidebar, current, failed, reviewing, dialog>>
    BY <1>5 DEF OnReviewed
  <2>2. why \in SUBSET Blames /\ (why \cap Stale # {} \/ Valid(calls[i]))
    BY <1>2, <2>1 DEF Blames, Stale, Valid, Known, Call
  <2> HIDE DEF why
  <2> QED BY <1>1, <1>2, <2>1, <2>2, ToggleAnswerKeeps
<1>6. CASE OnReviewRefused(i)
  <2> DEFINE why == IF calls[i].at = "failed" THEN {"failed"} ELSE {}
             on == ~calls[i].on
  <2>1. /\ calls[i].do = "review"
        /\ IF calls[i].id = current /\ pane.id # None THEN SetReviewed(on)
           ELSE UNCHANGED <<pane, cache>>
        /\ blame' = Misapplied(calls[i], why)
        /\ calls' = Rest(i) \/ Refetch(i)
        /\ UNCHANGED <<sidebar, current, failed, reviewing, dialog>>
    BY <1>6 DEF OnReviewRefused, Refetch
  <2>2. why \in SUBSET Blames /\ (why \cap Stale # {} \/ Refetch(i))
    BY <1>6 DEF OnReviewRefused, Refetch, Blames, Stale
  <2>3. on \in BOOLEAN
    BY <1>2
  <2> HIDE DEF why, on
  <2> QED BY <1>1, <2>1, <2>2, <2>3, ToggleAnswerKeeps
<1>7. CASE OnApproved(i)
  <2>1. DialogTyped' /\ reviewing' \in BOOLEAN
    BY <1>7 DEF OnApproved, DialogTyped, Dialog, Closed
  <2> QED BY <1>1, <1>7, <2>1, ApproveAnswerKeeps DEF OnApproved
<1>8. CASE OnApproveRefused(i)
  <2>1. DialogTyped'
    <3>1. CASE dialog.id = None
      BY <1>2, <1>8, <3>1 DEF OnApproveRefused, DialogTyped
    <3>2. CASE dialog.id # None
      <4>1. dialog' = [dialog EXCEPT !.submitting = FALSE, !.error = calls[i].id]
        BY <1>8, <3>2 DEF OnApproveRefused
      <4> QED BY <1>2, <3>2, <4>1 DEF DialogTyped, Dialog
    <3> QED BY <3>1, <3>2
  <2>2. reviewing' \in BOOLEAN
    BY <1>2, <1>8 DEF OnApproveRefused, FlagsTyped
  <2> QED BY <1>1, <1>8, <2>1, <2>2, ApproveAnswerKeeps DEF OnApproveRefused
<1> QED BY <1>3, <1>4, <1>5, <1>6, <1>7, <1>8

-----------------------------------------------------------------------------
(* The specification.                                                      *)

LEMMA InitHolds == Init => IInv
<1> SUFFICES ASSUME Init PROVE IInv
  OBVIOUS
<1>1. Types
  <2>1. DaemonTyped /\ BlameTyped
    BY DEF Init, DaemonTyped, BlameTyped
  <2>2. /\ up \in BOOLEAN /\ listing \in BOOLEAN /\ failed \in BOOLEAN
        /\ reviewing \in BOOLEAN
    BY Zenon DEF Init
  <2>3. inbox \in Seq(Event) /\ work \in 0 .. MaxWork
    BY CockpitAssumption DEF Init
  <2>4. current \in Worktree \cup {None} /\ pane = Blank
    BY Zenon DEF Init
  <2>5. StreamTyped /\ SidebarTyped /\ PaneTyped
    BY <2>2, <2>3, <2>4 DEF Init, StreamTyped, SidebarTyped, PaneTyped, Visible
  <2>6. CacheTyped
    BY CockpitAssumption DEF Init, CacheTyped
  <2>7. DialogTyped
    BY DEF Init, DialogTyped, Closed, Dialog
  <2>8. CallsTyped
    BY DEF Init, CallsTyped, Answered
  <2>9. FlagsTyped
    BY <2>2, <2>3 DEF FlagsTyped
  <2> QED BY <2>1, <2>5, <2>6, <2>7, <2>8, <2>9 DEF Types
<1>2. Open1 /\ Coming(calls) /\ Shares
  BY DEF Init, Open1, Coming, Shares
<1>3. Truthful
  BY DEF Init, Truthful, CallsOK
<1>4. Copied
  BY CockpitAssumption DEF Init, Copied, Copies, Held
<1> QED BY <1>1, <1>2, <1>3, <1>4 DEF IInv

LEMMA NextKeeps ==
    ASSUME IInv, [Next]_vars
    PROVE  IInv'
<1>1. CASE UNCHANGED vars
  <2>1. Types'
    BY <1>1
    DEF IInv, vars, Types, DaemonTyped, StreamTyped, SidebarTyped, PaneTyped, CacheTyped,
        DialogTyped, CallsTyped, FlagsTyped, BlameTyped, Visible, daemon, stream, sidebar, radar
  <2> QED BY <1>1, <2>1, AsideKeeps DEF vars, Aside, stream
<1>2. CASE Outside
  BY <1>2, EditKeeps, ForgetKeeps, ToggleElsewhereKeeps, FailKeeps, UnreadMarkKeeps, DisconnectKeeps,
     FailListKeeps DEF Outside
<1>3. CASE Serve
  BY <1>3, ServeKeeps
<1>4. CASE Connect
  BY <1>4, ConnectKeeps
<1>5. CASE Handle
  BY <1>5, HandleKeeps
<1>6. CASE List
  BY <1>6, ListKeeps
<1>7. CASE Answer
  BY <1>7, AnswerKeeps
<1>8. CASE Key
  BY <1>8, KeyKeeps
<1> QED BY <1>1, <1>2, <1>3, <1>4, <1>5, <1>6, <1>7, <1>8 DEF Next

\* The inductive invariant holds of every behaviour: whatever copy of a diff
\* the client holds, and whatever answer is on its way to it, is the daemon's,
\* or an event not yet handled or a request under way will correct it, or one of
\* the accidents of Blames befell it.
THEOREM Invariant == Spec => []IInv
<1>1. IInv /\ [Next]_vars => IInv'
  BY NextKeeps
<1> QED BY <1>1, InitHolds, PTL DEF Spec

\* Nothing is under way: no event and no request will correct anything.
LEMMA QuietFacts ==
    ASSUME Quiet
    PROVE  /\ \A w, h : ~ Told(inbox, w, h) /\ ~ ToldOther(inbox, w, h)
           /\ \A j, w : ~ FetchAfter(calls, j, w) /\ ~ TouchAfter(calls, j, w)
BY DEF Quiet, Told, ToldOther, FetchAfter, TouchAfter

\* "loading diff" never stays on the screen: whenever no event, list or request
\* is under way, the selected worktree's diff or an error is shown
\* (ensureDiff, applyDiffMsg and applyDiffErrMsg in radar.go).
THEOREM NeverStuckSound == Spec => []NeverStuck
<1>1. IInv => NeverStuck
  <2> SUFFICES ASSUME IInv PROVE NeverStuck
    OBVIOUS
  <2>1. TypeOK
    BY TypesGive DEF IInv
  <2>2. Quiet /\ selected # None => failed \/ pane.id = selected
    BY QuietFacts DEF IInv, Open1, Coming
  <2> QED BY <2>1, <2>2 DEF NeverStuck
<1> QED BY <1>1, Invariant, PTL

\* What is on the screen, when it is the selected worktree's diff, is a copy
\* the invariant speaks of.
LEMMA ShownFacts ==
    ASSUME IInv, Quiet, Shown
    PROVE  /\ blame[selected] \cap Stale = {} => pane.hash = disk[selected]
           /\ blame[selected] = {} => pane.on = (mark[selected] = pane.hash)
<1>1. /\ selected \in Worktree /\ disk[selected] # None /\ pane.id = selected
      /\ selected # None /\ current = selected
  BY CockpitAssumption DEF Shown, Living, IInv, Open1
<1>2. pane.hash \in Hash /\ pane.on \in BOOLEAN
  BY <1>1 DEF IInv, Types, PaneTyped, Blank, Pane
<1>3. Held(cache, pane, current, selected, pane.hash, pane.on)
  BY <1>1 DEF Held
<1>4. CopyOK(calls, inbox, disk[selected], mark[selected], blame[selected],
             selected, pane.hash, pane.on)
  BY <1>1, <1>2, <1>3 DEF IInv, Copied, Copies
<1> QED BY <1>1, <1>4, QuietFacts DEF CopyOK

\* Whenever nothing is under way the diff on the screen is the daemon's, unless
\* its diff.ready was ignored or lost, a request failed, or an answer came out
\* of order (applyDiffReady, applyDiffMsg and ensureDiff in radar.go).
THEOREM PaneFreshSound == Spec => []PaneFresh
<1>1. IInv => PaneFresh
  BY ShownFacts DEF PaneFresh, Stale
<1> QED BY <1>1, Invariant, PTL

\* Whenever nothing is under way the mark on the screen is the daemon's, unless
\* an accident of Blames befell it: a toggle shown before it is confirmed, one
\* refused, and one that crosses a fetch or an edit all end right
\* (applyReviewOK and applyReviewErr in radar.go).
THEOREM MarkAgreesSound == Spec => []MarkAgrees
<1>1. IInv => MarkAgrees
  <2> SUFFICES ASSUME IInv, Quiet, Shown, blame[selected] = {}
               PROVE  pane.on = (mark[selected] = disk[selected])
    BY DEF MarkAgrees
  <2>1. blame[selected] \cap Stale = {}
    OBVIOUS
  <2> QED BY <2>1, ShownFacts
<1> QED BY <1>1, Invariant, PTL

-----------------------------------------------------------------------------
(* The approve dialog.                                                     *)

\* Every request is still under way after the step, served or not.
Remain(s, t) ==
    \A k \in DOMAIN s : \E l \in DOMAIN t : t[l].do = s[k].do /\ t[l].id = s[k].id

LEMMA RemainKeeps ==
    ASSUME ApprovingIsTrue, dialog' = dialog, Remain(calls, calls')
    PROVE  ApprovingIsTrue'
BY DEF ApprovingIsTrue, Remain

LEMMA FadedRemain ==
    ASSUME Faded(calls, calls')
    PROVE  Remain(calls, calls')
BY DEF Faded, Remain

LEMMA ServedRemain ==
    ASSUME calls \in Seq(Call), NEW i \in DOMAIN calls, NEW r \in Call,
           r.do = calls[i].do, r.id = calls[i].id, Served(i, r)
    PROVE  Remain(calls, calls')
<1>1. \A k \in DOMAIN calls : \E l \in DOMAIN calls' :
         calls'[l].do = calls[k].do /\ calls'[l].id = calls[k].id
  BY ServedCarried
<1> QED BY <1>1 DEF Remain

LEMMA ReplacedRemain ==
    ASSUME NEW i \in DOMAIN calls, NEW c, c.do = calls[i].do, c.id = calls[i].id,
           calls' = [calls EXCEPT ![i] = c]
    PROVE  Remain(calls, calls')
<1>1. DOMAIN calls' = DOMAIN calls
  OBVIOUS
<1>2. \A k \in DOMAIN calls : calls'[k] = IF k = i THEN c ELSE calls[k]
  OBVIOUS
<1> QED BY <1>1, <1>2 DEF Remain

LEMMA AskRemain ==
    ASSUME CallsTyped, NEW c, calls' = Append(calls, c)
    PROVE  /\ Remain(calls, calls')
           /\ \E l \in DOMAIN calls' : calls'[l] = c
<1>1. /\ calls \in Seq(Call) /\ Len(calls) \in Nat /\ DOMAIN calls = 1 .. Len(calls)
  BY DEF CallsTyped
<1>2. /\ DOMAIN calls' = 1 .. Len(calls) + 1
      /\ \A k \in 1 .. Len(calls) : calls'[k] = calls[k]
      /\ calls'[Len(calls) + 1] = c
  BY <1>1
<1>3. Len(calls) + 1 \in DOMAIN calls' /\ DOMAIN calls \subseteq DOMAIN calls'
  BY <1>1, <1>2
<1> QED BY <1>1, <1>2, <1>3 DEF Remain

LEMMA EnsureRemain ==
    ASSUME CallsTyped, NEW w, EnsureDiff(w, calls)
    PROVE  Remain(calls, calls')
<1>1. calls' = calls \/ calls' = Append(calls, Ask("diff", w, None, FALSE))
  BY DEF EnsureDiff
<1>2. CASE calls' = calls
  BY <1>2 DEF Remain
<1>3. CASE calls' = Append(calls, Ask("diff", w, None, FALSE))
  <2> DEFINE c == Ask("diff", w, None, FALSE)
  <2>1. calls' = Append(calls, c)
    BY <1>3
  <2> HIDE DEF c
  <2> QED BY <2>1, AskRemain
<1> QED BY <1>1, <1>2, <1>3

\* An answer that is no approve's leaves every approve under way.
LEMMA OtherAnswers ==
    ASSUME CallsTyped, ApprovingIsTrue, dialog' = dialog, NEW i \in DOMAIN calls,
           calls[i].do # "approve", calls' = Rest(i) \/ Refetch(i)
    PROVE  ApprovingIsTrue'
<1> DEFINE r == Rest(i)
<1>1. /\ r \in Seq(Call)
      /\ \A l \in DOMAIN calls : l # i => \E k \in DOMAIN r :
            r[k].do = calls[l].do /\ r[k].id = calls[l].id
  BY RestCarried DEF CallsTyped
<1>2. \A k \in DOMAIN r : k \in DOMAIN calls' /\ calls'[k] = r[k]
  <2>1. CASE calls' = r
    BY <2>1
  <2>2. CASE Refetch(i)
    <3> DEFINE c == Ask("diff", calls[i].id, None, FALSE)
    <3>1. calls' = Append(r, c)
      BY <2>2 DEF Refetch
    <3> HIDE DEF r, c
    <3>2. /\ Len(r) \in Nat /\ DOMAIN r = 1 .. Len(r)
          /\ DOMAIN calls' = 1 .. Len(r) + 1
          /\ \A k \in 1 .. Len(r) : calls'[k] = r[k]
      BY <1>1, <3>1
    <3> QED BY <3>2
  <2> QED BY <2>1, <2>2
<1> HIDE DEF r
<1> SUFFICES ASSUME dialog.submitting
             PROVE  \E k \in DOMAIN calls' : calls'[k].do = "approve" /\ calls'[k].id = dialog.id
  BY DEF ApprovingIsTrue
<1> PICK l \in DOMAIN calls : calls[l].do = "approve" /\ calls[l].id = dialog.id
  BY DEF ApprovingIsTrue
<1>3. l # i
  OBVIOUS
<1> QED BY <1>1, <1>2, <1>3

LEMMA ApprovingKeeps ==
    ASSUME IInv, ApprovingIsTrue, [Next]_vars
    PROVE  ApprovingIsTrue'
<1>1. Types /\ CallsTyped /\ DialogTyped /\ calls \in Seq(Call)
  BY DEF IInv, Types, CallsTyped
<1>2. CASE UNCHANGED vars
  BY <1>2 DEF vars, ApprovingIsTrue
<1>3. CASE Outside
  <2>1. dialog' = dialog
    BY <1>3 DEF Outside, Edit, Forget, ToggleElsewhere, Fail, UnreadMark, Disconnect, FailList
  <2>2. ASSUME NEW w \in Worktree, NEW h \in Hash, Edit(w, h) PROVE Remain(calls, calls')
    <3>1. calls' = calls \/ calls' = Age(w)
      BY <2>2 DEF Edit
    <3> QED BY <1>1, <3>1, AgeFacts, FadedRemain DEF Remain
  <2>3. ASSUME NEW w \in Worktree, Forget(w) PROVE Remain(calls, calls')
    BY <2>3 DEF Forget, Remain
  <2>4. ASSUME NEW w \in Worktree, ToggleElsewhere(w) PROVE Remain(calls, calls')
    BY <1>1, <2>4, AgeFacts, FadedRemain DEF ToggleElsewhere
  <2>5. ASSUME NEW i \in DOMAIN calls, Fail(i) PROVE Remain(calls, calls')
    <3>1. calls' = [calls EXCEPT ![i].at = "failed"]
      BY <2>5 DEF Fail
    <3>2. \A k \in DOMAIN calls : calls[k] \in Call
      BY <1>1
    <3>3. \A k \in DOMAIN calls : /\ k \in DOMAIN calls'
                                 /\ calls'[k].do = calls[k].do /\ calls'[k].id = calls[k].id
      BY <3>1, <3>2 DEF Call
    <3> QED BY <3>3 DEF Remain
  <2>6. ASSUME Disconnect PROVE Remain(calls, calls')
    <3>1. \A k \in DOMAIN calls : calls[k] \in Call
      BY <1>1
    <3> PICK n \in 0 .. Len(inbox) :
           calls' = [i \in DOMAIN calls |->
                      IF calls[i].id \in Lost(n) /\ calls[i].at # "asked"
                      THEN [calls[i] EXCEPT !.old = TRUE] ELSE calls[i]]
      BY <2>6 DEF Disconnect, Lost
    <3>2. \A k \in DOMAIN calls : /\ k \in DOMAIN calls'
                                 /\ calls'[k].do = calls[k].do /\ calls'[k].id = calls[k].id
      BY <3>1 DEF Call
    <3> QED BY <3>2 DEF Remain
  <2>7. ASSUME FailList PROVE Remain(calls, calls')
    BY <2>7 DEF FailList, Remain
  <2>8. ASSUME NEW i \in DOMAIN calls, UnreadMark(i) PROVE Remain(calls, calls')
    <3>1. calls' = [calls EXCEPT ![i] = [@ EXCEPT !.at = "unread", !.seen = None]]
      BY <2>8 DEF UnreadMark
    <3>2. \A k \in DOMAIN calls : calls[k] \in Call
      BY <1>1
    <3>3. \A k \in DOMAIN calls : /\ k \in DOMAIN calls'
                                 /\ calls'[k].do = calls[k].do /\ calls'[k].id = calls[k].id
      BY <3>1, <3>2 DEF Call
    <3> QED BY <3>3 DEF Remain
  <2> QED BY <1>3, <2>1, <2>2, <2>3, <2>4, <2>5, <2>6, <2>7, <2>8, RemainKeeps DEF Outside
<1>4. CASE Serve
  <2> PICK i \in DOMAIN calls : \/ ServeDiff(i) \/ FindFiles(i) \/ ReadMark(i)
                              \/ ServeReview(i) \/ ServeApprove(i)
    BY <1>4 DEF Serve
  <2>1. DaemonTyped /\ calls[i] \in Call /\ calls[i].id \in Worktree
    <3>1. calls[i] \in Call
      BY <1>1
    <3> QED BY <1>1, <3>1 DEF Types, Call
  <2>2. ASSUME ServeDiff(i) \/ ServeReview(i) \/ ServeApprove(i)
        PROVE  Remain(calls, calls')
    <3> DEFINE w == calls[i].id
    <3>1. ASSUME NEW at \in Outcome PROVE
             /\ [calls[i] EXCEPT !.at = at] \in Call
             /\ [calls[i] EXCEPT !.at = at].do = calls[i].do
             /\ [calls[i] EXCEPT !.at = at].id = calls[i].id
      BY <2>1 DEF Call
    <3>2. "ok" \in Outcome /\ "failed" \in Outcome /\ "conflict" \in Outcome
      BY DEF Outcome
    <3>3. CASE ServeDiff(i) /\ disk[w] # None
      <4> DEFINE r == [calls[i] EXCEPT !.at = "read", !.hash = disk[w]]
      <4>1. disk[w] \in Hash
        BY <2>1, <3>3 DEF DaemonTyped
      <4>2. r \in Call /\ r.do = calls[i].do /\ r.id = w
        BY <2>1, <4>1 DEF Call, Stage
      <4>3. Served(i, r)
        BY <3>3 DEF ServeDiff
      <4> HIDE DEF r
      <4> QED BY <1>1, <4>2, <4>3, ServedRemain
    <3>4. \/ ServeDiff(i) /\ disk[w] # None
          \/ \E at \in Outcome : Served(i, [calls[i] EXCEPT !.at = at])
      BY <2>2, <3>2 DEF ServeDiff, ServeReview, ServeApprove
    <3>5. ASSUME NEW at \in Outcome, Served(i, [calls[i] EXCEPT !.at = at])
          PROVE  Remain(calls, calls')
      <4> DEFINE r == [calls[i] EXCEPT !.at = at]
      <4>1. r \in Call /\ r.do = calls[i].do /\ r.id = calls[i].id /\ Served(i, r)
        BY <3>1, <3>5
      <4> HIDE DEF r
      <4> QED BY <1>1, <4>1, ServedRemain
    <3> QED BY <3>3, <3>4, <3>5
  <2>4. ASSUME FindFiles(i) \/ ReadMark(i)
        PROVE  Remain(calls, calls')
    <3>2. \E c : /\ calls' = [calls EXCEPT ![i] = c]
                 /\ c.do = calls[i].do /\ c.id = calls[i].id
      <4>1. CASE ReadMark(i)
        <5> DEFINE c == [calls[i] EXCEPT !.at = "ok", !.seen = None,
                                         !.on = (mark[calls[i].id] = calls[i].seen)]
        <5>1. calls' = [calls EXCEPT ![i] = c]
          BY <4>1 DEF ReadMark
        <5>2. c.do = calls[i].do /\ c.id = calls[i].id
          BY <2>1 DEF Call
        <5> HIDE DEF c
        <5> QED BY <5>1, <5>2
      <4>2. CASE FindFiles(i) /\ disk[calls[i].id] = None
        <5> DEFINE c == [calls[i] EXCEPT !.at = "ok"]
        <5>1. calls' = [calls EXCEPT ![i] = c]
          BY <4>2 DEF FindFiles
        <5>2. c.do = calls[i].do /\ c.id = calls[i].id
          BY <2>1 DEF Call
        <5> HIDE DEF c
        <5> QED BY <5>1, <5>2
      <4>3. CASE FindFiles(i) /\ disk[calls[i].id] # None
        <5> DEFINE c == [calls[i] EXCEPT !.at = "found", !.seen = disk[calls[i].id]]
        <5>1. calls' = [calls EXCEPT ![i] = c]
          BY <4>3 DEF FindFiles
        <5>2. c.do = calls[i].do /\ c.id = calls[i].id
          BY <2>1 DEF Call
        <5> HIDE DEF c
        <5> QED BY <5>1, <5>2
      <4> QED BY <2>4, <4>1, <4>2, <4>3
    <3> QED BY <3>2, ReplacedRemain
  <2>3. Remain(calls, calls')
    BY <2>2, <2>4
  <2> QED BY <1>4, <2>3, RemainKeeps DEF Serve
<1>5. CASE Connect
  BY <1>5, RemainKeeps DEF Connect, Remain
<1>6. CASE Handle
  <2>1. ASSUME NEW w, NEW h, OnDiffReady(w, h) PROVE Remain(calls, calls')
    <3> DEFINE c == Ask("diff", w, None, FALSE)
    <3>1. calls' = Age(w) \/ calls' = Append(calls, c)
      BY <2>1 DEF OnDiffReady
    <3> HIDE DEF c
    <3> QED BY <1>1, <3>1, AskRemain, AgeFacts, FadedRemain
  <2>2. ASSUME NEW w, OnUpserted(w) \/ OnRemoved(w) PROVE Remain(calls, calls')
    BY <1>1, <2>2, EnsureRemain DEF OnUpserted, OnRemoved
  <2>3. ASSUME OnListed PROVE Remain(calls, calls')
    BY <2>3 DEF OnListed, Remain
  <2> QED BY <1>6, <2>1, <2>2, <2>3, RemainKeeps DEF Handle
<1>7. CASE List
  BY <1>1, <1>7, EnsureRemain, RemainKeeps DEF List
<1>8. CASE Answer
  <2> PICK i \in DOMAIN calls :
          OnDiff(i) \/ OnDiffFailed(i) \/ OnReviewed(i) \/ OnReviewRefused(i)
             \/ OnApproved(i) \/ OnApproveRefused(i)
    BY <1>8 DEF Answer
  <2>1. CASE OnDiff(i) \/ OnDiffFailed(i) \/ OnReviewed(i) \/ OnReviewRefused(i)
    BY <1>1, <2>1, OtherAnswers
    DEF OnDiff, OnDiffFailed, OnReviewed, OnReviewRefused, Refetch
  <2>2. CASE OnApproved(i)
    BY <2>2 DEF OnApproved, ApprovingIsTrue, Closed
  <2>3. CASE OnApproveRefused(i)
    BY <1>1, <2>3 DEF OnApproveRefused, ApprovingIsTrue, DialogTyped, Dialog, Closed
  <2> QED BY <2>1, <2>2, <2>3
<1>9. CASE Key
  <2>1. ASSUME NEW w, Move(w) PROVE ApprovingIsTrue'
    BY <1>1, <2>1, EnsureRemain, RemainKeeps DEF Move
  <2>2. ASSUME NEW S, Filter(S) PROVE ApprovingIsTrue'
    BY <1>1, <2>2, EnsureRemain, RemainKeeps DEF Filter
  <2>3. CASE Review
    BY <2>3, RemainKeeps DEF Review, Remain
  <2>4. CASE Toggle
    <3> DEFINE c == Ask("review", selected, pane.hash, ~pane.on)
    <3>1. calls' = Append(calls, c) /\ dialog' = dialog
      BY <2>4 DEF Toggle
    <3> HIDE DEF c
    <3> QED BY <1>1, <3>1, AskRemain, RemainKeeps
  <2>5. CASE OpenApprove \/ Cancel
    BY <2>5 DEF OpenApprove, Cancel, ApprovingIsTrue, Open, Closed
  <2>6. CASE Submit
    <3> DEFINE c == Ask("approve", dialog.id, None, FALSE)
    <3>1. calls' = Append(calls, c) /\ dialog' = [dialog EXCEPT !.submitting = TRUE, !.error = None]
      BY <2>6 DEF Submit
    <3>2. c.do = "approve" /\ c.id = dialog.id
      BY DEF Ask
    <3>3. dialog'.id = dialog.id
      BY <1>1, <3>1 DEF DialogTyped, Dialog
    <3> HIDE DEF c
    <3>4. \E l \in DOMAIN calls' : calls'[l] = c
      BY <1>1, <3>1, AskRemain
    <3> QED BY <3>2, <3>3, <3>4 DEF ApprovingIsTrue
  <2> QED BY <1>9, <2>1, <2>2, <2>3, <2>4, <2>5, <2>6 DEF Key
<1> QED BY <1>2, <1>3, <1>4, <1>5, <1>6, <1>7, <1>8, <1>9 DEF Next

\* A dialog that says "approving" has its own request under way, whatever other
\* dialogs were opened, cancelled and answered, and however often a request
\* was repeated (approve.go).
THEOREM ApprovingIsTrueSound == Spec => []ApprovingIsTrue
<1>1. Init => IInv /\ ApprovingIsTrue
  BY InitHolds DEF Init, ApprovingIsTrue, Closed
<1>2. IInv /\ ApprovingIsTrue /\ [Next]_vars => IInv' /\ ApprovingIsTrue'
  BY NextKeeps, ApprovingKeeps
<1> QED BY <1>1, <1>2, PTL DEF Spec
=============================================================================
