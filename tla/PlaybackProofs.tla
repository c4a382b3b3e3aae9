--------------------------- MODULE PlaybackProofs ---------------------------
(***************************************************************************)
(* A replay shows one history, whatever the transport did.  The schedule   *)
(* is a recursive function; that it exists, and what it maps an instant to *)
(* and back, is proved first, by least counterexamples.                    *)
(***************************************************************************)
EXTENDS Playback, TerritoryLife, TLAPS, FiniteSetTheorems, WellFoundedInduction

EvidenceTyped == \A i \in Events : tape.place[i] \in Place /\ tape.weight[i] \in Nat

TapeOK ==
  /\ Session \in Seq(Nat) /\ Len(Session) > 0
  /\ \A i, j \in Events : i <= j => Session[i] <= Session[j]
  /\ EvidenceTyped
  /\ tape.cap \in Nat

N == Len(Session)

-----------------------------------------------------------------------------
\* Numbers.

LEMMA LeastNat ==
  ASSUME NEW S \in SUBSET Nat, S # {}
  PROVE  \E n \in S : \A m \in S : n <= m
<1>1. PICK n \in S : \A m \in S : <<m, n>> \notin OpToRel(<, Nat)
  BY WFMin, NatLessThanWellFounded, Zenon
<1>2. \A m \in S : ~(m < n)
  BY <1>1, Zenon DEF OpToRel
<1> QED BY <1>2

\* Min and Max of the community modules, where they exist.
LEMMA MinExists ==
  ASSUME NEW S \in SUBSET Nat, S # {}
  PROVE  Min(S) \in S /\ \A m \in S : Min(S) <= m
<1>1. \E n \in S : \A m \in S : n <= m
  BY LeastNat
<1> QED BY <1>1, Zenon DEF Min

LEMMA MaxExists ==
  ASSUME NEW S, NEW n \in S, \A m \in S : m <= n
  PROVE  Max(S) \in S /\ \A m \in S : m <= Max(S)
<1>1. \E x \in S : \A m \in S : x >= m
  BY SMT
<1>2. Max(S) \in S /\ \A m \in S : Max(S) >= m
  BY <1>1, Zenon DEF Max
<1> QED BY <1>2

LEMMA BoundedMax ==
  ASSUME NEW n \in Nat, NEW S \in SUBSET (0..n), S # {}
  PROVE  Max(S) \in S
<1> DEFINE Over == {m \in 0..n : \A x \in S : x <= m}
<1>1. Over \in SUBSET Nat /\ n \in Over
  OBVIOUS
<1>2. PICK m \in Over : \A k \in Over : m <= k
  BY <1>1, LeastNat
<1>3. m \in S
  <2> SUFFICES ASSUME m \notin S PROVE FALSE
    OBVIOUS
  <2>0. PICK x \in S : TRUE
    OBVIOUS
  <2>1. m # 0
    BY <1>2, <2>0
  <2>2. m - 1 \in 0..n /\ m - 1 \notin Over
    BY <1>2, <2>1
  <2> QED BY <1>2, <2>2
<1>4. \A x \in S : x <= m
  BY <1>2
<1> QED BY <1>3, <1>4, MaxExists

LEMMA LaterIs == \A a, b \in Nat : Later(a, b) = IF a >= b THEN a ELSE b
<1> SUFFICES ASSUME NEW a \in Nat, NEW b \in Nat
             PROVE  Later(a, b) = IF a >= b THEN a ELSE b
  OBVIOUS
<1>1. \E n \in {a, b} : \A m \in {a, b} : m <= n
  OBVIOUS
<1>2. Max({a, b}) \in {a, b} /\ \A m \in {a, b} : m <= Max({a, b})
  BY <1>1, MaxExists
<1> QED BY <1>2 DEF Later

LEMMA DivBound ==
  ASSUME NEW a \in Nat, NEW x \in Nat, NEW y \in Nat, NEW d \in Nat \ {0}, x <= y, y <= d
  PROVE  /\ (a * x) \div d \in Nat
         /\ (a * x) \div d <= (a * y) \div d
         /\ (a * y) \div d <= a
OBVIOUS

LEMMA DivZero == ASSUME NEW a \in Nat, NEW d \in Nat \ {0} PROVE (a * 0) \div d = 0
OBVIOUS

-----------------------------------------------------------------------------
(* Evidence fades step by step as it does at once.  How far is a recursive
   function of the time and, over the evidence, of the directories: both iterate
   a step, and two that do are one. *)

\* A function that iterates steps exists, and there is one.
Iterates(g, z, step, n) == g[0] = z /\ \A i \in 1..n : g[i] = step[i][g[i - 1]]
\* It is one wherever it stays among the values.
IteratesIn(V, g, z, step, n) ==
  g[0] = z /\ \A i \in 1..n : g[i - 1] \in V => g[i] = step[i][g[i - 1]]
StaysIn(V, g, n) == \A i \in 0..n : g[i] \in V
Agree(f, g, n) == \A i \in 0..n : f[i] = g[i]

LEMMA IterateExists ==
  ASSUME NEW V, NEW z \in V, NEW n \in Nat, NEW step \in [1..n -> [V -> V]]
  PROVE  \E g \in [0..n -> V] : Iterates(g, z, step, n)
<1> DEFINE Bad == {k \in 0..n : ~ \E g \in [0..k -> V] : Iterates(g, z, step, k)}
<1> SUFFICES ASSUME Bad # {} PROVE FALSE
  OBVIOUS
<1>1. Bad \in SUBSET Nat
  OBVIOUS
<1>2. PICK k \in Bad : \A m \in Bad : k <= m
  BY <1>1, LeastNat
<1>3. k # 0
  <2> DEFINE g == [i \in 0..0 |-> z]
  <2>1. g \in [0..0 -> V] /\ Iterates(g, z, step, 0)
    BY DEF Iterates
  <2> QED BY <2>1
<1>4. k \in 1..n /\ k - 1 \in 0..n /\ k - 1 \notin Bad
  BY <1>2, <1>3
<1>5. PICK g \in [0..(k - 1) -> V] : Iterates(g, z, step, k - 1)
  BY <1>4
<1>6. PICK last \in V : last = step[k][g[k - 1]]
  BY <1>4
<1> DEFINE h == [i \in 0..k |-> IF i = k THEN last ELSE g[i]]
<1>7. h \in [0..k -> V] /\ h[k] = last /\ \A i \in 0..(k - 1) : h[i] = g[i]
  BY <1>4
<1> HIDE DEF h
<1>8. h[0] = z
  <2>1. 0 \in 0..(k - 1)
    BY <1>4
  <2> QED BY <1>5, <1>7, <2>1 DEF Iterates
<1>9. ASSUME NEW i \in 1..k PROVE h[i] = step[i][h[i - 1]]
  <2>1. i - 1 \in 0..(k - 1)
    BY <1>4
  <2>2. CASE i = k
    BY <1>6, <1>7, <2>1, <2>2
  <2>3. CASE i # k
    <3>1. i \in 1..(k - 1) /\ i \in 0..(k - 1)
      BY <1>4, <2>3
    <3> QED BY <1>5, <1>7, <2>1, <3>1 DEF Iterates
  <2> QED BY <2>2, <2>3
<1>10. Iterates(h, z, step, k)
  BY <1>8, <1>9 DEF Iterates
<1> QED BY <1>2, <1>7, <1>10

LEMMA IterateOnly ==
  ASSUME NEW V, NEW z, NEW n \in Nat, NEW step,
         NEW g, Iterates(g, z, step, n), StaysIn(V, g, n),
         NEW f, IteratesIn(V, f, z, step, n)
  PROVE  Agree(f, g, n)
<1> DEFINE Bad == {i \in 0..n : f[i] # g[i]}
<1> SUFFICES ASSUME Bad # {} PROVE FALSE
  BY DEF Agree
<1>1. Bad \in SUBSET Nat
  OBVIOUS
<1>2. PICK i \in Bad : \A m \in Bad : i <= m
  BY <1>1, LeastNat
<1>3. i # 0
  BY <1>2 DEF Iterates, IteratesIn
<1>4. i \in 1..n /\ i - 1 \in 0..n /\ i - 1 \notin Bad
  BY <1>2, <1>3
<1>5. f[i - 1] = g[i - 1] /\ g[i - 1] \in V
  BY <1>4 DEF StaysIn
<1>6. f[i] = g[i]
  BY <1>4, <1>5 DEF Iterates, IteratesIn
<1> QED BY <1>2, <1>6

\* The halves of a weight.
Halve(n) == [i \in 1..n |-> [x \in Nat |-> x \div 2]]

LEMMA HalveIs ==
  ASSUME NEW n \in Nat
  PROVE  Halve(n) \in [1..n -> [Nat -> Nat]] /\ \A i \in 1..n, x \in Nat : Halve(n)[i][x] = x \div 2
<1>1. \A x \in Nat : x \div 2 \in Nat
  OBVIOUS
<1> QED BY <1>1 DEF Halve

LEMMA HalfLivesRun ==
  ASSUME NEW w \in Nat, NEW n \in Nat
  PROVE  \E g \in [0..n -> Nat] : Iterates(g, w, Halve(n), n) /\ HalfLives(w, n) = g[n]
<1>1. PICK g \in [0..n -> Nat] : Iterates(g, w, Halve(n), n)
  BY HalveIs, IterateExists
<1> DEFINE f == CHOOSE f : f = [k \in 0..n |-> IF k = 0 THEN w ELSE f[k - 1] \div 2]
<1>2. \A k \in 0..n : g[k] = IF k = 0 THEN w ELSE g[k - 1] \div 2
  <2> TAKE k \in 0..n
  <2>1. CASE k = 0
    BY <1>1, <2>1 DEF Iterates
  <2>2. CASE k # 0
    <3>1. k \in 1..n /\ k - 1 \in 0..n
      BY <2>2
    <3>2. g[k - 1] \in Nat
      BY <3>1
    <3> QED BY <1>1, <2>2, <3>1, <3>2, HalveIs DEF Iterates
  <2> QED BY <2>1, <2>2
<1>3. g = [k \in 0..n |-> IF k = 0 THEN w ELSE g[k - 1] \div 2]
  <2>1. g = [k \in 0..n |-> g[k]]
    OBVIOUS
  <2> QED BY <1>2, <2>1
<1>4. f = [k \in 0..n |-> IF k = 0 THEN w ELSE f[k - 1] \div 2]
  BY <1>3, Zenon
<1>5. HalfLives(w, n) = f[n]
  BY Zenon DEF HalfLives
<1> HIDE DEF f
<1>6. f[0] = w /\ \A i \in 1..n : f[i - 1] \in Nat => f[i] = Halve(n)[i][f[i - 1]]
  <2>1. f[0] = w
    BY <1>4
  <2>2. ASSUME NEW i \in 1..n, f[i - 1] \in Nat PROVE f[i] = Halve(n)[i][f[i - 1]]
    <3>1. PICK x \in Nat : x = f[i - 1]
      BY <2>2
    <3>2. Halve(n)[i][x] = x \div 2
      BY HalveIs
    <3>3. f[i] = f[i - 1] \div 2
      BY <1>4
    <3> QED BY <3>1, <3>2, <3>3
  <2> QED BY <2>1, <2>2
<1>7. StaysIn(Nat, g, n)
  BY DEF StaysIn
<1>8. Agree(f, g, n)
  <2>1. IteratesIn(Nat, f, w, Halve(n), n)
    BY <1>6, Zenon DEF IteratesIn
  <2> QED BY <1>1, <1>7, <2>1, IterateOnly, Zenon
<1> QED BY <1>1, <1>5, <1>8 DEF Agree

LEMMA HalfLivesIs ==
  ASSUME NEW w \in Nat, NEW n \in Nat
  PROVE  /\ HalfLives(w, n) \in Nat /\ HalfLives(w, 0) = w
         /\ HalfLives(w, n + 1) = HalfLives(w, n) \div 2
<1>1. PICK g \in [0..n -> Nat] : Iterates(g, w, Halve(n), n) /\ HalfLives(w, n) = g[n]
  BY HalfLivesRun
<1>2. PICK h \in [0..(n + 1) -> Nat] : Iterates(h, w, Halve(n + 1), n + 1) /\ HalfLives(w, n + 1) = h[n + 1]
  <2>1. n + 1 \in Nat
    OBVIOUS
  <2> QED BY <2>1, HalfLivesRun
<1>3. PICK z \in [0..0 -> Nat] : Iterates(z, w, Halve(0), 0) /\ HalfLives(w, 0) = z[0]
  BY HalfLivesRun
<1>4. \A i \in 1..(n + 1) : h[i] = h[i - 1] \div 2
  <2> TAKE i \in 1..(n + 1)
  <2>1. i - 1 \in 0..(n + 1) /\ n + 1 \in Nat
    OBVIOUS
  <2>2. h[i - 1] \in Nat
    BY <2>1
  <2> QED BY <1>2, <2>1, <2>2, HalveIs DEF Iterates
<1>5. \A i \in 1..n : h[i - 1] \in Nat => h[i] = Halve(n)[i][h[i - 1]]
  <2> SUFFICES ASSUME NEW i \in 1..n, h[i - 1] \in Nat PROVE h[i] = Halve(n)[i][h[i - 1]]
    OBVIOUS
  <2>1. PICK x \in Nat : x = h[i - 1]
    OBVIOUS
  <2>2. Halve(n)[i][x] = x \div 2
    BY HalveIs
  <2>3. h[i] = h[i - 1] \div 2
    BY <1>4
  <2> QED BY <2>1, <2>2, <2>3
<1>6. h[0] = w
  BY <1>2 DEF Iterates
<1>7. Agree(h, g, n)
  <2>1. StaysIn(Nat, g, n)
    BY DEF StaysIn
  <2>2. IteratesIn(Nat, h, w, Halve(n), n)
    BY <1>5, <1>6, Zenon DEF IteratesIn
  <2> QED BY <1>1, <2>1, <2>2, IterateOnly, Zenon
<1>8. h[n + 1] = h[n] \div 2
  BY <1>4
<1>9. z[0] = w
  BY <1>3 DEF Iterates
<1>10. h[n] = g[n]
  BY <1>7 DEF Agree
<1> QED BY <1>1, <1>2, <1>3, <1>8, <1>9, <1>10

LEMMA HalfLivesAdd ==
  ASSUME NEW w \in Nat, NEW a \in Nat, NEW c \in Nat
  PROVE  /\ HalfLives(HalfLives(w, a), c) = HalfLives(w, a + c)
         /\ w = 0 => HalfLives(w, c) = 0
<1> DEFINE Bad == {b \in Nat : ~(/\ HalfLives(HalfLives(w, a), b) = HalfLives(w, a + b)
                                 /\ w = 0 => HalfLives(w, b) = 0)}
<1> SUFFICES ASSUME Bad # {} PROVE FALSE
  OBVIOUS
<1>1. Bad \in SUBSET Nat
  OBVIOUS
<1>2. PICK b \in Bad : \A m \in Bad : b <= m
  BY <1>1, LeastNat
<1>3. HalfLives(w, a) \in Nat
  BY HalfLivesIs
<1>4. b # 0
  <2>1. HalfLives(HalfLives(w, a), 0) = HalfLives(w, a) /\ HalfLives(w, 0) = w /\ a + 0 = a
    BY <1>3, HalfLivesIs
  <2> QED BY <1>2, <2>1
<1>5. PICK d \in Nat : b = d + 1 /\ d \notin Bad
  <2>1. b - 1 \in Nat /\ b = (b - 1) + 1 /\ b - 1 \notin Bad
    BY <1>2, <1>4
  <2> QED BY <2>1
<1>6. HalfLives(HalfLives(w, a), d + 1) = HalfLives(HalfLives(w, a), d) \div 2
  BY <1>3, HalfLivesIs
<1>7. HalfLives(w, d + 1) = HalfLives(w, d) \div 2
  BY HalfLivesIs
<1>8. HalfLives(w, (a + d) + 1) = HalfLives(w, a + d) \div 2
  <2>1. a + d \in Nat
    OBVIOUS
  <2> QED BY <2>1, HalfLivesIs
<1>9. (a + d) + 1 = a + b
  BY <1>5
<1>10. 0 \div 2 = 0
  OBVIOUS
<1> QED BY <1>2, <1>5, <1>6, <1>7, <1>8, <1>9, <1>10

\* What is kept of the evidence, and the step that keeps it.
Evidence == [path : Place, weight : Nat]
Joined(s, span) == [i \in 1..Len(s) |-> [left \in Seq(Evidence) |-> Joins(left, s[i], span)]]

LEMMA JoinsTyped ==
  ASSUME NEW left \in Seq(Evidence), NEW e \in Evidence, NEW span \in Nat
  PROVE  Joins(left, e, span) \in Seq(Evidence)
<1>1. HalfLives(e.weight, span) \in Nat
  BY HalfLivesIs DEF Evidence
<1>2. PICK x \in Nat : x = HalfLives(e.weight, span)
  BY <1>1
<1>3. [e EXCEPT !.weight = x] \in Evidence
  BY DEF Evidence
<1>4. Joins(left, e, span) = IF x > 0 THEN Append(left, [e EXCEPT !.weight = x]) ELSE left
  BY <1>2 DEF Joins
<1> QED BY <1>3, <1>4

LEMMA JoinedIs ==
  ASSUME NEW s \in Seq(Evidence), NEW span \in Nat
  PROVE  /\ Joined(s, span) \in [1..Len(s) -> [Seq(Evidence) -> Seq(Evidence)]]
         /\ \A i \in 1..Len(s), left \in Seq(Evidence) : Joined(s, span)[i][left] = Joins(left, s[i], span)
<1>1. \A i \in 1..Len(s), left \in Seq(Evidence) : Joins(left, s[i], span) \in Seq(Evidence)
  <2> TAKE i \in 1..Len(s), left \in Seq(Evidence)
  <2>1. s[i] \in Evidence
    OBVIOUS
  <2> QED BY <2>1, JoinsTyped
<1> QED BY <1>1 DEF Joined

LEMMA FadingRun ==
  ASSUME NEW s \in Seq(Evidence), NEW span \in Nat
  PROVE  \E g \in [0..Len(s) -> Seq(Evidence)] :
           Iterates(g, <<>>, Joined(s, span), Len(s)) /\ Fading(s, span) = g[Len(s)]
<1> DEFINE n == Len(s)
<1>0. n \in Nat /\ <<>> \in Seq(Evidence)
  OBVIOUS
<1>1. PICK g \in [0..n -> Seq(Evidence)] : Iterates(g, <<>>, Joined(s, span), n)
  BY <1>0, JoinedIs, IterateExists
<1> DEFINE f == CHOOSE f : f = [i \in 0..n |-> IF i = 0 THEN <<>> ELSE Joins(f[i - 1], s[i], span)]
<1>2. \A k \in 0..n : g[k] = IF k = 0 THEN <<>> ELSE Joins(g[k - 1], s[k], span)
  <2> TAKE k \in 0..n
  <2>1. CASE k = 0
    BY <1>1, <2>1 DEF Iterates
  <2>2. CASE k # 0
    <3>1. k \in 1..n /\ k - 1 \in 0..n
      BY <1>0, <2>2
    <3>2. g[k - 1] \in Seq(Evidence)
      BY <3>1
    <3> QED BY <1>1, <2>2, <3>1, <3>2, JoinedIs DEF Iterates
  <2> QED BY <2>1, <2>2
<1>3. g = [k \in 0..n |-> IF k = 0 THEN <<>> ELSE Joins(g[k - 1], s[k], span)]
  <2>1. g = [k \in 0..n |-> g[k]]
    OBVIOUS
  <2> QED BY <1>2, <2>1
<1>4. f = [k \in 0..n |-> IF k = 0 THEN <<>> ELSE Joins(f[k - 1], s[k], span)]
  BY <1>3, Zenon
<1>5. Fading(s, span) = f[n]
  BY Zenon DEF Fading
<1> HIDE DEF f
<1>6. f[0] = <<>> /\ \A i \in 1..n : f[i - 1] \in Seq(Evidence) => f[i] = Joined(s, span)[i][f[i - 1]]
  <2>1. f[0] = <<>>
    BY <1>0, <1>4
  <2>2. ASSUME NEW i \in 1..n, f[i - 1] \in Seq(Evidence) PROVE f[i] = Joined(s, span)[i][f[i - 1]]
    <3>1. PICK x \in Seq(Evidence) : x = f[i - 1]
      BY <2>2
    <3>2. Joined(s, span)[i][x] = Joins(x, s[i], span)
      BY JoinedIs
    <3>3. f[i] = Joins(f[i - 1], s[i], span)
      BY <1>0, <1>4
    <3> QED BY <3>1, <3>2, <3>3
  <2> QED BY <2>1, <2>2
<1>7. Agree(f, g, n)
  <2>1. StaysIn(Seq(Evidence), g, n)
    BY DEF StaysIn
  <2> HIDE DEF n
  <2>2. IteratesIn(Seq(Evidence), f, <<>>, Joined(s, span), n)
    BY <1>6, Zenon DEF IteratesIn
  <2> QED BY <1>0, <1>1, <2>1, <2>2, IterateOnly, Zenon
<1> QED BY <1>0, <1>1, <1>5, <1>7 DEF Agree

LEMMA FadingIs ==
  ASSUME NEW s \in Seq(Evidence), NEW span \in Nat
  PROVE  /\ Fading(s, span) \in Seq(Evidence) /\ Fading(<<>>, span) = <<>>
         /\ \A e \in Evidence : Fading(Append(s, e), span) = Joins(Fading(s, span), e, span)
<1> DEFINE n == Len(s)
<1>0. n \in Nat /\ <<>> \in Seq(Evidence)
  OBVIOUS
<1>1. PICK g \in [0..n -> Seq(Evidence)] : Iterates(g, <<>>, Joined(s, span), n) /\ Fading(s, span) = g[n]
  BY FadingRun
<1>2. Fading(<<>>, span) = <<>>
  <2>1. PICK z \in [0..Len(<<>>) -> Seq(Evidence)] :
          Iterates(z, <<>>, Joined(<<>>, span), Len(<<>>)) /\ Fading(<<>>, span) = z[Len(<<>>)]
    BY <1>0, FadingRun
  <2> QED BY <2>1 DEF Iterates
<1>3. ASSUME NEW e \in Evidence PROVE Fading(Append(s, e), span) = Joins(Fading(s, span), e, span)
  <2>1. PICK t \in Seq(Evidence) : t = Append(s, e)
    <3>1. Append(s, e) \in Seq(Evidence)
      OBVIOUS
    <3> QED BY <3>1, Zenon
  <2>2. Len(t) = n + 1 /\ t[n + 1] = e /\ \A i \in 1..n : t[i] = s[i]
    BY <2>1
  <2>3. PICK h \in [0..(n + 1) -> Seq(Evidence)] :
          Iterates(h, <<>>, Joined(t, span), n + 1) /\ Fading(t, span) = h[n + 1]
    <3>1. \E h \in [0..Len(t) -> Seq(Evidence)] :
            Iterates(h, <<>>, Joined(t, span), Len(t)) /\ Fading(t, span) = h[Len(t)]
      BY FadingRun
    <3> QED BY <2>2, <3>1
  <2>4. \A i \in 1..(n + 1) : h[i] = Joins(h[i - 1], t[i], span)
    <3> TAKE i \in 1..(n + 1)
    <3>1. i - 1 \in 0..(n + 1) /\ i \in 1..Len(t)
      BY <1>0, <2>2
    <3>2. h[i - 1] \in Seq(Evidence)
      BY <3>1
    <3> QED BY <2>3, <3>1, <3>2, JoinedIs DEF Iterates
  <2>5. \A i \in 1..n : h[i - 1] \in Seq(Evidence) => h[i] = Joined(s, span)[i][h[i - 1]]
    BY <1>0, <2>2, <2>4, JoinedIs
  <2>6. h[0] = <<>>
    BY <2>3 DEF Iterates
  <2>7. Agree(h, g, n)
    <3>1. StaysIn(Seq(Evidence), g, n)
      BY DEF StaysIn
    <3> HIDE DEF n
    <3>2. IteratesIn(Seq(Evidence), h, <<>>, Joined(s, span), n)
      BY <2>5, <2>6, Zenon DEF IteratesIn
    <3> QED BY <1>0, <1>1, <3>1, <3>2, IterateOnly, Zenon
  <2>8. h[n + 1] = Joins(h[n], e, span) /\ h[n] = g[n]
    BY <1>0, <2>2, <2>4, <2>7 DEF Agree
  <2> QED BY <1>1, <2>1, <2>3, <2>8
<1>4. Fading(s, span) \in Seq(Evidence)
  BY <1>0, <1>1
<1> QED BY <1>2, <1>3, <1>4

LEMMA JoinsTwice ==
  ASSUME NEW s \in Seq(Evidence), NEW e \in Evidence, NEW a \in Nat, NEW b \in Nat,
         Fading(Fading(s, a), b) = Fading(s, a + b)
  PROVE  Fading(Joins(Fading(s, a), e, a), b) = Joins(Fading(s, a + b), e, a + b)
<1>1. PICK x \in Nat : x = HalfLives(e.weight, a)
  BY HalfLivesIs DEF Evidence
<1>2. PICK y \in Nat : y = HalfLives(x, b)
  BY HalfLivesIs
<1>3. HalfLives(e.weight, a + b) = y /\ (x = 0 => y = 0)
  <2>1. e.weight \in Nat
    BY DEF Evidence
  <2> QED BY <1>1, <1>2, <2>1, HalfLivesAdd
<1>4. PICK d \in Evidence : d = [e EXCEPT !.weight = x]
  BY DEF Evidence
<1>5. d.weight = x /\ [d EXCEPT !.weight = y] = [e EXCEPT !.weight = y]
  BY <1>4 DEF Evidence
<1>6. PICK left \in Seq(Evidence) : left = Fading(s, a)
  BY FadingIs
<1>7. Joins(left, e, a) = IF x > 0 THEN Append(left, d) ELSE left
  BY <1>1, <1>4 DEF Joins
<1>8. Joins(Fading(s, a + b), e, a + b) =
        IF y > 0 THEN Append(Fading(s, a + b), [e EXCEPT !.weight = y]) ELSE Fading(s, a + b)
  BY <1>3 DEF Joins
<1>9. CASE x > 0
  <2>1. Fading(Append(left, d), b) = Joins(Fading(left, b), d, b)
    BY FadingIs
  <2>2. Joins(Fading(left, b), d, b) =
          IF y > 0 THEN Append(Fading(left, b), [e EXCEPT !.weight = y]) ELSE Fading(left, b)
    BY <1>2, <1>5 DEF Joins
  <2> QED BY <1>6, <1>7, <1>8, <1>9, <2>1, <2>2
<1>10. CASE ~(x > 0)
  <2>1. y = 0
    BY <1>3, <1>10
  <2> QED BY <1>6, <1>7, <1>8, <1>10, <2>1
<1> QED BY <1>9, <1>10

\* What has faded over two spans is what fades over both at once.
LEMMA FadingTwice ==
  ASSUME NEW s \in Seq(Evidence), NEW a \in Nat, NEW b \in Nat
  PROVE  Fading(Fading(s, a), b) = Fading(s, a + b)
<1> DEFINE Bad == {n \in Nat : \E t \in Seq(Evidence) : Len(t) = n /\ Fading(Fading(t, a), b) # Fading(t, a + b)}
<1> SUFFICES ASSUME Bad # {} PROVE FALSE
  <2>1. Len(s) \in Nat
    OBVIOUS
  <2> QED BY <2>1
<1>1. Bad \in SUBSET Nat
  OBVIOUS
<1>2. PICK n \in Bad : \A m \in Bad : n <= m
  BY <1>1, LeastNat
<1>3. PICK t \in Seq(Evidence) : Len(t) = n /\ Fading(Fading(t, a), b) # Fading(t, a + b)
  BY <1>2
<1>4. n # 0
  <2> SUFFICES ASSUME n = 0 PROVE FALSE
    OBVIOUS
  <2>1. t = <<>> /\ a + b \in Nat /\ <<>> \in Seq(Evidence)
    BY <1>3
  <2>2. Fading(<<>>, a) = <<>> /\ Fading(<<>>, b) = <<>> /\ Fading(<<>>, a + b) = <<>>
    BY <2>1, FadingIs
  <2> QED BY <1>3, <2>1, <2>2
<1>5. PICK r \in Seq(Evidence), e \in Evidence : t = Append(r, e) /\ Len(r) = n - 1
  <2> DEFINE r == SubSeq(t, 1, n - 1)
  <2>1. r \in Seq(Evidence) /\ t[n] \in Evidence /\ t = Append(r, t[n]) /\ Len(r) = n - 1
    BY <1>2, <1>3, <1>4
  <2> QED BY <2>1
<1>6. n - 1 \in Nat /\ n - 1 \notin Bad /\ a + b \in Nat
  BY <1>2, <1>4
<1>7. Fading(Fading(r, a), b) = Fading(r, a + b)
  BY <1>5, <1>6
<1>8. Fading(t, a) = Joins(Fading(r, a), e, a) /\ Fading(t, a + b) = Joins(Fading(r, a + b), e, a + b)
  BY <1>5, <1>6, FadingIs
<1>9. Fading(Joins(Fading(r, a), e, a), b) = Joins(Fading(r, a + b), e, a + b)
  BY <1>7, JoinsTwice
<1> QED BY <1>3, <1>8, <1>9

-----------------------------------------------------------------------------
\* The territory: a decay to an instant and on to a later one is a decay to the later.

TerritoryFields == {"evidence", "claim", "outside_streak", "last_decay"}

Kept(t) ==
  /\ t = [x \in TerritoryFields |-> t[x]]
  /\ t.evidence \in Seq(Evidence)
  /\ t.last_decay \in Nat \cup {Never}
  /\ t.last_decay = Never => t = Nowhere

LEMMA NowhereKept == Kept(Nowhere)
BY DEF Kept, Nowhere, TerritoryFields, Never

LEMMA DecayCases ==
  ASSUME NEW t, Kept(t), NEW at \in Nat
  PROVE  /\ t.last_decay = Never => Decay(t, at) = [Nowhere EXCEPT !.last_decay = at]
         /\ t.last_decay # Never /\ at <= t.last_decay => Decay(t, at) = t
         /\ t.last_decay # Never /\ t.last_decay < at =>
              Decay(t, at) = LET left == Fading(t.evidence, at - t.last_decay)
                             IN  IF left = <<>> THEN [Nowhere EXCEPT !.last_decay = at]
                                 ELSE [t EXCEPT !.evidence = left, !.last_decay = at]
<1>1. CASE t.last_decay = Never
  BY <1>1 DEF Kept, Decay
<1>2. CASE t.last_decay # Never /\ at <= t.last_decay
  BY <1>2 DEF Kept, Decay
<1>3. CASE t.last_decay # Never /\ t.last_decay < at
  <2>1. ~(at <= t.last_decay)
    BY <1>3 DEF Kept
  <2> QED BY <1>3, <2>1 DEF Decay
<1>4. t.last_decay = Never \/ (t.last_decay # Never /\ at <= t.last_decay) \/ (t.last_decay # Never /\ t.last_decay < at)
  BY DEF Kept
<1>5. /\ ~(t.last_decay = Never /\ t.last_decay # Never)
      /\ t.last_decay # Never => ~(at <= t.last_decay /\ t.last_decay < at)
  BY DEF Kept
<1> QED BY <1>1, <1>2, <1>3, <1>4, <1>5

LEMMA DecayKept ==
  ASSUME NEW t, Kept(t), NEW at \in Nat
  PROVE  Kept(Decay(t, at)) /\ Decay(t, at).last_decay # Never
<1>1. at # Never
  BY DEF Never
<1>2. Kept([Nowhere EXCEPT !.last_decay = at]) /\ [Nowhere EXCEPT !.last_decay = at].last_decay # Never
  BY <1>1 DEF Kept, Nowhere, TerritoryFields
<1>3. CASE t.last_decay = Never
  BY <1>2, <1>3, DecayCases
<1>4. CASE t.last_decay # Never /\ at <= t.last_decay
  BY <1>4, DecayCases
<1>5. CASE t.last_decay # Never /\ t.last_decay < at
  <2>1. at - t.last_decay \in Nat /\ t.evidence \in Seq(Evidence)
    BY <1>5 DEF Kept
  <2>2. PICK left \in Seq(Evidence) : left = Fading(t.evidence, at - t.last_decay)
    BY <2>1, FadingIs
  <2>3. Decay(t, at) = IF left = <<>> THEN [Nowhere EXCEPT !.last_decay = at]
                       ELSE [t EXCEPT !.evidence = left, !.last_decay = at]
    BY <1>5, <2>2, DecayCases
  <2>4. Kept([t EXCEPT !.evidence = left, !.last_decay = at])
        /\ [t EXCEPT !.evidence = left, !.last_decay = at].last_decay # Never
    BY <1>1 DEF Kept, TerritoryFields
  <2> QED BY <1>2, <2>3, <2>4
<1> QED BY <1>3, <1>4, <1>5 DEF Kept

\* Nothing is left of nothing.
LEMMA DecayNowhere ==
  ASSUME NEW m \in Nat, NEW b \in Nat, m <= b
  PROVE  Decay([Nowhere EXCEPT !.last_decay = m], b) = [Nowhere EXCEPT !.last_decay = b]
<1>0. PICK d : d = [Nowhere EXCEPT !.last_decay = m]
  OBVIOUS
<1>1. Kept(d) /\ d.last_decay = m /\ d.evidence = <<>> /\ m # Never
  BY <1>0 DEF Kept, Nowhere, TerritoryFields, Never
<1>2. CASE b = m
  <2>1. Decay(d, b) = d
    BY <1>1, <1>2, DecayCases
  <2> QED BY <1>0, <1>2, <2>1
<1>3. CASE b # m
  <2>1. Fading(<<>>, b - m) = <<>>
    <3>1. <<>> \in Seq(Evidence) /\ b - m \in Nat
      BY <1>3
    <3> QED BY <3>1, FadingIs
  <2>2. d.last_decay # Never /\ d.last_decay < b
    BY <1>1, <1>3
  <2>3. Fading(d.evidence, b - d.last_decay) = <<>>
    BY <1>1, <2>1
  <2>4. Decay(d, b) = [Nowhere EXCEPT !.last_decay = b]
    BY <1>1, <2>2, <2>3, DecayCases
  <2> QED BY <1>0, <2>4
<1> QED BY <1>2, <1>3

LEMMA DecayTwice ==
  ASSUME NEW t, Kept(t), NEW m \in Nat, NEW b \in Nat, m <= b
  PROVE  Decay(Decay(t, m), b) = Decay(t, b)
<1>1. CASE t.last_decay = Never
  <2>1. Decay(t, m) = [Nowhere EXCEPT !.last_decay = m] /\ Decay(t, b) = [Nowhere EXCEPT !.last_decay = b]
    BY <1>1, DecayCases
  <2> QED BY <2>1, DecayNowhere
<1>2. CASE t.last_decay # Never /\ m <= t.last_decay
  BY <1>2, DecayCases
<1>3. CASE t.last_decay # Never /\ t.last_decay < m
  <2>1. t.evidence \in Seq(Evidence) /\ t.last_decay \in Nat /\ t.last_decay < b
    BY <1>3 DEF Kept
  <2>2. PICK left \in Seq(Evidence) : left = Fading(t.evidence, m - t.last_decay)
    <3>1. m - t.last_decay \in Nat
      BY <1>3, <2>1
    <3> QED BY <2>1, <3>1, FadingIs
  <2>3. Decay(t, m) = IF left = <<>> THEN [Nowhere EXCEPT !.last_decay = m]
                      ELSE [t EXCEPT !.evidence = left, !.last_decay = m]
    BY <1>3, <2>2, DecayCases
  <2>4. CASE b = m
    <3>1. PICK d : d = Decay(t, m) /\ Kept(d)
      BY DecayKept
    <3>2. d.last_decay = m
      BY <2>3, <3>1 DEF Kept, Nowhere, TerritoryFields
    <3>3. Decay(d, m) = d
      <4>1. m # Never /\ m <= m
        BY DEF Never
      <4> QED BY <3>1, <3>2, <4>1, DecayCases
    <3> QED BY <2>4, <3>1, <3>3
  <2>5. CASE b # m
    <3>1. Fading(t.evidence, b - t.last_decay) = Fading(left, b - m)
      <4>1. /\ m - t.last_decay \in Nat /\ b - m \in Nat
            /\ (m - t.last_decay) + (b - m) = b - t.last_decay
        BY <1>3, <2>1
      <4>2. Fading(Fading(t.evidence, m - t.last_decay), b - m) =
              Fading(t.evidence, (m - t.last_decay) + (b - m))
        BY <2>1, <4>1, FadingTwice, Zenon
      <4> QED BY <2>2, <4>1, <4>2
    <3>2. PICK last : last = Fading(left, b - m)
      OBVIOUS
    <3>3. Decay(t, b) = IF last = <<>> THEN [Nowhere EXCEPT !.last_decay = b]
                        ELSE [t EXCEPT !.evidence = last, !.last_decay = b]
      BY <1>3, <2>1, <3>1, <3>2, DecayCases
    <3>4. CASE left = <<>>
      <4>1. last = <<>>
        <5>1. b - m \in Nat /\ <<>> \in Seq(Evidence)
          OBVIOUS
        <5> QED BY <3>2, <3>4, <5>1, FadingIs
      <4> QED BY <2>3, <3>3, <3>4, <4>1, DecayNowhere
    <3>5. CASE left # <<>>
      <4>1. PICK d : d = [t EXCEPT !.evidence = left, !.last_decay = m]
        OBVIOUS
      <4>2. /\ d.evidence = left /\ d.last_decay = m
            /\ [d EXCEPT !.evidence = last, !.last_decay = b] = [t EXCEPT !.evidence = last, !.last_decay = b]
        BY <4>1 DEF Kept, TerritoryFields
      <4>3. Kept(d) /\ d = Decay(t, m)
        BY <2>3, <3>5, <4>1, DecayKept
      <4>4. d.last_decay # Never /\ d.last_decay < b
        BY <2>5, <4>2 DEF Never
      <4>5. Decay(d, b) = IF last = <<>> THEN [Nowhere EXCEPT !.last_decay = b]
                          ELSE [d EXCEPT !.evidence = last, !.last_decay = b]
        BY <3>2, <4>2, <4>3, <4>4, DecayCases
      <4> QED BY <3>3, <4>2, <4>3, <4>5
    <3> QED BY <3>4, <3>5
  <2> QED BY <2>4, <2>5
<1> QED BY <1>1, <1>2, <1>3 DEF Kept

\* An observation sees of a territory what its decay leaves of it.
LEMMA ObserveAlike ==
  ASSUME NEW t, NEW u, NEW path, NEW weight, weight # 0, NEW at, Decay(t, at) = Decay(u, at)
  PROVE  Observe(t, path, weight, at) = Observe(u, path, weight, at)
<1>1. PICK d : d = Decay(t, at) /\ d = Decay(u, at)
  OBVIOUS
<1> QED BY <1>1 DEF Observe

LEMMA RefreshKept ==
  ASSUME NEW t, Kept(t), t.last_decay # Never
  PROVE  Kept(RefreshClaim(t))
<1>1. \/ RefreshClaim(t) = t
      \/ \E c : RefreshClaim(t) = [t EXCEPT !.claim = c]
      \/ \E c : RefreshClaim(t) = [t EXCEPT !.claim = c, !.outside_streak = 0]
  <2>1. PICK c : c = Converged(t.evidence)
    OBVIOUS
  <2>2. CASE c \in {NoClaim, t.claim}
    BY <2>1, <2>2 DEF RefreshClaim
  <2>3. CASE c \notin {NoClaim, t.claim} /\ t.claim = NoClaim
    <3>1. RefreshClaim(t) = [t EXCEPT !.claim = c]
      BY <2>1, <2>3 DEF RefreshClaim
    <3> QED BY <3>1
  <2>4. CASE c \notin {NoClaim, t.claim} /\ t.claim # NoClaim
    <3> DEFINE moves == SameDistrict(c, t.claim) \/ t.outside_streak >= Confirmations
    <3>1. RefreshClaim(t) = IF moves THEN [t EXCEPT !.claim = c, !.outside_streak = 0] ELSE t
      BY <2>1, <2>4 DEF RefreshClaim
    <3> HIDE DEF moves
    <3> QED BY <3>1
  <2> QED BY <2>2, <2>3, <2>4
<1>2. ASSUME NEW c PROVE Kept([t EXCEPT !.claim = c]) /\ Kept([t EXCEPT !.claim = c, !.outside_streak = 0])
  BY DEF Kept, TerritoryFields
<1> QED BY <1>1, <1>2

LEMMA ObserveKept ==
  ASSUME NEW t, Kept(t), NEW path \in Place, NEW weight \in Nat, NEW at \in Nat
  PROVE  Kept(Observe(t, path, weight, at))
<1>1. CASE weight = 0
  BY <1>1 DEF Observe
<1>2. CASE weight # 0
  <2>1. PICK d : d = Decay(t, at) /\ Kept(d) /\ d.last_decay # Never
    BY DecayKept
  <2>2. PICK e \in Evidence : e = [path |-> path, weight |-> weight]
    BY DEF Evidence
  <2>3. PICK grown \in Seq(Evidence) : grown = Append(d.evidence, e) /\ grown # <<>>
    <3>1. d.evidence \in Seq(Evidence)
      BY <2>1 DEF Kept
    <3>2. Append(d.evidence, e) \in Seq(Evidence) /\ Append(d.evidence, e) # <<>>
      BY <3>1
    <3> QED BY <3>2, Zenon
  <2>4. PICK window \in Seq(Evidence) : window = IF Len(grown) > Recent THEN Tail(grown) ELSE grown
    <3>1. Tail(grown) \in Seq(Evidence)
      BY <2>3
    <3> QED BY <3>1
  <2>5. PICK streak : streak = Streak(d, path)
    OBVIOUS
  <2>6. PICK s : s = [d EXCEPT !.evidence = window, !.outside_streak = streak]
    OBVIOUS
  <2>7. Observe(t, path, weight, at) = RefreshClaim(s)
    BY <1>2, <2>1, <2>2, <2>3, <2>4, <2>5, <2>6, Zenon DEF Observe
  <2>8. Kept(s) /\ s.last_decay # Never
    BY <2>1, <2>6 DEF Kept, TerritoryFields
  <2> QED BY <2>7, <2>8, RefreshKept
<1> QED BY <1>1, <1>2

-----------------------------------------------------------------------------
\* The schedule.

StepOf(i) == Min({SessionGap(i), tape.cap})

LEMMA SessionIs == TapeOK => /\ N \in Nat \ {0} /\ Events = 1..N
                             /\ \A i \in Events : Session[i] \in Nat
BY DEF TapeOK, N, Events

\* How far the schedule goes at an event: nowhere only if the session does not.
LEMMA StepFacts ==
  ASSUME TapeOK, NEW i \in Events
  PROVE  /\ SessionGap(i) \in Nat
         /\ StepOf(i) \in Nat
         /\ tape.cap # 0 /\ StepOf(i) = 0 => SessionGap(i) = 0
<1>1. SessionGap(i) \in Nat
  BY SessionIs DEF SessionGap, TapeOK, N, Events
<1>2. {SessionGap(i), tape.cap} \in SUBSET Nat /\ {SessionGap(i), tape.cap} # {}
  BY <1>1 DEF TapeOK
<1>3. StepOf(i) \in {SessionGap(i), tape.cap}
  BY <1>2, MinExists DEF StepOf
<1> QED BY <1>1, <1>2, <1>3

\* A compressed schedule of the first n events.
Sums(n) == {f \in [1..n -> Nat] : f = [i \in 1..n |-> (IF i = 1 THEN 0 ELSE f[i - 1]) + StepOf(i)]}

LEMMA SumsExist ==
  ASSUME TapeOK
  PROVE  \A n \in 0..N : Sums(n) # {}
<1> DEFINE Bad == {n \in 0..N : Sums(n) = {}}
<1> SUFFICES ASSUME Bad # {} PROVE FALSE
  OBVIOUS
<1>0. N \in Nat /\ Events = 1..N
  BY SessionIs
<1>a. Bad \in SUBSET Nat
  BY <1>0
<1>1. PICK n \in Bad : \A m \in Bad : n <= m
  BY <1>a, LeastNat
<1>2. n # 0
  <2>1. [i \in 1..0 |-> 0] \in Sums(0)
    BY DEF Sums
  <2> QED BY <2>1
<1>3. n - 1 \in 0..N /\ n - 1 \notin Bad
  BY <1>0, <1>1, <1>2
<1>4. PICK f : f \in Sums(n - 1)
  BY <1>3
<1>5. f \in [1..(n - 1) -> Nat] /\ f = [i \in 1..(n - 1) |-> (IF i = 1 THEN 0 ELSE f[i - 1]) + StepOf(i)]
  BY <1>4 DEF Sums
<1> DEFINE g == [i \in 1..n |-> IF i = n THEN (IF n = 1 THEN 0 ELSE f[n - 1]) + StepOf(n) ELSE f[i]]
<1>6. n \in Events /\ StepOf(n) \in Nat
  BY <1>0, <1>1, <1>2, StepFacts
<1>7. g \in [1..n -> Nat]
  BY <1>0, <1>5, <1>6
<1>8. \A i \in 1..n : g[i] = (IF i = 1 THEN 0 ELSE g[i - 1]) + StepOf(i)
  BY <1>0, <1>5, <1>6
<1>9. g = [i \in 1..n |-> (IF i = 1 THEN 0 ELSE g[i - 1]) + StepOf(i)]
  <2> HIDE DEF g
  <2> QED BY <1>7, <1>8
<1>10. g \in Sums(n)
  <2> HIDE DEF g
  <2> QED BY <1>7, <1>9 DEF Sums
<1> QED BY <1>10, <1>1

LEMMA CompressedIs ==
  ASSUME TapeOK
  PROVE  /\ Compressed \in [Events -> Nat]
         /\ \A i \in Events : Compressed[i] = (IF i = 1 THEN 0 ELSE Compressed[i - 1]) + StepOf(i)
<1>1. N \in 0..N /\ Events = 1..N
  BY SessionIs
<1>2. PICK f : f \in Sums(N)
  BY <1>1, SumsExist
<1>3. f \in [Events -> Nat]
      /\ f = [i \in Events |-> (IF i = 1 THEN 0 ELSE f[i - 1]) + Min({SessionGap(i), tape.cap})]
  BY <1>1, <1>2 DEF Sums, StepOf
<1>4. Compressed = [i \in Events |-> (IF i = 1 THEN 0 ELSE Compressed[i - 1]) + Min({SessionGap(i), tape.cap})]
  BY <1>3, Zenon DEF Compressed
<1>5. /\ DOMAIN Compressed = Events
      /\ \A i \in Events : Compressed[i] = (IF i = 1 THEN 0 ELSE Compressed[i - 1]) + StepOf(i)
  BY <1>4, Zenon DEF StepOf
<1> DEFINE Bad == {i \in Events : Compressed[i] \notin Nat}
<1>6. Bad = {}
  <2> SUFFICES ASSUME Bad # {} PROVE FALSE
    OBVIOUS
  <2>1. Bad \in SUBSET Nat
    BY <1>1
  <2>2. PICK i \in Bad : \A m \in Bad : i <= m
    BY <2>1, LeastNat
  <2>3. i \in Events /\ StepOf(i) \in Nat
    BY StepFacts
  <2>4. i # 1 => i - 1 \in Events /\ i - 1 \notin Bad
    BY <1>1, <2>2, <2>3
  <2> QED BY <1>5, <2>2, <2>3, <2>4
<1>7. Compressed = [i \in Events |-> Compressed[i]]
  BY <1>4, Zenon
<1> QED BY <1>5, <1>6, <1>7

\* A function that never falls step by step never falls, and where it stands still
\* another that moves only with it stands still too.
LEMMA Nondecreasing ==
  ASSUME NEW n \in Nat, NEW f \in [1..n -> Nat], NEW g,
         \A i \in 1..(n - 1) : f[i] <= f[i + 1] /\ (f[i] = f[i + 1] => g[i] = g[i + 1])
  PROVE  \A j \in 1..n : \A i \in 1..j : f[i] <= f[j] /\ (f[i] = f[j] => g[i] = g[j])
<1> DEFINE Bad == {j \in 1..n : ~ \A i \in 1..j : f[i] <= f[j] /\ (f[i] = f[j] => g[i] = g[j])}
<1> SUFFICES ASSUME Bad # {} PROVE FALSE
  OBVIOUS
<1>1. Bad \in SUBSET Nat
  OBVIOUS
<1>2. PICK j \in Bad : \A m \in Bad : j <= m
  BY <1>1, LeastNat
<1>3. PICK i \in 1..j : ~(f[i] <= f[j] /\ (f[i] = f[j] => g[i] = g[j]))
  BY <1>2
<1>4. j \in 1..n /\ i # j /\ j - 1 \in 1..(n - 1) /\ i \in 1..(j - 1)
  BY <1>2, <1>3
<1>5. j - 1 \notin Bad
  BY <1>2, <1>4
<1>6. f[i] <= f[j - 1] /\ (f[i] = f[j - 1] => g[i] = g[j - 1])
  BY <1>4, <1>5
<1>7. f[j - 1] <= f[j] /\ (f[j - 1] = f[j] => g[j - 1] = g[j])
  BY <1>4
<1>8. f[i] \in Nat /\ f[j] \in Nat /\ f[j - 1] \in Nat
  BY <1>4
<1> QED BY <1>3, <1>6, <1>7, <1>8

LEMMA ScheduleIs ==
  ASSUME TapeOK
  PROVE  /\ Schedule \in [Events -> Nat]
         /\ \A j \in Events : \A i \in 1..j :
              /\ Schedule[i] <= Schedule[j]
              /\ Schedule[i] = Schedule[j] => Session[i] = Session[j]
<1>1. N \in Nat \ {0} /\ Events = 1..N /\ \A i \in Events : Session[i] \in Nat
  BY SessionIs
<1>2. CASE tape.cap = 0
  <2>1. Schedule = Session
    BY <1>2 DEF Schedule
  <2>2. Session \in [Events -> Nat]
    BY DEF TapeOK, Events
  <2> QED BY <1>1, <2>1, <2>2 DEF TapeOK
<1>3. CASE tape.cap # 0
  <2>1. Schedule = Compressed
    BY <1>3 DEF Schedule
  <2>3. Compressed \in [Events -> Nat]
    BY CompressedIs
  <2>4. \A i \in 1..(N - 1) :
          /\ Compressed[i] <= Compressed[i + 1]
          /\ Compressed[i] = Compressed[i + 1] => Session[i] = Session[i + 1]
    <3> SUFFICES ASSUME NEW i \in 1..(N - 1)
                 PROVE  /\ Compressed[i] <= Compressed[i + 1]
                        /\ Compressed[i] = Compressed[i + 1] => Session[i] = Session[i + 1]
      OBVIOUS
    <3>1. i \in Events /\ i + 1 \in Events /\ i + 1 # 1 /\ (i + 1) - 1 = i
      BY <1>1
    <3>2. Compressed[i + 1] = Compressed[i] + StepOf(i + 1)
      BY <3>1, CompressedIs
    <3>3. StepOf(i + 1) \in Nat /\ (StepOf(i + 1) = 0 => SessionGap(i + 1) = 0)
      BY <1>3, <3>1, StepFacts
    <3>4. SessionGap(i + 1) = Session[i + 1] - Session[i]
      BY <3>1 DEF SessionGap
    <3>5. Compressed[i] \in Nat
      BY <2>3, <3>1
    <3> QED BY <1>1, <3>1, <3>2, <3>3, <3>4, <3>5
  <2>5. N \in Nat /\ Compressed \in [1..N -> Nat]
    BY <1>1, <2>3
  <2>6. \A j \in 1..N : \A i \in 1..j :
          Compressed[i] <= Compressed[j] /\ (Compressed[i] = Compressed[j] => Session[i] = Session[j])
    BY <2>4, <2>5, Nondecreasing
  <2> QED BY <1>1, <2>1, <2>3, <2>6
<1> QED BY <1>2, <1>3

\* The events up to an instant are the first ones.
LEMMA DueIs ==
  ASSUME TapeOK, NEW ms \in Nat
  PROVE  Due(ms) \in 0..N /\ \A i \in Events : i <= Due(ms) <=> Schedule[i] <= ms
<1>1. N \in Nat \ {0} /\ Events = 1..N
  BY SessionIs
<1> DEFINE All == {n \in 0..N : \A i \in Events : i > n => Schedule[i] > ms}
<1>2. All \in SUBSET Nat /\ N \in All
  BY <1>1
<1>3. PICK n \in All : \A m \in All : n <= m
  BY <1>2, LeastNat
<1>4. n # 0 => Schedule[n] <= ms
  <2> SUFFICES ASSUME n # 0, ~(Schedule[n] <= ms) PROVE FALSE
    OBVIOUS
  <2>1. n - 1 \in 0..N /\ n - 1 \notin All
    BY <1>1, <1>3
  <2>2. Schedule[n] \in Nat
    BY <1>1, <1>3, ScheduleIs
  <2>3. PICK i \in Events : i > n - 1 /\ ~(Schedule[i] > ms)
    BY <2>1
  <2>4. i # n
    BY <2>2, <2>3
  <2> QED BY <1>1, <1>3, <2>3, <2>4
<1>5. {i \in Events : Schedule[i] <= ms} = 1..n
  <2>1. \A i \in Events : i <= n => Schedule[i] <= Schedule[n] /\ Schedule[n] \in Nat /\ Schedule[i] \in Nat
    BY <1>1, <1>3, ScheduleIs
  <2>2. \A i \in Events : Schedule[i] \in Nat
    BY ScheduleIs
  <2> QED BY <1>1, <1>3, <1>4, <2>1, <2>2
<1>6. Cardinality(1..n) = n
  BY <1>1, <1>3, FS_Interval
<1>7. Due(ms) = n
  BY <1>5, <1>6 DEF Due
<1> QED BY <1>1, <1>3, <1>5, <1>7

\* A point of the playback timeline falls between its neighbours in the session.

LEMMA SessionMsIs ==
  ASSUME TapeOK, NEW ms \in Nat
  PROVE  LET i == Due(ms) IN
         /\ SessionMsAt(ms) \in Nat
         /\ i = 0 => SessionMsAt(ms) = Session[1]
         /\ i # 0 => SessionMsAt(ms) >= Session[i]
         /\ i # N => SessionMsAt(ms) <= Session[i + 1]
<1>1. N \in Nat \ {0} /\ Events = 1..N /\ \A i \in Events : Session[i] \in Nat /\ Schedule[i] \in Nat
  BY SessionIs, ScheduleIs
<1>2. Due(ms) \in 0..N /\ \A i \in Events : i <= Due(ms) <=> Schedule[i] <= ms
  BY DueIs
<1> DEFINE d == Due(ms)
<1> HIDE DEF d
<1>3. CASE d = 0
  BY <1>1, <1>2, <1>3 DEF d, SessionMsAt, N
<1>4. CASE d = N
  BY <1>1, <1>2, <1>4 DEF d, SessionMsAt, N
<1>5. CASE d \in 1..(N - 1)
  <2>1. d \in Events /\ d + 1 \in Events
    BY <1>1, <1>5
  <2>2. Schedule[d] <= ms /\ ms < Schedule[d + 1]
    BY <1>1, <1>2, <2>1 DEF d
  <2> DEFINE a == Session[d + 1] - Session[d]
             x == ms - Schedule[d]
             w == Schedule[d + 1] - Schedule[d]
  <2>3. a \in Nat /\ x \in Nat /\ w \in Nat \ {0} /\ x <= w
    <3>1. Session[d] <= Session[d + 1]
      BY <1>1, <1>5, <2>1 DEF TapeOK
    <3> QED BY <1>1, <2>1, <2>2, <3>1
  <2>4. SessionMsAt(ms) = Session[d] + ((a * x) \div w)
    BY <1>1, <1>5, <2>1 DEF d, SessionMsAt, N
  <2>5. (a * x) \div w \in Nat /\ (a * x) \div w <= a
    <3> HIDE DEF a, x, w
    <3> QED BY <2>3, DivBound
  <2>6. Session[d] + a = Session[d + 1]
    BY <1>1, <2>1
  <2> HIDE DEF a, x, w
  <2> QED BY <1>1, <1>5, <2>1, <2>3, <2>4, <2>5, <2>6 DEF d
<1> QED BY <1>1, <1>2, <1>3, <1>4, <1>5 DEF d

\* The session runs forward with the playback timeline.
LEMMA SessionMsForward ==
  ASSUME TapeOK, NEW a \in Nat, NEW b \in Nat, a <= b
  PROVE  SessionMsAt(a) <= SessionMsAt(b)
<1>1. N \in Nat \ {0} /\ Events = 1..N /\ \A i \in Events : Session[i] \in Nat /\ Schedule[i] \in Nat
  BY SessionIs, ScheduleIs
<1>2. /\ Due(a) \in 0..N /\ \A i \in Events : i <= Due(a) <=> Schedule[i] <= a
      /\ Due(b) \in 0..N /\ \A i \in Events : i <= Due(b) <=> Schedule[i] <= b
  BY DueIs
<1> DEFINE d == Due(a)
           e == Due(b)
<1>3. d <= e
  <2>1. d # 0 => d \in Events /\ Schedule[d] <= a
    BY <1>1, <1>2
  <2>2. d # 0 => Schedule[d] <= b
    BY <1>1, <2>1
  <2> QED BY <1>1, <1>2, <2>1, <2>2
<1>4. /\ SessionMsAt(a) \in Nat /\ SessionMsAt(b) \in Nat
      /\ d = 0 => SessionMsAt(a) = Session[1]
      /\ e = 0 => SessionMsAt(b) = Session[1]
      /\ d # N => SessionMsAt(a) <= Session[d + 1]
      /\ e # 0 => SessionMsAt(b) >= Session[e]
  BY SessionMsIs
<1>5. CASE e = 0
  BY <1>1, <1>2, <1>3, <1>4, <1>5
<1>6. CASE e # 0 /\ d < e
  <2>1. d + 1 \in Events /\ e \in Events /\ d + 1 <= e /\ d # N
    BY <1>1, <1>2, <1>6
  <2>2. Session[d + 1] <= Session[e]
    BY <2>1 DEF TapeOK
  <2> HIDE DEF d, e
  <2> QED BY <1>1, <1>4, <1>6, <2>1, <2>2
<1>7. CASE d = e /\ d = N
  <2>1. N \in Events
    BY <1>1
  <2>2. SessionMsAt(a) = Session[N] + (a - Schedule[N]) /\ SessionMsAt(b) = Session[N] + (b - Schedule[N])
    BY <1>1, <1>7 DEF SessionMsAt, N
  <2> QED BY <1>1, <2>1, <2>2
<1>8. CASE d = e /\ d \in 1..(N - 1)
  <2>1. d \in Events /\ d + 1 \in Events
    BY <1>1, <1>8
  <2> DEFINE gap == Session[d + 1] - Session[d]
             x == a - Schedule[d]
             y == b - Schedule[d]
             w == Schedule[d + 1] - Schedule[d]
  <2>2. Schedule[d] <= a /\ Schedule[d] <= b /\ a < Schedule[d + 1] /\ b < Schedule[d + 1]
    BY <1>1, <1>2, <1>8, <2>1
  <2>3. gap \in Nat /\ x \in Nat /\ y \in Nat /\ w \in Nat \ {0} /\ x <= y /\ y <= w
    <3>1. Session[d] <= Session[d + 1]
      BY <1>1, <1>8, <2>1 DEF TapeOK
    <3>2. {Session[d], Session[d + 1], Schedule[d], Schedule[d + 1]} \subseteq Nat
      BY <1>1, <2>1
    <3> HIDE DEF d
    <3> QED BY <2>2, <3>1, <3>2
  <2>4. /\ SessionMsAt(a) = Session[d] + ((gap * x) \div w)
        /\ SessionMsAt(b) = Session[d] + ((gap * y) \div w)
    BY <1>1, <1>8, <2>1 DEF SessionMsAt, N
  <2>5. (gap * x) \div w \in Nat /\ (gap * y) \div w \in Nat /\ (gap * x) \div w <= (gap * y) \div w
    <3> HIDE DEF gap, x, y, w
    <3> QED BY <2>3, DivBound
  <2>6. Session[d] \in Nat
    BY <1>1, <2>1
  <2> HIDE DEF gap, x, y, w, d, e
  <2> QED BY <2>4, <2>5, <2>6
<1> QED BY <1>1, <1>2, <1>3, <1>5, <1>6, <1>7, <1>8

\* At an event's place on the playback timeline the session stands at the event.
LEMMA SessionMsAtEvent ==
  ASSUME TapeOK, NEW i \in Events
  PROVE  SessionMsAt(Schedule[i]) = Session[i]
<1>1. N \in Nat \ {0} /\ Events = 1..N /\ \A j \in Events : Session[j] \in Nat /\ Schedule[j] \in Nat
  BY SessionIs, ScheduleIs
<1> DEFINE d == Due(Schedule[i])
<1>2. d \in 0..N /\ \A j \in Events : j <= d <=> Schedule[j] <= Schedule[i]
  BY <1>1, DueIs
<1>3. d \in Events /\ i <= d
  BY <1>1, <1>2
<1>4. Schedule[d] = Schedule[i] /\ Session[d] = Session[i]
  <2>1. Schedule[i] <= Schedule[d] /\ (Schedule[i] = Schedule[d] => Session[i] = Session[d])
    BY <1>1, <1>3, ScheduleIs
  <2>2. Schedule[d] <= Schedule[i]
    BY <1>1, <1>2, <1>3
  <2> HIDE DEF d
  <2> QED BY <1>1, <1>3, <2>1, <2>2
<1>5. CASE d = N
  <2>1. SessionMsAt(Schedule[i]) = Session[d] + (Schedule[i] - Schedule[d])
    BY <1>1, <1>5 DEF SessionMsAt, N
  <2> QED BY <1>1, <1>3, <1>4, <2>1
<1>6. CASE d # N
  <2>1. d + 1 \in Events
    BY <1>1, <1>3, <1>6
  <2> DEFINE gap == Session[d + 1] - Session[d]
             w == Schedule[d + 1] - Schedule[d]
  <2>2. SessionMsAt(Schedule[i]) = Session[d] + ((gap * (Schedule[i] - Schedule[d])) \div w)
    BY <1>1, <1>3, <1>6 DEF SessionMsAt, N
  <2>3. Schedule[i] - Schedule[d] = 0
    BY <1>1, <1>4
  <2>4. gap \in Nat /\ w \in Nat \ {0}
    <3>1. Session[d] <= Session[d + 1] /\ Session[d] \in Nat /\ Session[d + 1] \in Nat
      BY <1>1, <1>3, <2>1 DEF TapeOK
    <3>2. ~(Schedule[d + 1] <= Schedule[i])
      BY <1>1, <1>2, <1>3, <2>1
    <3> QED BY <1>1, <1>3, <1>4, <2>1, <3>1, <3>2
  <2>5. (gap * 0) \div w = 0
    <3> HIDE DEF gap, w
    <3> QED BY <2>4, DivZero
  <2> HIDE DEF gap, w
  <2> QED BY <1>1, <1>3, <1>4, <2>2, <2>3, <2>5
<1> QED BY <1>5, <1>6

-----------------------------------------------------------------------------
\* The world.

Fields == {"told", "now", "files", "territory", "adopted", "bumped"}

\* The first events, and those of them whose path lands in the world.
Told(n)    == [i \in 1..n |-> <<i, Session[i]>>]
Landing(n) == {i \in 1..n : tape.what[i] \in {"local", "touch"}}

\* The recording names the checkout before it touches it.
TapeAnnounces == \A i \in Events : tape.what[i] = "touch" => \E j \in 1..(i - 1) : tape.what[j] = "cwd"

\* ApplyAll runs through the worlds between; that the run exists comes first.
IsRun(f, w, from, n) == f = [k \in (from - 1)..n |-> IF k < from THEN w ELSE Apply(f[k - 1], k)]

LEMMA RunExists ==
  ASSUME NEW w, NEW from \in Nat \ {0}, NEW to \in Nat, from <= to
  PROVE  \E f : IsRun(f, w, from, to)
<1> DEFINE Bad == {n \in (from - 1)..to : ~ \E f : IsRun(f, w, from, n)}
<1> SUFFICES ASSUME Bad # {} PROVE FALSE
  OBVIOUS
<1>1. Bad \in SUBSET Nat
  OBVIOUS
<1>2. PICK n \in Bad : \A m \in Bad : n <= m
  BY <1>1, LeastNat
<1>3. n # from - 1
  <2>1. IsRun([k \in (from - 1)..(from - 1) |-> w], w, from, from - 1)
    BY DEF IsRun
  <2> QED BY <2>1
<1>4. n \in from..to /\ n - 1 \in (from - 1)..to /\ n - 1 \notin Bad
  BY <1>2, <1>3
<1>5. PICK f : IsRun(f, w, from, n - 1)
  BY <1>4
<1> DEFINE g == [k \in (from - 1)..n |-> IF k = n THEN Apply(f[n - 1], n) ELSE f[k]]
<1>6. \A k \in (from - 1)..(n - 1) : f[k] = IF k < from THEN w ELSE Apply(f[k - 1], k)
  BY <1>5 DEF IsRun
<1>7. \A k \in (from - 1)..n : g[k] = IF k < from THEN w ELSE Apply(g[k - 1], k)
  BY <1>4, <1>6
<1>8. g = [k \in (from - 1)..n |-> IF k < from THEN w ELSE Apply(g[k - 1], k)]
  <2>1. g = [k \in (from - 1)..n |-> g[k]]
    OBVIOUS
  <2> HIDE DEF g
  <2> QED BY <1>7, <2>1
<1> HIDE DEF g
<1>9. IsRun(g, w, from, n)
  BY <1>8 DEF IsRun
<1> QED BY <1>2, <1>9

LEMMA ApplyAllRuns ==
  ASSUME NEW w, NEW from \in Nat \ {0}, NEW to \in Nat, from <= to
  PROVE  \E f : /\ f[from - 1] = w
                /\ \A k \in from..to : f[k] = Apply(f[k - 1], k)
                /\ ApplyAll(w, from, to) = f[to]
<1> DEFINE f == CHOOSE f : f = [k \in (from - 1)..to |-> IF k < from THEN w ELSE Apply(f[k - 1], k)]
<1>0. \E g : g = [k \in (from - 1)..to |-> IF k < from THEN w ELSE Apply(g[k - 1], k)]
  <2>1. PICK g : IsRun(g, w, from, to)
    BY RunExists
  <2> QED BY <2>1, Zenon DEF IsRun
<1>1. f = [k \in (from - 1)..to |-> IF k < from THEN w ELSE Apply(f[k - 1], k)]
  BY <1>0, Zenon
<1>2. ApplyAll(w, from, to) = f[to]
  BY Zenon DEF ApplyAll
<1> HIDE DEF f
<1>3. f[from - 1] = w /\ \A k \in from..to : f[k] = Apply(f[k - 1], k)
  BY <1>1
<1> QED BY <1>2, <1>3

\* The world a driver just opened makes of the events: one event after the other.
LEMMA PlayedNext ==
  ASSUME NEW k \in Nat
  PROVE  Played(0) = Fresh /\ Played(k + 1) = Apply(Played(k), k + 1)
<1>1. Played(0) = Fresh
  BY DEF Played, ApplyAll
<1>2. PICK g : /\ g[1 - 1] = Fresh
               /\ \A j \in 1..(k + 1) : g[j] = Apply(g[j - 1], j)
               /\ ApplyAll(Fresh, 1, k + 1) = g[k + 1]
  <2>1. 1 \in Nat \ {0} /\ k + 1 \in Nat /\ 1 <= k + 1
    OBVIOUS
  <2> QED BY <2>1, ApplyAllRuns
<1>3. g[0] = Fresh /\ g[k + 1] = Apply(g[k], k + 1) /\ Played(k + 1) = g[k + 1]
  BY <1>2 DEF Played
<1>4. Played(k) = g[k]
  <2>1. CASE k = 0
    BY <1>1, <1>3, <2>1
  <2>2. CASE k # 0
    <3>1. PICK f : /\ f[1 - 1] = Fresh
                   /\ \A j \in 1..k : f[j] = Apply(f[j - 1], j)
                   /\ ApplyAll(Fresh, 1, k) = f[k]
      <4>1. 1 \in Nat \ {0} /\ 1 <= k
        BY <2>2
      <4> QED BY <4>1, ApplyAllRuns
    <3> DEFINE Bad == {j \in 0..k : f[j] # g[j]}
    <3>2. Bad = {}
      <4> SUFFICES ASSUME Bad # {} PROVE FALSE
        OBVIOUS
      <4>1. Bad \in SUBSET Nat
        OBVIOUS
      <4>2. PICK j \in Bad : \A m \in Bad : j <= m
        BY <4>1, LeastNat
      <4>3. j # 0
        BY <1>3, <3>1
      <4>4. j \in 1..k /\ j \in 1..(k + 1) /\ j - 1 \in 0..k /\ j - 1 \notin Bad
        BY <4>2, <4>3
      <4>5. f[j - 1] = g[j - 1]
        BY <4>4
      <4>6. f[j] = Apply(f[j - 1], j) /\ g[j] = Apply(g[j - 1], j)
        BY <1>2, <3>1, <4>4
      <4> QED BY <4>2, <4>5, <4>6
    <3>3. k \in 0..k
      OBVIOUS
    <3> QED BY <3>1, <3>2, <3>3 DEF Played
  <2> QED BY <2>1, <2>2
<1> QED BY <1>1, <1>3, <1>4

\* It is a world, and has adopted the checkout as soon as it was named.
PlayedWell(k) ==
  /\ Played(k) = [x \in Fields |-> Played(k)[x]]
  /\ Played(k).adopted \in BOOLEAN
  /\ (\E j \in 1..k : tape.what[j] = "cwd") => Played(k).adopted

LEMMA PlayedIs ==
  ASSUME NEW n \in Nat
  PROVE  PlayedWell(n)
<1> DEFINE Bad == {k \in Nat : ~PlayedWell(k)}
<1> SUFFICES ASSUME Bad # {} PROVE FALSE
  OBVIOUS
<1>1. Bad \in SUBSET Nat
  OBVIOUS
<1>2. PICK k \in Bad : \A m \in Bad : k <= m
  BY <1>1, LeastNat
<1>3. k # 0
  <2>1. Fresh = [x \in Fields |-> Fresh[x]] /\ Fresh.adopted = FALSE
    BY DEF Fresh, Fields
  <2>2. Played(0) = Fresh /\ ~ \E j \in 1..0 : tape.what[j] = "cwd"
    BY PlayedNext
  <2>3. PlayedWell(0)
    BY <2>1, <2>2, Zenon DEF PlayedWell
  <2> QED BY <1>2, <2>3
<1>4. k - 1 \in Nat /\ k - 1 \notin Bad /\ (k - 1) + 1 = k
  BY <1>2, <1>3
<1>5. PICK w : w = Played(k - 1)
  OBVIOUS
<1>6. /\ w = [x \in Fields |-> w[x]]
      /\ w.adopted \in BOOLEAN
      /\ (\E j \in 1..(k - 1) : tape.what[j] = "cwd") => w.adopted
  <2>1. PlayedWell(k - 1)
    BY <1>4
  <2> QED BY <1>5, <2>1, Zenon DEF PlayedWell
<1>7. Played(k) = Apply(w, k)
  BY <1>4, <1>5, PlayedNext
<1> DEFINE r == Apply(w, k)
<1>8. r = [x \in Fields |-> r[x]] /\ r.adopted = (w.adopted \/ tape.what[k] = "cwd")
  BY <1>6 DEF Apply, Fields
<1> HIDE DEF r
<1>9. (\E j \in 1..k : tape.what[j] = "cwd") => r.adopted
  <2> SUFFICES ASSUME NEW j \in 1..k, tape.what[j] = "cwd" PROVE r.adopted
    OBVIOUS
  <2>1. CASE j = k
    BY <1>8, <2>1, Zenon
  <2>2. CASE j # k
    <3>1. j \in 1..(k - 1)
      BY <2>2
    <3>2. w.adopted
      BY <1>6, <3>1, Zenon
    <3> QED BY <1>8, <3>2, Zenon
  <2> QED BY <2>1, <2>2
<1>10. r.adopted \in BOOLEAN
  BY <1>8, Zenon
<1>11. PlayedWell(k)
  BY <1>7, <1>8, <1>9, <1>10, Zenon DEF PlayedWell, r
<1> QED BY <1>2, <1>11

\* Its territory is, from its clock on, that of the events it was told.
Aged(w, k) ==
  /\ Kept(w.territory)
  /\ TapeAnnounces =>
       \A b \in Nat : b >= w.now => Decay(w.territory, b) = Decay(Played(k).territory, b)

LEMMA AgedAtFirst ==
  ASSUME NEW w, w.territory = Nowhere
  PROVE  Aged(w, 0)
<1>1. Played(0).territory = Nowhere
  BY PlayedNext DEF Fresh
<1> QED BY <1>1, NowhereKept DEF Aged

\* Nothing of it is left to decay at its clock.
Settled(w) == Decay(w.territory, w.now) = w.territory

\* A world that was told the first k events since its files were those of a snapshot.
Follows(w, k, old) ==
  /\ w = [x \in Fields |-> w[x]]
  /\ w.told = Told(k)
  /\ w.adopted \in BOOLEAN /\ w.bumped \in BOOLEAN
  /\ w.files \subseteq 1..k
  /\ TapeAnnounces => w.files = Landing(k)
  /\ (\E j \in 1..k : tape.what[j] = "cwd") => w.adopted
  /\ ~w.bumped => w.files = old
  /\ Aged(w, k)

LEMMA ToldSome == \A n \in Nat : Told(n) = <<>> <=> n = 0
<1> SUFFICES ASSUME NEW n \in Nat PROVE Told(n) = <<>> <=> n = 0
  OBVIOUS
<1>1. DOMAIN Told(n) = 1..n
  BY DEF Told
<1>2. n = 0 => Told(n) = <<>>
  BY DEF Told
<1>3. Told(n) = <<>> => DOMAIN Told(n) = {}
  OBVIOUS
<1> QED BY <1>1, <1>2, <1>3

LEMMA OneMore ==
  ASSUME TapeOK, NEW k \in 0..(N - 1)
  PROVE  Append(Told(k), <<k + 1, Session[k + 1]>>) = Told(k + 1)
<1>1. Told(k) \in Seq({<<i, Session[i]>> : i \in Nat}) /\ Len(Told(k)) = k
  BY SessionIs DEF Told
<1> QED BY <1>1, SessionIs DEF Told

\* What an event does to the territory it does whatever ticks came before it.
LEMMA ApplyAged ==
  ASSUME TapeOK, NEW w, NEW k \in 0..(N - 1), w = [x \in Fields |-> w[x]], w.adopted \in BOOLEAN,
         (\E j \in 1..k : tape.what[j] = "cwd") => w.adopted,
         Aged(w, k), w.now \in 0..Session[k + 1], NEW r, r = Apply(w, k + 1)
  PROVE  Aged(r, k + 1)
<1> DEFINE i == k + 1
<1>1. N \in Nat \ {0} /\ Events = 1..N /\ i \in Events /\ Session[i] \in Nat /\ k \in Nat
  BY SessionIs
<1>2. PICK at \in Nat, path \in Place, weight \in Nat :
        at = Session[i] /\ path = tape.place[i] /\ weight = tape.weight[i]
  BY <1>1 DEF TapeOK, EvidenceTyped
<1>3. Later(w.now, Session[i]) = at
  BY <1>1, <1>2, LaterIs
<1> DEFINE Lands(v) == tape.what[i] = "local" \/ (tape.what[i] = "touch" /\ v.adopted)
           After(v) == IF Lands(v) THEN Observe(v.territory, path, weight, at) ELSE v.territory
<1>4. \A v : v = [x \in Fields |-> v[x]] => Apply(v, i).territory = After(v)
  BY <1>2 DEF Apply, Fields
<1>5. r.territory = After(w) /\ r.now = at
  <2>1. r.now = Later(w.now, Session[i])
    BY DEF Apply, Fields
  <2> QED BY <1>3, <1>4, <2>1
<1>6. PICK v : v = Played(k)
  OBVIOUS
<1>7. Played(i).territory = After(v)
  <2>1. v = [x \in Fields |-> v[x]]
    BY <1>1, <1>6, PlayedIs, Zenon DEF PlayedWell
  <2>2. Played(i) = Apply(v, i)
    BY <1>1, <1>6, PlayedNext
  <2> QED BY <1>4, <2>1, <2>2
<1>8. TapeAnnounces => (Lands(w) <=> Lands(v))
  <2> SUFFICES ASSUME TapeAnnounces, tape.what[i] = "touch" PROVE w.adopted /\ v.adopted
    OBVIOUS
  <2>1. \E j \in 1..k : tape.what[j] = "cwd"
    BY <1>1 DEF TapeAnnounces
  <2>2. v.adopted
    BY <1>1, <1>6, <2>1, PlayedIs, Zenon DEF PlayedWell
  <2> QED BY <2>1, <2>2
<1> HIDE DEF Lands
<1>9. Kept(r.territory)
  <2>1. Kept(w.territory)
    BY DEF Aged
  <2> QED BY <1>5, <2>1, ObserveKept
<1>10. ASSUME TapeAnnounces, NEW b \in Nat, b >= r.now
       PROVE  Decay(r.territory, b) = Decay(Played(i).territory, b)
  <2>1. \A c \in Nat : c >= w.now => Decay(w.territory, c) = Decay(v.territory, c)
    BY <1>6, <1>10 DEF Aged
  <2>2. at >= w.now /\ b >= w.now
    BY <1>2, <1>5, <1>10
  <2>3. CASE ~Lands(w)
    BY <1>5, <1>7, <1>8, <1>10, <2>1, <2>2, <2>3
  <2>4. CASE Lands(w) /\ weight = 0
    <3>1. r.territory = w.territory /\ Played(i).territory = v.territory
      BY <1>5, <1>7, <1>8, <1>10, <2>4 DEF Observe
    <3> QED BY <2>1, <2>2, <3>1
  <2>5. CASE Lands(w) /\ weight # 0
    <3>1. Decay(w.territory, at) = Decay(v.territory, at)
      BY <2>1, <2>2
    <3>2. Observe(w.territory, path, weight, at) = Observe(v.territory, path, weight, at)
      BY <2>5, <3>1, ObserveAlike
    <3>3. r.territory = Played(i).territory
      BY <1>5, <1>7, <1>8, <1>10, <2>5, <3>2
    <3> QED BY <3>3
  <2> QED BY <2>3, <2>4, <2>5
<1> QED BY <1>9, <1>10 DEF Aged

LEMMA ApplyIs ==
  ASSUME TapeOK, NEW w, NEW old, NEW k \in 0..(N - 1), Follows(w, k, old), w.now \in 0..Session[k + 1]
  PROVE  Follows(Apply(w, k + 1), k + 1, old) /\ Apply(w, k + 1).now = Session[k + 1]
<1> DEFINE i == k + 1
           r == Apply(w, i)
           landed == tape.what[i] = "local" \/ (tape.what[i] = "touch" /\ w.adopted)
<1>1. N \in Nat \ {0} /\ Events = 1..N /\ i \in Events /\ Session[i] \in Nat
  BY SessionIs
<1>2. Later(w.now, Session[i]) = Session[i]
  BY <1>1, LaterIs
<1>3. /\ r = [x \in Fields |-> r[x]]
      /\ r.told = Append(w.told, <<i, Later(w.now, Session[i])>>)
      /\ r.now = Later(w.now, Session[i])
      /\ r.adopted = (w.adopted \/ tape.what[i] = "cwd")
      /\ r.files = IF landed THEN w.files \cup {i} ELSE w.files
      /\ r.bumped = (w.bumped \/ landed)
  BY DEF Apply, Follows, Fields
<1> HIDE DEF r
<1>4. r.told = Told(k + 1)
  BY <1>2, <1>3, OneMore DEF Follows
<1>5. (\E j \in 1..i : tape.what[j] = "cwd") => r.adopted
  <2> SUFFICES ASSUME NEW j \in 1..i, tape.what[j] = "cwd" PROVE r.adopted
    OBVIOUS
  <2>1. CASE j = i
    BY <1>3, <2>1, Zenon
  <2>2. CASE j # i
    <3>1. j \in 1..k
      BY <2>2
    <3>2. w.adopted
      BY <3>1, Zenon DEF Follows
    <3> QED BY <1>3, <3>2, Zenon
  <2> QED BY <2>1, <2>2
<1>6. TapeAnnounces => r.files = Landing(i)
  <2> SUFFICES ASSUME TapeAnnounces PROVE r.files = Landing(i)
    OBVIOUS
  <2>1. tape.what[i] = "touch" => w.adopted
    BY <1>1 DEF TapeAnnounces, Follows
  <2>2. w.files = Landing(k)
    BY DEF Follows
  <2> QED BY <1>3, <2>1, <2>2 DEF Landing
<1>7. r.files \subseteq 1..i
  <2>1. r.files \subseteq w.files \cup {i}
    BY <1>3, Zenon
  <2>2. w.files \subseteq 1..k
    BY DEF Follows
  <2> QED BY <2>1, <2>2
<1>8. ~r.bumped => r.files = old
  BY <1>3, Zenon DEF Follows
<1>9. r.adopted \in BOOLEAN /\ r.bumped \in BOOLEAN
  BY <1>3, Zenon
<1>10. Aged(r, i)
  <2>1. /\ w = [x \in Fields |-> w[x]] /\ w.adopted \in BOOLEAN /\ Aged(w, k)
        /\ (\E j \in 1..k : tape.what[j] = "cwd") => w.adopted
    BY Zenon DEF Follows
  <2> QED BY <2>1, ApplyAged DEF r
<1>11. Follows(r, i, old)
  BY <1>3, <1>4, <1>5, <1>6, <1>7, <1>8, <1>9, <1>10, Zenon DEF Follows
<1> QED BY <1>2, <1>3, <1>11 DEF r

\* After all of them the world follows the last, and its clock stands there.
LEMMA ApplyAllIs ==
  ASSUME TapeOK, NEW w, NEW old, NEW c \in 0..N, NEW to \in c..N, Follows(w, c, old),
         c < N => w.now \in 0..Session[c + 1]
  PROVE  /\ Follows(ApplyAll(w, c + 1, to), to, old)
         /\ ApplyAll(w, c + 1, to).now = IF to = c THEN w.now ELSE Session[to]
<1>1. N \in Nat \ {0} /\ Events = 1..N /\ \A i \in Events : Session[i] \in Nat
  BY SessionIs
<1>2. CASE to = c
  BY <1>1, <1>2 DEF ApplyAll
<1>3. CASE to # c
  <2>1. PICK f : /\ f[(c + 1) - 1] = w
                 /\ \A k \in (c + 1)..to : f[k] = Apply(f[k - 1], k)
                 /\ ApplyAll(w, c + 1, to) = f[to]
    <3> DEFINE from == c + 1
    <3>1. from \in Nat \ {0} /\ to \in Nat /\ from <= to
      BY <1>1, <1>3
    <3> HIDE DEF from
    <3>2. \E f : /\ f[from - 1] = w
                 /\ \A k \in from..to : f[k] = Apply(f[k - 1], k)
                 /\ ApplyAll(w, from, to) = f[to]
      BY <3>1, ApplyAllRuns
    <3> QED BY <3>2, Zenon DEF from
  <2> DEFINE Bad == {k \in (c + 1)..to : ~(Follows(f[k], k, old) /\ f[k].now = Session[k])}
  <2>2. Bad = {}
    <3> SUFFICES ASSUME Bad # {} PROVE FALSE
      OBVIOUS
    <3>1. Bad \in SUBSET Nat
      BY <1>1
    <3>2. PICK k \in Bad : \A m \in Bad : k <= m
      BY <3>1, LeastNat
    <3>3. k \in (c + 1)..to /\ k - 1 \in 0..(N - 1) /\ (k - 1) + 1 = k
      BY <1>1, <3>2
    <3>4. Follows(f[k - 1], k - 1, old) /\ f[k - 1].now \in 0..Session[(k - 1) + 1]
      <4>1. CASE k = c + 1
        BY <1>1, <2>1, <3>3, <4>1
      <4>2. CASE k # c + 1
        <5>1. k - 1 \in (c + 1)..to /\ k - 1 \notin Bad
          BY <1>1, <3>2, <3>3, <4>2
        <5>2. k - 1 \in Events /\ k \in Events /\ k - 1 <= k
          BY <1>1, <3>3, <5>1
        <5>3. Session[k - 1] \in Nat /\ Session[k] \in Nat /\ Session[k - 1] <= Session[k]
          BY <1>1, <5>2 DEF TapeOK
        <5> QED BY <3>3, <5>1, <5>3
      <4> QED BY <4>1, <4>2
    <3>5. f[k] = Apply(f[k - 1], (k - 1) + 1)
      BY <2>1, <3>3
    <3>6. Follows(f[k], k, old) /\ f[k].now = Session[k]
      <4>1. Follows(f[k], (k - 1) + 1, old) /\ f[k].now = Session[(k - 1) + 1]
        BY <3>3, <3>4, <3>5, ApplyIs
      <4> QED BY <3>3, <4>1
    <3> QED BY <3>2, <3>6
  <2>3. to \in (c + 1)..to
    BY <1>1, <1>3
  <2> QED BY <1>3, <2>1, <2>2, <2>3
<1> QED BY <1>2, <1>3

-----------------------------------------------------------------------------
\* The driver.

Players == [cursor : 0..N, position : 0..(Duration * Unit), playing : BOOLEAN, applied : 0..N]

\* A player and its world before they are brought to the instant ms.
Behind(s, old, ms) ==
  /\ s = [p |-> s.p, w |-> s.w]
  /\ s.p \in Players
  /\ s.p.applied = s.p.cursor
  /\ Follows(s.w, s.p.cursor, old)
  /\ \A i \in Events : i <= s.p.cursor => Schedule[i] <= ms
  /\ s.w.now \in Nat
  /\ s.p.cursor < N => s.w.now <= Session[s.p.cursor + 1]
  /\ s.w.now <= SessionMsAt(ms)

\* A player and its world at rest: events of the player's own instant may be ahead.
Placed(s, old) ==
  /\ s = [p |-> s.p, w |-> s.w]
  /\ s.p \in Players
  /\ s.p.applied = s.p.cursor
  /\ Follows(s.w, s.p.cursor, old)
  /\ IF s.p.cursor = 0 THEN s.w.now \in 0..Session[1] ELSE s.w.now = SessionMsAt(Ms(s.p))
  /\ s.p.cursor # 0 => Settled(s.w)
  /\ \A i \in Events : /\ i <= s.p.cursor => Schedule[i] <= Ms(s.p)
                       /\ i > s.p.cursor => Schedule[i] >= Ms(s.p)

\* Nothing of the player's own instant is ahead.
CaughtUp(p) == \A i \in Events : i > p.cursor => Schedule[i] > Ms(p)

LEMMA DurationIs ==
  ASSUME TapeOK
  PROVE  Duration \in Nat /\ \A i \in Events : Schedule[i] \in 0..Duration
<1>1. N \in Nat \ {0} /\ Events = 1..N /\ N \in Events
  BY SessionIs
<1> QED BY <1>1, ScheduleIs DEF Duration, N

LEMMA MsIs ==
  ASSUME TapeOK
  PROVE  /\ \A ms \in Nat : (ms * Unit) \div Unit = ms
         /\ \A p \in Players : Ms(p) \in 0..Duration
         /\ \A a, b \in Nat : a <= b => a \div Unit <= b \div Unit
<1>1. Unit \in Nat \ {0} /\ Duration \in Nat
  BY DurationIs, PlaybackAssumption
<1>2. \A ms \in Nat : (ms * Unit) \div Unit = ms
  BY <1>1
<1>3. \A a, b \in Nat : a <= b => a \div Unit <= b \div Unit
  BY <1>1
<1>4. ASSUME NEW p \in Players PROVE Ms(p) \in 0..Duration
  <2>1. p.position \in Nat /\ Duration * Unit \in Nat /\ p.position <= Duration * Unit
    BY <1>1 DEF Players
  <2>2. p.position \div Unit <= Duration
    BY <1>1, <1>2, <1>3, <2>1
  <2>3. p.position \div Unit \in Nat
    BY <1>1, <2>1
  <2> QED BY <1>1, <2>2, <2>3 DEF Ms
<1> QED BY <1>2, <1>3, <1>4

LEMMA SessionMsFromFirst ==
  ASSUME TapeOK, NEW ms \in Nat
  PROVE  SessionMsAt(ms) \in Nat /\ Session[1] <= SessionMsAt(ms) /\ Session[1] \in Nat
<1>1. N \in Nat \ {0} /\ Events = 1..N /\ \A i \in Events : Session[i] \in Nat /\ Session[1] <= Session[i]
  BY SessionIs DEF TapeOK
<1>2. Due(ms) \in 0..N
  BY DueIs
<1>3. Due(ms) # 0 => Due(ms) \in Events
  BY <1>1, <1>2
<1>4. /\ SessionMsAt(ms) \in Nat
      /\ Due(ms) = 0 => SessionMsAt(ms) = Session[1]
      /\ Due(ms) # 0 => SessionMsAt(ms) >= Session[Due(ms)]
  BY SessionMsIs
<1>5. Session[1] \in Nat
  BY <1>1
<1> QED BY <1>1, <1>3, <1>4, <1>5

LEMMA TickIs ==
  ASSUME TapeOK, NEW w, NEW old, NEW k, Follows(w, k, old), w.now \in Nat, NEW ms \in Nat
  PROVE  /\ Follows(Tick(w, ms), k, old)
         /\ w.told # <<>> => Settled(Tick(w, ms))
         /\ w.now <= SessionMsAt(ms) => Tick(w, ms).now = SessionMsAt(ms)
<1> DEFINE r == Tick(w, ms)
<1>1. /\ r = [x \in Fields |-> r[x]]
      /\ r.told = w.told /\ r.files = w.files /\ r.adopted = w.adopted /\ r.bumped = w.bumped
      /\ r.now = Later(w.now, SessionMsAt(ms))
  BY DEF Tick, Follows, Fields
<1>2. w.now <= SessionMsAt(ms) => Later(w.now, SessionMsAt(ms)) = SessionMsAt(ms)
  BY SessionMsFromFirst, LaterIs
<1> HIDE DEF r
<1>3. Later(w.now, SessionMsAt(ms)) \in Nat /\ Later(w.now, SessionMsAt(ms)) >= w.now
  BY SessionMsFromFirst, LaterIs
<1>4. r.territory = IF w.told = <<>> THEN w.territory ELSE Decay(w.territory, r.now)
  BY DEF r, Tick, Follows, Fields
<1>5. PICK now \in Nat : now = r.now /\ now >= w.now
  BY <1>1, <1>3
<1>6. Kept(w.territory) /\ Aged(w, k)
  BY Zenon DEF Follows, Aged
<1>7. CASE w.told = <<>>
  <2>1. r.territory = w.territory
    BY <1>4, <1>7
  <2>2. \A b \in Nat : b >= r.now => b >= w.now
    BY <1>5
  <2>3. Aged(r, k)
    BY <1>6, <2>1, <2>2 DEF Aged
  <2> QED BY <1>1, <1>2, <1>7, <2>3, Zenon DEF Follows, r
<1>8. CASE w.told # <<>>
  <2>1. PICK t : t = w.territory /\ r.territory = Decay(t, now)
    BY <1>4, <1>5, <1>8
  <2>2. Kept(r.territory)
    BY <1>6, <2>1, DecayKept
  <2>3. \A b \in Nat : b >= now => Decay(r.territory, b) = Decay(t, b)
    BY <1>6, <2>1, DecayTwice
  <2>4. Aged(r, k)
    <3>1. ASSUME TapeAnnounces, NEW b \in Nat, b >= r.now
          PROVE  Decay(r.territory, b) = Decay(Played(k).territory, b)
      <4>1. b >= w.now
        BY <1>5, <3>1
      <4> QED BY <1>5, <1>6, <2>1, <2>3, <3>1, <4>1 DEF Aged
    <3> QED BY <2>2, <3>1 DEF Aged
  <2>5. Settled(r)
    BY <1>5, <2>1, <2>3 DEF Settled
  <2> QED BY <1>1, <1>2, <2>4, <2>5, Zenon DEF Follows, r
<1> QED BY <1>7, <1>8

LEMMA CatchesUp ==
  ASSUME TapeOK, NEW s, NEW old, NEW ms \in 0..Duration, Behind(s, old, ms), Ms(s.p) = ms
  PROVE  LET r == Ticked(ApplyThrough(s, ms), ms) IN
         Placed(r, old) /\ CaughtUp(r.p) /\ r.p.playing = s.p.playing
<1>1. N \in Nat \ {0} /\ Events = 1..N /\ ms \in Nat /\ \A i \in Events : Session[i] \in Nat /\ Schedule[i] \in Nat
  BY SessionIs, DurationIs, ScheduleIs
<1> DEFINE c == s.p.cursor
           due == Later(c, Due(ms))
           w == ApplyAll(s.w, c + 1, due)
           r == Ticked(ApplyThrough(s, ms), ms)
<1>2. Due(ms) \in 0..N /\ \A i \in Events : i <= Due(ms) <=> Schedule[i] <= ms
  BY <1>1, DueIs
<1>3. c \in 0..N /\ due \in c..N /\ due = (IF c >= Due(ms) THEN c ELSE Due(ms))
  <2>1. c \in 0..N
    BY DEF Behind, Players
  <2> QED BY <1>1, <1>2, <2>1, LaterIs
<1>4. \A i \in Events : i <= due <=> Schedule[i] <= ms
  BY <1>1, <1>2, <1>3 DEF Behind
<1>5. Follows(w, due, old) /\ w.now = IF due = c THEN s.w.now ELSE Session[due]
  <2>1. Follows(s.w, c, old) /\ (c < N => s.w.now \in 0..Session[c + 1])
    BY <1>1, <1>3 DEF Behind
  <2> HIDE DEF c, due
  <2> QED BY <1>3, <2>1, ApplyAllIs
<1>6. w.now \in Nat /\ w.now <= SessionMsAt(ms)
  <2>1. CASE due = c
    BY <1>5, <2>1 DEF Behind
  <2>2. CASE due # c
    <3>1. due \in Events /\ Schedule[due] <= ms
      BY <1>1, <1>3, <1>4, <2>2
    <3>2. SessionMsAt(Schedule[due]) <= SessionMsAt(ms)
      BY <1>1, <3>1, SessionMsForward
    <3> HIDE DEF due
    <3> QED BY <1>1, <1>5, <2>2, <3>1, <3>2, SessionMsAtEvent
  <2> QED BY <2>1, <2>2
<1>7. /\ Follows(Tick(w, ms), due, old) /\ Tick(w, ms).now = SessionMsAt(ms)
      /\ due # 0 => Settled(Tick(w, ms))
  <2>1. due # 0 => w.told # <<>>
    <3>1. w.told = Told(due)
      BY <1>5, Zenon DEF Follows
    <3>2. due \in Nat
      BY <1>1, <1>3
    <3> QED BY <3>1, <3>2, ToldSome
  <2> HIDE DEF w, due
  <2> QED BY <1>1, <1>5, <1>6, <2>1, TickIs
<1>8. /\ r = [p |-> r.p, w |-> r.w]
      /\ r.p = [s.p EXCEPT !.cursor = due, !.applied = @ + (due - c)]
      /\ r.w = Tick(w, ms)
  BY DEF Ticked, ApplyThrough
<1>9. /\ r.p \in Players /\ r.p.cursor = due /\ r.p.applied = due
      /\ r.p.position = s.p.position /\ r.p.playing = s.p.playing
  <2> DEFINE applied == s.p.applied + (due - c)
  <2>1. r.p = [s.p EXCEPT !.cursor = due, !.applied = applied]
    BY <1>8, Zenon
  <2>2. applied = due /\ due \in 0..N
    BY <1>1, <1>3 DEF Behind
  <2>3. s.p \in Players
    BY DEF Behind
  <2> HIDE DEF applied, due, r
  <2> QED BY <2>1, <2>2, <2>3 DEF Players
<1>10. Ms(r.p) = ms
  BY <1>9 DEF Ms
<1>11. due = 0 => SessionMsAt(ms) \in 0..Session[1]
  <2>1. due = 0 => Due(ms) = 0
    BY <1>2, <1>3
  <2>2. Due(ms) = 0 => SessionMsAt(ms) = Session[1]
    BY <1>1, SessionMsIs
  <2> QED BY <1>1, <2>1, <2>2
<1> HIDE DEF r, w, due, c
<1>12. CaughtUp(r.p)
  BY <1>1, <1>3, <1>4, <1>9, <1>10 DEF CaughtUp
<1>13. Placed(r, old)
  BY <1>1, <1>3, <1>4, <1>7, <1>8, <1>9, <1>10, <1>11 DEF Placed
<1> QED BY <1>9, <1>12, <1>13 DEF r

\* A player at rest is behind every later instant.
LEMMA PlacedBehind ==
  ASSUME TapeOK, NEW s, NEW old, Placed(s, old), NEW ms \in Nat, Ms(s.p) <= ms
  PROVE  Behind(s, old, ms)
<1>1. N \in Nat \ {0} /\ Events = 1..N /\ \A i \in Events : Session[i] \in Nat /\ Schedule[i] \in Nat
  BY SessionIs, ScheduleIs
<1>2. s.p.cursor \in 0..N /\ Ms(s.p) \in Nat
  BY MsIs, DurationIs DEF Placed, Players
<1>3. Session[1] <= SessionMsAt(ms) /\ SessionMsAt(Ms(s.p)) <= SessionMsAt(ms)
      /\ SessionMsAt(ms) \in Nat /\ SessionMsAt(Ms(s.p)) \in Nat
  BY <1>2, SessionMsFromFirst, SessionMsForward
<1>4. s.w.now \in Nat /\ s.w.now <= SessionMsAt(ms)
  BY <1>1, <1>2, <1>3 DEF Placed
<1>5. s.p.cursor < N => s.w.now <= Session[s.p.cursor + 1]
  <2> SUFFICES ASSUME s.p.cursor < N PROVE s.w.now <= Session[s.p.cursor + 1]
    OBVIOUS
  <2> DEFINE i == s.p.cursor + 1
  <2>1. i \in Events /\ i > s.p.cursor
    BY <1>1, <1>2
  <2>2. Ms(s.p) <= Schedule[i]
    BY <1>1, <1>2, <2>1 DEF Placed
  <2>3. SessionMsAt(Ms(s.p)) <= Session[i]
    BY <1>1, <1>2, <2>1, <2>2, SessionMsForward, SessionMsAtEvent
  <2> QED BY <1>1, <2>1, <2>3 DEF Placed
<1>6. \A i \in Events : i <= s.p.cursor => Schedule[i] <= ms
  BY <1>1, <1>2 DEF Placed
<1> QED BY <1>4, <1>5, <1>6 DEF Placed, Behind

LEMMA RewoundIs ==
  ASSUME TapeOK, NEW s, NEW old, Placed(s, old), NEW ms \in Nat
  PROVE  Behind(Rewound(s), old, ms)
<1> DEFINE r == Rewound(s)
<1>1. N \in Nat \ {0} /\ Events = 1..N /\ \A i \in Events : Session[i] \in Nat
  BY SessionIs
<1>2. /\ r = [p |-> r.p, w |-> r.w]
      /\ r.p = [s.p EXCEPT !.cursor = 0, !.applied = 0]
      /\ r.w = Reset(s.w)
  BY DEF Rewound
<1>3. r.p \in Players /\ r.p.cursor = 0 /\ r.p.applied = 0
  <2>1. s.p \in Players /\ 0 \in 0..N
    BY <1>1 DEF Placed
  <2> HIDE DEF r
  <2> QED BY <1>2, <2>1 DEF Players
<1>4. /\ r.w = [x \in Fields |-> r.w[x]]
      /\ r.w.told = <<>> /\ r.w.now = 0 /\ r.w.files = {} /\ r.w.bumped = TRUE
      /\ r.w.adopted = s.w.adopted /\ r.w.territory = Nowhere
  BY <1>2 DEF Reset, Cleared, Placed, Follows, Fields
<1>5. Follows(r.w, 0, old)
  <2>1. Told(0) = <<>>
    BY DEF Told
  <2>2. Landing(0) = {} /\ ~(\E j \in 1..0 : tape.what[j] = "cwd")
    BY DEF Landing
  <2>3. s.w.adopted \in BOOLEAN
    BY Zenon DEF Placed, Follows
  <2>4. r.w.files \subseteq 1..0
    BY <1>4, Zenon
  <2> HIDE DEF r
  <2>5. Aged(r.w, 0)
    BY <1>4, AgedAtFirst
  <2> QED BY <1>4, <2>1, <2>2, <2>3, <2>4, <2>5, Zenon DEF Follows
<1>6. 0 <= SessionMsAt(ms)
  BY SessionMsFromFirst
<1> HIDE DEF r
<1>7. Behind(r, old, ms)
  BY <1>1, <1>2, <1>3, <1>4, <1>5, <1>6 DEF Behind
<1> QED BY <1>7 DEF r

LEMMA MovedToIs ==
  ASSUME TapeOK, NEW s, NEW old, NEW ms \in 0..Duration, Behind(s, old, ms)
  PROVE  Behind(MovedTo(s, ms), old, ms) /\ Ms(MovedTo(s, ms).p) = ms
<1> DEFINE r == MovedTo(s, ms)
<1>1. Unit \in Nat \ {0} /\ Duration \in Nat
  BY DurationIs, PlaybackAssumption
<1>2. ms * Unit \in 0..(Duration * Unit)
  BY <1>1
<1>3. /\ r = [p |-> r.p, w |-> r.w]
      /\ r.p = [s.p EXCEPT !.position = ms * Unit]
      /\ r.w = s.w
  BY DEF MovedTo, Behind
<1>4. r.p \in Players /\ r.p.cursor = s.p.cursor /\ r.p.applied = s.p.applied /\ r.p.position = ms * Unit
  BY <1>2, <1>3 DEF Behind, Players
<1> HIDE DEF r
<1>5. Ms(r.p) = ms
  BY <1>1, <1>4, MsIs DEF Ms
<1>6. Behind(r, old, ms)
  BY <1>3, <1>4 DEF Behind
<1> QED BY <1>5, <1>6 DEF r

LEMMA SeekIs ==
  ASSUME TapeOK, NEW s, NEW old, Placed(s, old), NEW ms \in 0..Duration
  PROVE  Placed(Seek(s, ms), old)
<1> DEFINE from == IF ms < Ms(s.p) THEN Rewound(s) ELSE s
<1>1. ms \in Nat /\ Ms(s.p) \in Nat
  BY DurationIs, MsIs DEF Placed
<1>2. Behind(from, old, ms)
  BY <1>1, RewoundIs, PlacedBehind
<1> HIDE DEF from
<1>3. Behind(MovedTo(from, ms), old, ms) /\ Ms(MovedTo(from, ms).p) = ms
  BY <1>2, MovedToIs
<1>4. Placed(Ticked(ApplyThrough(MovedTo(from, ms), ms), ms), old)
  BY <1>3, CatchesUp
<1> QED BY <1>4 DEF Seek, from

LEMMA StepIs ==
  ASSUME TapeOK, NEW s, NEW old, Placed(s, old)
  PROVE  Placed(Step(s), old)
<1>1. N \in Nat \ {0} /\ Events = 1..N /\ \A i \in Events : Session[i] \in Nat /\ Schedule[i] \in Nat
  BY SessionIs, ScheduleIs
<1>2. CASE s.p.cursor = N
  BY <1>2 DEF Step, N
<1>3. CASE s.p.cursor # N
  <2> DEFINE i == s.p.cursor + 1
             on == [p |-> [s.p EXCEPT !.cursor = i, !.applied = @ + 1], w |-> Apply(s.w, i)]
             ms == Schedule[i]
             m == MovedTo(on, ms)
             r == Ticked(m, ms)
  <2>1. i \in Events /\ s.p.cursor \in 0..(N - 1)
    BY <1>1, <1>3 DEF Placed, Players
  <2>2. ms \in 0..Duration /\ ms \in Nat
    BY <1>1, <2>1, DurationIs
  <2>3. Ms(s.p) \in Nat /\ Ms(s.p) <= ms
    BY <1>1, <2>1, MsIs, DurationIs DEF Placed
  <2>4. Behind(s, old, ms)
    BY <2>2, <2>3, PlacedBehind
  <2>5. Follows(on.w, i, old) /\ on.w.now = Session[i]
    <3>1. s.w.now \in 0..Session[s.p.cursor + 1] /\ Follows(s.w, s.p.cursor, old)
      BY <1>1, <2>1, <2>4 DEF Behind
    <3> QED BY <2>1, <3>1, ApplyIs
  <2>6. /\ on.p \in Players /\ on.p.cursor = i /\ on.p.applied = i
    <3>1. s.p \in Players /\ s.p.applied + 1 = i /\ i \in 0..N
      BY <1>1, <2>1 DEF Placed
    <3>2. on.p = [s.p EXCEPT !.cursor = i, !.applied = i]
      BY <3>1
    <3> HIDE DEF on, i
    <3> QED BY <3>1, <3>2 DEF Players
  <2>7. SessionMsAt(ms) = Session[i]
    BY <2>1, SessionMsAtEvent
  <2>8. \A j \in Events : j <= i => Schedule[j] <= ms
    BY <1>1, <2>1, ScheduleIs
  <2>9. i < N => Session[i] <= Session[i + 1]
    BY <1>1, <2>1 DEF TapeOK
  <2>10. Behind(on, old, ms)
    <3>1. on = [p |-> on.p, w |-> on.w]
      OBVIOUS
    <3>2. Session[i] \in Nat
      BY <1>1, <2>1
    <3> HIDE DEF on, ms, i
    <3> QED BY <2>5, <2>6, <2>7, <2>8, <2>9, <3>1, <3>2 DEF Behind
  <2> HIDE DEF on
  <2>11. Behind(m, old, ms) /\ Ms(m.p) = ms
    BY <2>2, <2>10, MovedToIs
  <2>12. m.p.cursor = i /\ m.w = on.w
    BY <2>6, <2>10 DEF MovedTo, Behind, Players
  <2> HIDE DEF m
  <2>13. /\ Follows(Tick(m.w, ms), i, old) /\ Tick(m.w, ms).now = SessionMsAt(ms)
         /\ Settled(Tick(m.w, ms))
    <3>1. Follows(m.w, i, old) /\ m.w.now \in Nat /\ m.w.now <= SessionMsAt(ms)
      BY <2>11, <2>12 DEF Behind
    <3>2. m.w.told # <<>>
      <4>1. m.w.told = Told(i)
        BY <3>1, Zenon DEF Follows
      <4>2. i \in Nat /\ i # 0
        BY <1>1, <2>1
      <4> QED BY <4>1, <4>2, ToldSome
    <3> QED BY <2>2, <3>1, <3>2, TickIs
  <2>14. r = [p |-> m.p, w |-> Tick(m.w, ms)]
    BY <2>11 DEF Ticked, Behind
  <2>15. \A j \in Events : j > i => Schedule[j] >= ms
    BY <1>1, <2>1, ScheduleIs
  <2> HIDE DEF r, ms
  <2>16. Placed(r, old)
    BY <2>1, <2>8, <2>11, <2>12, <2>13, <2>14, <2>15 DEF Placed, Behind
  <2>17. Step(s) = r
    BY <1>3 DEF Step, r, m, on, ms, N
  <2> QED BY <2>16, <2>17
<1> QED BY <1>2, <1>3

LEMMA AdvanceIs ==
  ASSUME TapeOK, NEW s, NEW old, Placed(s, old), NEW stride \in Strides
  PROVE  Placed(Advance(s, stride), old) /\ CaughtUp(Advance(s, stride).p)
<1> DEFINE to == Moved(s.p.position, stride)
           limit == Duration * Unit
           ran == IF to >= limit THEN [s EXCEPT !.p.position = limit, !.p.playing = FALSE]
                                 ELSE [s EXCEPT !.p.position = to]
<1>1. Unit \in Nat \ {0} /\ Duration \in Nat /\ limit \in Nat /\ stride \in Nat
  BY DurationIs, PlaybackAssumption
<1>2. s.p.position \in 0..limit /\ to \in Nat /\ s.p.position <= to
  BY <1>1 DEF Placed, Players, Moved
<1> HIDE DEF to, limit
<1>3. /\ ran = [p |-> ran.p, w |-> ran.w]
      /\ ran.w = s.w
      /\ ran.p \in [cursor : 0..N, position : 0..limit, playing : BOOLEAN, applied : 0..N]
      /\ ran.p.cursor = s.p.cursor /\ ran.p.applied = s.p.applied
      /\ s.p.position <= ran.p.position
  <2>1. s = [p |-> s.p, w |-> s.w]
        /\ s.p \in [cursor : 0..N, position : 0..limit, playing : BOOLEAN, applied : 0..N]
    BY DEF Placed, Players, limit
  <2>2. CASE to >= limit
    <3> DEFINE q == [s.p EXCEPT !.position = limit, !.playing = FALSE]
    <3>1. ran = [p |-> q, w |-> s.w]
      BY <2>1, <2>2
    <3>2. /\ q \in [cursor : 0..N, position : 0..limit, playing : BOOLEAN, applied : 0..N]
          /\ q.cursor = s.p.cursor /\ q.applied = s.p.applied /\ q.position = limit
      <4>1. limit \in 0..limit /\ s.p \in [cursor : 0..N, position : 0..limit, playing : BOOLEAN, applied : 0..N]
        BY <1>1, <2>1
      <4> QED BY <4>1
    <3> HIDE DEF ran, q
    <3> QED BY <1>1, <1>2, <2>1, <3>1, <3>2
  <2>3. CASE ~(to >= limit)
    BY <1>1, <1>2, <2>1, <2>3
  <2> QED BY <2>2, <2>3
<1> HIDE DEF ran
<1>4. ran.p \in Players
  BY <1>3 DEF Players, limit
<1>5. Ms(ran.p) \in 0..Duration /\ Ms(ran.p) \in Nat
  BY <1>1, <1>4, MsIs
<1>6. Ms(s.p) <= Ms(ran.p)
  BY <1>1, <1>2, <1>3, MsIs DEF Ms
<1>7. Behind(s, old, Ms(ran.p))
  BY <1>5, <1>6, PlacedBehind
<1>8. Behind(ran, old, Ms(ran.p))
  BY <1>3, <1>4, <1>7 DEF Behind
<1>9. Placed(Ticked(ApplyThrough(ran, Ms(ran.p)), Ms(ran.p)), old)
      /\ CaughtUp(Ticked(ApplyThrough(ran, Ms(ran.p)), Ms(ran.p)).p)
  BY <1>5, <1>8, CatchesUp
<1> QED BY <1>9 DEF Advance, ran, to, limit

-----------------------------------------------------------------------------
\* The specification.

\* The snapshot in the cell is of the first events.
SnapshotFollows ==
  /\ Len(shown.told) \in 0..N
  /\ shown.told = Told(Len(shown.told))
  /\ shown.files \subseteq 1..Len(shown.told)
  /\ TapeAnnounces => shown.files = Landing(Len(shown.told))

PlaybackInv ==
  /\ TapeOK
  /\ Placed(Now, shown.files)
  /\ player.playing /\ player.cursor > 0 => CaughtUp(player)
  /\ SnapshotFollows

LEMMA InitInv == Init => PlaybackInv
<1> SUFFICES ASSUME Init PROVE PlaybackInv
  OBVIOUS
<1>1. PICK r \in Recordings, c \in Caps :
        tape = [session |-> r.session, what |-> r.what, place |-> r.place, weight |-> r.weight, cap |-> c]
  BY DEF Init
<1>2. TapeOK
  <2>1. /\ Session = r.session /\ Events = DOMAIN r.session
        /\ tape.place = r.place /\ tape.weight = r.weight /\ tape.cap = c
    BY <1>1 DEF Session, Events
  <2>2. /\ DOMAIN r.place = DOMAIN r.session /\ DOMAIN r.weight = DOMAIN r.session
        /\ r.place \in Seq(Place) /\ r.weight \in Seq(Nat)
    BY PlaybackAssumption
  <2>3. \A i \in DOMAIN r.session : r.place[i] \in Place /\ r.weight[i] \in Nat
    BY <2>2
  <2>4. /\ r.session \in Seq(Nat) /\ Len(r.session) > 0
        /\ \A i, j \in DOMAIN r.session : i <= j => r.session[i] <= r.session[j]
        /\ c \in Nat
    BY PlaybackAssumption
  <2> QED BY <2>1, <2>3, <2>4, Zenon DEF TapeOK, EvidenceTyped
<1>3. N \in Nat \ {0} /\ Events = 1..N /\ \A i \in Events : Session[i] \in Nat /\ Schedule[i] \in Nat
  BY <1>2, SessionIs, ScheduleIs
<1>4. Unit \in Nat \ {0} /\ Duration \in Nat /\ Duration * Unit \in Nat
  BY <1>2, DurationIs, PlaybackAssumption
<1>5. player = [cursor |-> 0, position |-> 0, playing |-> TRUE, applied |-> 0]
  BY DEF Init
<1>6. player \in Players /\ Ms(player) = 0
  BY <1>3, <1>4, <1>5 DEF Players, Ms
<1>7. Told(0) = <<>> /\ Landing(0) = {}
  BY DEF Told, Landing
<1>8. Follows(world, 0, shown.files) /\ world.now = 0
  <2>1. world = [told |-> <<>>, now |-> 0, files |-> {}, territory |-> Nowhere, adopted |-> FALSE,
                 bumped |-> FALSE]
    BY DEF Init, Fresh
  <2>2. world = [x \in Fields |-> world[x]]
    BY <2>1 DEF Fields
  <2>3. /\ world.told = <<>> /\ world.files = {} /\ world.adopted = FALSE /\ world.bumped = FALSE
        /\ world.now = 0 /\ shown.files = {} /\ world.territory = Nowhere
    BY <2>1 DEF Init
  <2>4. ~(\E j \in 1..0 : tape.what[j] = "cwd")
    OBVIOUS
  <2>5. Follows(world, 0, shown.files)
    <3>1. Aged(world, 0)
      BY <2>3, AgedAtFirst
    <3> QED BY <1>7, <2>2, <2>3, <2>4, <3>1, Zenon DEF Follows
  <2> QED BY <2>3, <2>5
<1>9. Placed(Now, shown.files)
  BY <1>3, <1>5, <1>6, <1>8 DEF Placed, Now
<1>10. SnapshotFollows
  <2>1. shown.told = <<>> /\ shown.files = {} /\ Len(shown.told) = 0
    BY DEF Init
  <2> QED BY <1>3, <1>7, <2>1 DEF SnapshotFollows
<1> QED BY <1>2, <1>5, <1>9, <1>10 DEF PlaybackInv

LEMMA SamePlayed == ASSUME UNCHANGED tape, NEW k PROVE Played(k)' = Played(k)
<1>1. tape' = tape
  OBVIOUS
<1> QED BY <1>1, SMT DEF Played, ApplyAll, Apply, Session

\* The tape never changes, and with it nothing that is only of the tape.
LEMMA SameTape ==
  ASSUME UNCHANGED tape, PlaybackInv,
         Placed([p |-> player', w |-> world'], shown.files'),
         player.playing' /\ player.cursor' > 0 => CaughtUp(player'),
         Len(shown.told') \in 0..N, shown.told' = Told(Len(shown.told')),
         shown.files' \subseteq 1..Len(shown.told'),
         TapeAnnounces => shown.files' = Landing(Len(shown.told'))
  PROVE  PlaybackInv'
<1>1. Compressed' = Compressed
  BY Zenon DEF Compressed, Events, Session, SessionGap
<1>2. Session' = Session /\ Events' = Events /\ N' = N /\ TapeAnnounces' = TapeAnnounces /\ TapeOK'
  BY DEF Session, Events, N, TapeAnnounces, PlaybackInv, TapeOK, EvidenceTyped
<1>3. Schedule' = Schedule
  BY <1>1, <1>2 DEF Schedule
<1>4. Duration' = Duration
  BY <1>2, <1>3 DEF Duration
<1>5. Players' = Players
  BY <1>2, <1>4 DEF Players
<1>6. \A k : Played(k)' = Played(k)
  BY SamePlayed
<1>7. Placed(Now, shown.files)'
  BY <1>2, <1>3, <1>5, <1>6 DEF Placed, Now, Follows, Aged, Settled, Told, Landing, SessionMsAt, Due, Ms
<1>8. (player.playing /\ player.cursor > 0 => CaughtUp(player))'
  BY <1>2, <1>3 DEF CaughtUp, Ms
<1>9. SnapshotFollows'
  BY <1>2 DEF SnapshotFollows, Told, Landing
<1> QED BY <1>2, <1>7, <1>8, <1>9 DEF PlaybackInv

LEMMA FrameInv ==
  ASSUME PlaybackInv, NEW s, Placed(s, shown.files), Frame(s)
  PROVE  PlaybackInv'
<1>1. PICK stride \in Strides :
        LET ran == IF s.p.playing THEN Advance(s, stride) ELSE s
        IN /\ player' = [ran.p EXCEPT !.playing = @ /\ ~Finished(ran)]
           /\ Publish(ran.w)
           /\ UNCHANGED tape
  BY Zenon DEF Frame
<1> DEFINE ran == IF s.p.playing THEN Advance(s, stride) ELSE s
<1>2. TapeOK /\ SnapshotFollows
  BY DEF PlaybackInv
<1>3. Placed(ran, shown.files) /\ (ran.p.playing => CaughtUp(ran.p))
  <2>1. CASE s.p.playing
    BY <1>2, <2>1, AdvanceIs
  <2>2. CASE ~s.p.playing
    BY <2>2
  <2> QED BY <2>1, <2>2
<1>4. player' = [ran.p EXCEPT !.playing = @ /\ ~Finished(ran)] /\ Publish(ran.w) /\ UNCHANGED tape
  BY <1>1
<1> HIDE DEF ran
<1>5. /\ player' \in Players
      /\ player'.cursor = ran.p.cursor /\ player'.applied = ran.p.applied /\ player'.position = ran.p.position
      /\ player'.playing => ran.p.playing
  <2>1. ran.p \in Players
    BY <1>3 DEF Placed
  <2> QED BY <1>4, <2>1 DEF Players
<1>6. Ms(player') = Ms(ran.p)
  BY <1>5 DEF Ms
<1>7. PICK gap \in Gaps :
        IF sinceShown + gap < MinInterval
        THEN /\ sinceShown' = sinceShown + gap
             /\ world' = ran.w
             /\ UNCHANGED shown
        ELSE /\ sinceShown' = 0
             /\ world' = [ran.w EXCEPT !.bumped = FALSE]
             /\ shown' = [files |-> IF ran.w.bumped THEN ran.w.files ELSE shown.files, told |-> ran.w.told]
  BY <1>4 DEF Publish
<1> DEFINE k == ran.p.cursor
<1>8. Follows(ran.w, k, shown.files) /\ k \in 0..N
  BY <1>3 DEF Placed, Players
<1>9. /\ Follows(world', k, shown'.files)
      /\ world'.now = ran.w.now /\ world'.territory = ran.w.territory
      /\ Len(shown'.told) \in 0..N
      /\ shown'.told = Told(Len(shown'.told))
      /\ shown'.files \subseteq 1..Len(shown'.told)
      /\ TapeAnnounces => shown'.files = Landing(Len(shown'.told))
  <2>1. CASE sinceShown + gap < MinInterval
    BY <1>2, <1>7, <1>8, <2>1 DEF SnapshotFollows
  <2>2. CASE ~(sinceShown + gap < MinInterval)
    <3>1. /\ world' = [ran.w EXCEPT !.bumped = FALSE]
          /\ shown' = [files |-> IF ran.w.bumped THEN ran.w.files ELSE shown.files, told |-> ran.w.told]
      BY <1>7, <2>2
    <3>2. shown'.told = Told(k) /\ shown'.files = ran.w.files
      BY <1>8, <3>1, Zenon DEF Follows
    <3>3. Len(Told(k)) = k
      BY <1>2, <1>8, SessionIs DEF Told
    <3>4. /\ world' = [x \in Fields |-> world'[x]]
          /\ world'.told = ran.w.told /\ world'.files = ran.w.files /\ world'.adopted = ran.w.adopted
          /\ world'.now = ran.w.now /\ world'.bumped = FALSE /\ world'.territory = ran.w.territory
      BY <1>8, <3>1 DEF Follows, Fields
    <3>5. Follows(world', k, shown'.files)
      BY <1>8, <3>2, <3>4, Zenon DEF Follows, Aged
    <3>6. ran.w.files \subseteq 1..k /\ (TapeAnnounces => ran.w.files = Landing(k))
      BY <1>8, Zenon DEF Follows
    <3> QED BY <1>8, <3>2, <3>3, <3>4, <3>5, <3>6
  <2> QED BY <2>1, <2>2
<1>10. Placed([p |-> player', w |-> world'], shown'.files)
  BY <1>3, <1>5, <1>6, <1>9 DEF Placed, Settled
<1>11. player'.playing /\ player'.cursor > 0 => CaughtUp(player')
  BY <1>3, <1>5, <1>6 DEF CaughtUp
<1> QED BY <1>4, <1>9, <1>10, <1>11, SameTape

LEMMA NextInv == PlaybackInv /\ [Next]_vars => PlaybackInv'
<1> SUFFICES ASSUME PlaybackInv, [Next]_vars PROVE PlaybackInv'
  OBVIOUS
<1>1. TapeOK /\ Placed(Now, shown.files) /\ player \in Players
  BY DEF PlaybackInv, Placed, Now
<1>2. Duration \in Nat /\ \A i \in Events : Schedule[i] \in 0..Duration
  BY <1>1, DurationIs
\* Pausing or starting the transport leaves it where it is.
<1>3. ASSUME NEW b \in BOOLEAN
      PROVE  Placed([Now EXCEPT !.p.playing = b], shown.files)
  <2> DEFINE q == [player EXCEPT !.playing = b]
  <2>1. [Now EXCEPT !.p.playing = b] = [p |-> q, w |-> world]
    BY DEF Now
  <2>2. q \in Players /\ q.cursor = player.cursor /\ q.applied = player.applied /\ q.position = player.position
    BY <1>1 DEF Players
  <2>3. Ms(q) = Ms(player)
    BY <2>2 DEF Ms
  <2> HIDE DEF q
  <2>4. Placed([p |-> q, w |-> world], shown.files)
    BY <1>1, <2>2, <2>3 DEF Placed, Now
  <2> QED BY <2>1, <2>4
<1>4. CASE Watch
  BY <1>1, <1>4, FrameInv DEF Watch
<1>5. CASE Toggle
  <2>0. (~player.playing) \in BOOLEAN
    OBVIOUS
  <2>1. (~player.playing) \in BOOLEAN /\ [Now EXCEPT !.p.playing = ~@] = [Now EXCEPT !.p.playing = ~player.playing]
    BY <2>0, Zenon DEF Now
  <2> QED BY <1>3, <1>5, <2>1, FrameInv DEF Toggle
<1>6. CASE Scrub
  BY <1>1, <1>6, SeekIs, FrameInv DEF Scrub
<1>7. CASE StepForward
  BY <1>1, <1>3, <1>7, StepIs, FrameInv DEF StepForward, Paused
<1>8. CASE StepBack
  <2> DEFINE ms == IF Before(Now) = {} THEN 0 ELSE Max(Before(Now))
  <2>1. ms \in 0..Duration
    <3>1. CASE Before(Now) = {}
      BY <1>2, <3>1
    <3>2. CASE Before(Now) # {}
      <4>1. Before(Now) \subseteq 0..Duration
        BY <1>2 DEF Before
      <4>2. Max(Before(Now)) \in Before(Now)
        BY <1>2, <3>2, <4>1, BoundedMax
      <4> QED BY <3>2, <4>1, <4>2
    <3> QED BY <3>1, <3>2
  <2>2. Placed(Seek(Paused, ms), shown.files)
    BY <1>1, <1>3, <2>1, SeekIs DEF Paused
  <2>3. Frame(Seek(Paused, ms))
    BY <1>8 DEF StepBack
  <2> QED BY <2>2, <2>3, FrameInv
<1>9. CASE NextInteresting
  <2>1. Ahead(Now) # {} /\ Frame(Seek(Now, Schedule[Min(Ahead(Now))]))
    BY <1>9 DEF NextInteresting
  <2>2. Ahead(Now) \in SUBSET Nat /\ Ahead(Now) \subseteq Events
    BY <1>1, SessionIs DEF Ahead
  <2>3. Min(Ahead(Now)) \in Events
    BY <2>1, <2>2, MinExists
  <2> QED BY <1>1, <1>2, <2>1, <2>3, SeekIs, FrameInv
<1>10. CASE UNCHANGED vars
  BY <1>1, <1>10, SameTape DEF vars, PlaybackInv, SnapshotFollows, Now
<1> QED BY <1>4, <1>5, <1>6, <1>7, <1>8, <1>9, <1>10 DEF Next

LEMMA Invariance == Spec => []PlaybackInv
BY InitInv, NextInv, PTL DEF Spec

\* Whatever the transport did, the world has been told the first events of the
\* recording, once each, in order, at their own times: SameHistory.
THEOREM OneHistory == Spec => []SameHistory
<1>1. PlaybackInv => SameHistory
  BY Zenon DEF PlaybackInv, Placed, Follows, Now, SameHistory, Told
<1> QED BY Invariance, <1>1, PTL

\* The count beside the scrubber is that of the events the world applied, the world's
\* clock stands where the position maps to, and no event lies on the wrong side of the
\* position: ScrubberHonest, for every recording, cap and stride.
THEOREM HonestScrubber == Spec => []ScrubberHonest
<1>1. PlaybackInv => ScrubberHonest
  <2> SUFFICES ASSUME PlaybackInv PROVE ScrubberHonest
    OBVIOUS
  <2>1. TapeOK /\ Placed(Now, shown.files) /\ (player.playing /\ player.cursor > 0 => CaughtUp(player))
    BY DEF PlaybackInv
  <2>2. N \in Nat \ {0} /\ Events = 1..N /\ \A i \in Events : Schedule[i] \in Nat
    BY <2>1, SessionIs, ScheduleIs
  <2>3. player.cursor \in 0..N /\ Ms(player) \in Nat
    BY <2>1, MsIs, DurationIs DEF Placed, Players, Now
  <2>4. world.told = Told(player.cursor) /\ player.applied = player.cursor
    BY <2>1, Zenon DEF Placed, Follows, Now
  <2>5. Len(world.told) = player.cursor /\ (player.cursor = 0 => world.told = <<>>)
    BY <2>2, <2>3, <2>4 DEF Told
  <2>6. player.cursor # 0 => world.now = SessionMsAt(Ms(player))
    BY <2>1 DEF Placed, Now
  <2>7. ASSUME NEW i \in Events
        PROVE  /\ i <= player.cursor => Schedule[i] <= Ms(player)
               /\ i > player.cursor /\ player.cursor > 0 =>
                    \/ Schedule[i] > Ms(player)
                    \/ Schedule[i] = Ms(player) /\ ~player.playing
    <3>1. /\ i <= player.cursor => Schedule[i] <= Ms(player)
          /\ i > player.cursor => Schedule[i] >= Ms(player)
      BY <2>1 DEF Placed, Now
    <3>2. player.playing /\ player.cursor > 0 => (i > player.cursor => Schedule[i] > Ms(player))
      BY <2>1 DEF CaughtUp
    <3> QED BY <2>2, <2>3, <3>1, <3>2
  <2> QED BY <2>4, <2>5, <2>6, <2>7 DEF ScrubberHonest
<1> QED BY Invariance, <1>1, PTL

\* A recording names its checkout before it touches a file of it, as those of
\* MCPlayback's Announced do; for its Unannounced the three theorems below are false.
RecordingsAnnounce ==
  \A r \in Recordings : \A i \in DOMAIN r.session :
    r.what[i] = "touch" => \E j \in 1..(i - 1) : r.what[j] = "cwd"

LEMMA TapeAnnouncesAlways == ASSUME RecordingsAnnounce PROVE Spec => []TapeAnnounces
<1>1. Init => TapeAnnounces
  <2> SUFFICES ASSUME Init PROVE TapeAnnounces
    OBVIOUS
  <2>1. PICK r \in Recordings, c \in Caps :
          tape = [session |-> r.session, what |-> r.what, place |-> r.place, weight |-> r.weight, cap |-> c]
    BY DEF Init
  <2>2. tape.what = r.what /\ Events = DOMAIN r.session
    BY <2>1 DEF Events, Session
  <2> QED BY <2>2, RecordingsAnnounce DEF RecordingsAnnounce, TapeAnnounces
<1>2. TapeAnnounces /\ [Next]_vars => TapeAnnounces'
  <2> SUFFICES ASSUME TapeAnnounces, [Next]_vars PROVE TapeAnnounces'
    OBVIOUS
  <2>1. UNCHANGED tape
    BY DEF Next, vars, Watch, Toggle, Scrub, StepForward, StepBack, NextInteresting, Frame
  <2> QED BY <2>1 DEF TapeAnnounces, Events, Session
<1> QED BY <1>1, <1>2, PTL DEF Spec

LEMMA PlayedFiles ==
  ASSUME TapeOK, TapeAnnounces, NEW k \in 0..N
  PROVE  Played(k).files = Landing(k)
<1>1. N \in Nat \ {0} /\ Events = 1..N /\ Session[1] \in Nat
  BY SessionIs
<1>2. Follows(Fresh, 0, {})
  <2>1. Fresh = [x \in Fields |-> Fresh[x]]
    BY DEF Fresh, Fields
  <2>2. /\ Fresh.told = <<>> /\ Fresh.files = {} /\ Fresh.adopted = FALSE /\ Fresh.bumped = TRUE
        /\ Told(0) = <<>> /\ Landing(0) = {} /\ ~(\E j \in 1..0 : tape.what[j] = "cwd")
    BY DEF Fresh, Told, Landing
  <2>3. Aged(Fresh, 0)
    BY AgedAtFirst DEF Fresh
  <2> QED BY <2>1, <2>2, <2>3, Zenon DEF Follows
<1>3. Fresh.now = 0
  BY DEF Fresh
<1>4. Follows(ApplyAll(Fresh, 0 + 1, k), k, {})
  <2>1. 0 \in 0..N /\ k \in 0..N /\ (0 < N => Fresh.now \in 0..Session[0 + 1])
    BY <1>1, <1>3
  <2> QED BY <1>2, <2>1, ApplyAllIs
<1>5. ApplyAll(Fresh, 0 + 1, k) = Played(k)
  BY DEF Played
<1> QED BY <1>4, <1>5, Zenon DEF Follows

\* A snapshot is of one moment, though its files may be a previous snapshot's: SnapshotWhole.
THEOREM WholeSnapshots == ASSUME RecordingsAnnounce PROVE Spec => []SnapshotWhole
<1>1. PlaybackInv /\ TapeAnnounces => SnapshotWhole
  BY PlayedFiles DEF PlaybackInv, SnapshotFollows, SnapshotWhole
<1> QED BY Invariance, TapeAnnouncesAlways, <1>1, PTL

\* A world rebuilt at an instant has the files of one that played there: FilesFollowHistory,
\* which fails for the recordings the hypothesis leaves out.
THEOREM RebuiltFiles == ASSUME RecordingsAnnounce PROVE Spec => []FilesFollowHistory
<1>1. PlaybackInv /\ TapeAnnounces => FilesFollowHistory
  <2> SUFFICES ASSUME PlaybackInv, TapeAnnounces PROVE FilesFollowHistory
    OBVIOUS
  <2>1. TapeOK /\ player.cursor \in 0..N
    BY DEF PlaybackInv, Placed, Players, Now
  <2>2. world.files = Landing(player.cursor)
    BY Zenon DEF PlaybackInv, Placed, Follows, Now
  <2> QED BY <2>1, <2>2, PlayedFiles DEF FilesFollowHistory
<1> QED BY Invariance, TapeAnnouncesAlways, <1>1, PTL

\* What a thread claims is a matter of its events and of the instant: the territory that
\* the ticks of the playing frames decayed bit by bit, in whatever steps and across whatever
\* seeks, is the one its events leave when it decays to that instant at once
\* (TerritoryKeepsTime, Territory::decay, World::tick).
THEOREM TerritoryInTime == ASSUME RecordingsAnnounce PROVE Spec => []TerritoryKeepsTime
<1>1. PlaybackInv /\ TapeAnnounces => TerritoryKeepsTime
  <2> SUFFICES ASSUME PlaybackInv, TapeAnnounces, world.told # <<>>
               PROVE  world.territory = Decay(Played(player.cursor).territory, world.now)
    BY DEF TerritoryKeepsTime
  <2>1. TapeOK /\ Placed(Now, shown.files)
    BY DEF PlaybackInv
  <2>2. player.cursor \in 0..N /\ Ms(player) \in Nat
    BY <2>1, MsIs, DurationIs DEF Placed, Players, Now
  <2>3. Follows(world, player.cursor, shown.files)
    BY <2>1 DEF Placed, Now
  <2>4. player.cursor # 0
    <3>1. world.told = Told(player.cursor)
      BY <2>3, Zenon DEF Follows
    <3>2. player.cursor \in Nat
      BY <2>1, <2>2, SessionIs
    <3> QED BY <3>1, <3>2, ToldSome
  <2>5. Settled(world) /\ world.now \in Nat
    BY <2>1, <2>2, <2>4, SessionMsFromFirst DEF Placed, Now
  <2>6. \A b \in Nat : b >= world.now => Decay(world.territory, b) = Decay(Played(player.cursor).territory, b)
    BY <2>3, Zenon DEF Follows, Aged
  <2> QED BY <2>5, <2>6 DEF Settled
<1> QED BY Invariance, TapeAnnouncesAlways, <1>1, PTL

\* The player stays within the recording, the world's clock within the session, and what
\* is shown is of events of the recording: TypeOK.
THEOREM TypeCorrect == Spec => []TypeOK
<1>1. Init => sinceShown \in 0..MinInterval
  BY PlaybackAssumption DEF Init
<1>2. ASSUME NEW s, Frame(s), sinceShown \in 0..MinInterval PROVE (sinceShown \in 0..MinInterval)'
  <2>1. PICK w : Publish(w)
    BY <1>2 DEF Frame
  <2>2. PICK gap \in Gaps : IF sinceShown + gap < MinInterval THEN sinceShown' = sinceShown + gap
                                                             ELSE sinceShown' = 0
    BY <2>1 DEF Publish
  <2> QED BY <1>2, <2>2, PlaybackAssumption
<1>3. sinceShown \in 0..MinInterval /\ [Next]_vars => (sinceShown \in 0..MinInterval)'
  BY <1>2 DEF Next, vars, Watch, Toggle, Scrub, StepForward, StepBack, NextInteresting
<1>4. PlaybackInv /\ sinceShown \in 0..MinInterval => TypeOK
  <2> SUFFICES ASSUME PlaybackInv, sinceShown \in 0..MinInterval PROVE TypeOK
    OBVIOUS
  <2>1. TapeOK /\ Placed(Now, shown.files) /\ SnapshotFollows
    BY DEF PlaybackInv
  <2>2. N \in Nat \ {0} /\ Events = 1..N /\ \A i \in Events : Session[i] \in Nat /\ Schedule[i] \in Nat
    BY <2>1, SessionIs, ScheduleIs
  <2>3. player \in Players /\ player.cursor \in 0..N
    BY <2>1 DEF Placed, Players, Now
  <2>4. world.told \in Seq(Events \X Nat)
    <3>1. world.told = Told(player.cursor)
      BY <2>1, Zenon DEF Placed, Follows, Now
    <3> QED BY <2>2, <2>3, <3>1 DEF Told
  <2>5. world.files \subseteq Events /\ shown.files \subseteq Events
    <3>1. world.files \subseteq 1..player.cursor /\ shown.files \subseteq 1..Len(shown.told) /\ Len(shown.told) \in 0..N
      BY <2>1, Zenon DEF Placed, Follows, Now, SnapshotFollows
    <3> QED BY <2>2, <2>3, <3>1
  <2>6. world.adopted \in BOOLEAN /\ world.bumped \in BOOLEAN
    BY <2>1, Zenon DEF Placed, Follows, Now
  <2>7. world.now \in 0..Session[N]
    <3>1. N \in Events /\ Session[1] <= Session[N]
      BY <2>1, <2>2 DEF TapeOK
    <3>2. Ms(player) \in Nat /\ Ms(player) <= Schedule[N]
      BY <2>1, <2>3, MsIs, DurationIs DEF Duration, N
    <3>3. SessionMsAt(Ms(player)) <= Session[N] /\ SessionMsAt(Ms(player)) \in Nat
      <4>1. SessionMsAt(Ms(player)) <= SessionMsAt(Schedule[N])
        BY <2>1, <2>2, <3>1, <3>2, SessionMsForward
      <4>2. SessionMsAt(Schedule[N]) = Session[N]
        BY <2>1, <3>1, SessionMsAtEvent
      <4> QED BY <2>1, <3>2, <4>1, <4>2, SessionMsFromFirst
    <3>4. IF player.cursor = 0 THEN world.now \in 0..Session[1] ELSE world.now = SessionMsAt(Ms(player))
      BY <2>1 DEF Placed, Now
    <3> QED BY <2>2, <3>1, <3>3, <3>4
  <2> QED BY <2>3, <2>4, <2>5, <2>6, <2>7 DEF TypeOK, Players, N
<1> QED BY Invariance, <1>1, <1>3, <1>4, PTL DEF Spec
-----------------------------------------------------------------------------
(* The territory, whatever the thread does in it: TerritoryLife.  A claim  *)
(* moves to another district on sustained evidence only.  The argument     *)
(* reads nothing of how the evidence converges: the streak counts the      *)
(* latest observations, all outside the claim, all made under it.          *)

IsTerritory(t) == DOMAIN t = TerritoryFields /\ t.outside_streak \in Nat

\* A streak of n observations outside the claim, all made since it was claimed.
StreakIs(claim, n) ==
  /\ n <= Len(seen) - since
  /\ \A i \in (Len(seen) - n + 1)..Len(seen) : ~IsPrefix(claim, seen[i])

LifeInv ==
  /\ IsTerritory(territory)
  /\ seen \in Seq(Place) /\ since \in 0..Len(seen)
  /\ ClaimIsDistrict
  /\ territory.claim # NoClaim => StreakIs(territory.claim, territory.outside_streak)

-----------------------------------------------------------------------------
\* What the operations do to the claim and its streak.

LEMMA ConvergedIsDeep ==
  ASSUME NEW evidence, Converged(evidence) # NoClaim
  PROVE  Len(Converged(evidence)) >= MinDepth
<1> DEFINE ancestor == LongestCommonPrefix({evidence[i].path : i \in Retained(evidence)})
           inside   == {i \in DOMAIN evidence : IsPrefix(ancestor, evidence[i].path)}
           deep     == Len(ancestor) >= MinDepth
           heavy    == 10 * Mass(evidence, inside) > 7 * Mass(evidence, DOMAIN evidence)
<1>1. Converged(evidence) =
        IF Len(evidence) < MinEvidence THEN NoClaim ELSE IF deep /\ heavy THEN ancestor ELSE NoClaim
  BY DEF Converged
<1>2. deep /\ Converged(evidence) = ancestor
  <2> HIDE DEF deep, heavy, ancestor
  <2> QED BY <1>1
<1> QED BY <1>2

\* What a decay leaves of a claim: all of it, or nothing.
Fades(t, d) ==
  \/ d.claim = t.claim /\ d.outside_streak = t.outside_streak
  \/ d.claim = NoClaim /\ d.outside_streak = 0 /\ d.evidence = <<>>

LEMMA DecayFades ==
  ASSUME NEW t, IsTerritory(t), NEW at
  PROVE  IsTerritory(Decay(t, at)) /\ Fades(t, Decay(t, at))
<1> DEFINE left == Fading(t.evidence, at - t.last_decay)
<1>1. \/ Decay(t, at) = [t EXCEPT !.last_decay = at]
      \/ Decay(t, at) = t
      \/ Decay(t, at) = [Nowhere EXCEPT !.last_decay = at]
      \/ Decay(t, at) = [t EXCEPT !.evidence = left, !.last_decay = at]
  <2> HIDE DEF left
  <2>1. CASE t.last_decay = Never
    BY <2>1 DEF Decay
  <2>2. CASE t.last_decay # Never /\ at <= t.last_decay
    BY <2>2 DEF Decay
  <2>3. CASE t.last_decay # Never /\ ~(at <= t.last_decay)
    <3>1. Decay(t, at) = IF left = <<>> THEN [Nowhere EXCEPT !.last_decay = at]
                         ELSE [t EXCEPT !.evidence = left, !.last_decay = at]
      BY <2>3 DEF Decay, left
    <3> QED BY <3>1
  <2> QED BY <2>1, <2>2, <2>3
<1> HIDE DEF left
<1>2. CASE Decay(t, at) = [t EXCEPT !.last_decay = at]
  BY <1>2 DEF IsTerritory, TerritoryFields, Fades
<1>3. CASE Decay(t, at) = t
  BY <1>3 DEF Fades
<1>4. CASE Decay(t, at) = [Nowhere EXCEPT !.last_decay = at]
  BY <1>4 DEF IsTerritory, TerritoryFields, Fades, Nowhere
<1>5. CASE Decay(t, at) = [t EXCEPT !.evidence = left, !.last_decay = at]
  BY <1>5 DEF IsTerritory, TerritoryFields, Fades
<1> QED BY <1>1, <1>2, <1>3, <1>4, <1>5

\* What following the evidence does to a claim.
ClaimFollows(t, r) ==
  \/ r.claim = t.claim /\ r.outside_streak = t.outside_streak
  \/ /\ t.claim = NoClaim /\ r.claim # NoClaim
     /\ Len(r.claim) >= MinDepth /\ r.outside_streak = t.outside_streak
  \/ /\ t.claim # NoClaim /\ r.claim # NoClaim /\ r.claim # t.claim
     /\ Len(r.claim) >= MinDepth /\ r.outside_streak = 0
     /\ SameDistrict(r.claim, t.claim) \/ t.outside_streak >= Confirmations

LEMMA RefreshFollows ==
  ASSUME NEW t, IsTerritory(t)
  PROVE  IsTerritory(RefreshClaim(t)) /\ ClaimFollows(t, RefreshClaim(t))
<1> DEFINE candidate == Converged(t.evidence)
<1>1. candidate # NoClaim => Len(candidate) >= MinDepth
  BY ConvergedIsDeep
<1> HIDE DEF candidate
<1>2. CASE candidate = NoClaim \/ candidate = t.claim
  <2>1. RefreshClaim(t) = t
    BY <1>2 DEF RefreshClaim, candidate
  <2> QED BY <2>1 DEF ClaimFollows
<1>3. CASE candidate # NoClaim /\ candidate # t.claim /\ t.claim = NoClaim
  <2>1. RefreshClaim(t) = [t EXCEPT !.claim = candidate]
    BY <1>3 DEF RefreshClaim, candidate
  <2> QED BY <2>1, <1>1, <1>3 DEF IsTerritory, TerritoryFields, ClaimFollows
<1>4. CASE candidate # NoClaim /\ candidate # t.claim /\ t.claim # NoClaim
  <2> DEFINE moves == SameDistrict(candidate, t.claim) \/ t.outside_streak >= Confirmations
  <2>1. RefreshClaim(t) = IF moves THEN [t EXCEPT !.claim = candidate, !.outside_streak = 0] ELSE t
    BY <1>4 DEF RefreshClaim, candidate
  <2>2. CASE moves
    <3>1. RefreshClaim(t) = [t EXCEPT !.claim = candidate, !.outside_streak = 0]
      BY <2>1, <2>2
    <3> QED BY <3>1, <2>2, <1>1, <1>4 DEF IsTerritory, TerritoryFields, ClaimFollows
  <2>3. CASE ~moves
    BY <2>1, <2>3 DEF ClaimFollows
  <2> QED BY <2>2, <2>3
<1> QED BY <1>2, <1>3, <1>4

\* An observation decays the territory, counts the streak, follows the evidence.
LEMMA ObserveSteps ==
  ASSUME NEW t, IsTerritory(t), NEW path, NEW weight, weight # 0, NEW at
  PROVE  \E d, s : /\ IsTerritory(d) /\ Fades(t, d)
                   /\ IsTerritory(s) /\ s.claim = d.claim
                   /\ s.outside_streak = Streak(d, path)
                   /\ IsTerritory(Observe(t, path, weight, at))
                   /\ ClaimFollows(s, Observe(t, path, weight, at))
                   /\ d.evidence = <<>> => Observe(t, path, weight, at).claim = d.claim
<1> DEFINE d      == Decay(t, at)
           grown  == Append(d.evidence, [path |-> path, weight |-> weight])
           window == IF Len(grown) > Recent THEN Tail(grown) ELSE grown
           s      == [d EXCEPT !.evidence = window, !.outside_streak = Streak(d, path)]
<1>1. Observe(t, path, weight, at) = RefreshClaim(s)
  BY DEF Observe
<1>2. IsTerritory(d) /\ Fades(t, d)
  BY DecayFades
<1> HIDE DEF d, window
<1>3. Streak(d, path) \in Nat
  BY <1>2 DEF Streak, IsTerritory
<1>4. IsTerritory(s) /\ s.claim = d.claim /\ s.outside_streak = Streak(d, path)
  BY <1>2, <1>3 DEF IsTerritory, TerritoryFields
<1>6. d.evidence = <<>> => RefreshClaim(s).claim = d.claim
  <2> SUFFICES ASSUME d.evidence = <<>> PROVE RefreshClaim(s).claim = d.claim
    OBVIOUS
  <2>1. grown = <<[path |-> path, weight |-> weight]>> /\ Len(grown) = 1
    OBVIOUS
  <2>2. Len(window) = 1
    BY <2>1, TerritoryAssumption DEF window
  <2>3. s.evidence = window
    BY <1>2, <1>3 DEF IsTerritory, TerritoryFields
  <2>4. Converged(s.evidence) = NoClaim
    BY <2>2, <2>3, TerritoryAssumption DEF Converged
  <2>5. RefreshClaim(s) = s
    BY <2>4 DEF RefreshClaim
  <2> QED BY <2>5, <1>4
<1> HIDE DEF s
<1>5. IsTerritory(RefreshClaim(s)) /\ ClaimFollows(s, RefreshClaim(s))
  BY <1>4, RefreshFollows
<1> QED BY <1>1, <1>2, <1>4, <1>5, <1>6

-----------------------------------------------------------------------------
LEMMA LifeBegins == LifeInit => LifeInv
<1> SUFFICES ASSUME LifeInit PROVE LifeInv
  OBVIOUS
<1> QED BY DEF LifeInit, LifeInv, IsTerritory, TerritoryFields, Nowhere, ClaimIsDistrict

\* How one observation with a weight relates the claims, the streak and the history.
LEMMA ObservedStep ==
  ASSUME LifeInv, NEW path \in Place, NEW weight \in Weight, weight # 0, NEW at \in Instant,
         Observes(path, weight, at)
  PROVE  /\ LifeInv'
         /\ Apart => SustainedOutside
<1>1. PICK d, s : /\ IsTerritory(d) /\ Fades(territory, d)
                  /\ IsTerritory(s) /\ s.claim = d.claim
                  /\ s.outside_streak = Streak(d, path)
                  /\ IsTerritory(territory') /\ ClaimFollows(s, territory')
                  /\ d.evidence = <<>> => territory'.claim = d.claim
  BY ObserveSteps DEF Observes, LifeInv
<1>2. seen' = Append(seen, path) /\ Keeping
  BY DEF Observes
<1>3. /\ seen \in Seq(Place) /\ seen' \in Seq(Place) /\ Len(seen') = Len(seen) + 1
      /\ Len(seen) \in Nat /\ since \in 0..Len(seen)
      /\ \A i \in 1..Len(seen) : seen'[i] = seen[i]
      /\ seen'[Len(seen')] = path
  BY <1>2 DEF LifeInv
<1>4. territory.claim # NoClaim /\ d.claim = territory.claim =>
        /\ s.outside_streak <= Len(seen') - since
        /\ \A i \in (Len(seen') - s.outside_streak + 1)..Len(seen') :
             ~IsPrefix(territory.claim, seen'[i])
  <2> SUFFICES ASSUME territory.claim # NoClaim, d.claim = territory.claim
               PROVE  /\ s.outside_streak <= Len(seen') - since
                      /\ \A i \in (Len(seen') - s.outside_streak + 1)..Len(seen') :
                           ~IsPrefix(territory.claim, seen'[i])
    OBVIOUS
  <2>1. d.outside_streak = territory.outside_streak
    BY <1>1 DEF Fades
  <2>2. CASE IsPrefix(territory.claim, path)
    <3>1. s.outside_streak = 0
      BY <1>1, <2>2 DEF Streak
    <3> QED BY <3>1, <1>3
  <2>3. CASE ~IsPrefix(territory.claim, path)
    <3>1. s.outside_streak = territory.outside_streak + 1 /\ territory.outside_streak \in Nat
      BY <1>1, <2>1, <2>3 DEF Streak, LifeInv, IsTerritory
    <3>2. /\ territory.outside_streak <= Len(seen) - since
          /\ \A i \in (Len(seen) - territory.outside_streak + 1)..Len(seen) :
               ~IsPrefix(territory.claim, seen[i])
      BY DEF LifeInv, StreakIs
    <3>3. ASSUME NEW i \in (Len(seen') - s.outside_streak + 1)..Len(seen')
          PROVE  ~IsPrefix(territory.claim, seen'[i])
      <4>1. CASE i = Len(seen')
        BY <4>1, <1>3, <2>3
      <4>2. CASE i # Len(seen')
        <5>1. i \in (Len(seen) - territory.outside_streak + 1)..Len(seen) /\ i \in 1..Len(seen)
          BY <4>2, <3>1, <3>2, <1>3
        <5> QED BY <5>1, <3>2, <1>3
      <4> QED BY <4>1, <4>2
    <3> QED BY <3>1, <3>2, <3>3, <1>3
  <2> QED BY <2>2, <2>3
<1>5. d.claim # NoClaim => d.claim = territory.claim
  BY <1>1 DEF Fades
<1>6. d.claim = NoClaim => s.outside_streak = 0
  BY <1>1 DEF Fades, Streak, LifeInv, ClaimIsDistrict
<1>7. ClaimIsDistrict'
  BY <1>1, <1>5, <1>6 DEF ClaimFollows, ClaimIsDistrict, LifeInv
<1>8. since' = (IF territory'.claim = territory.claim THEN since ELSE Len(seen')) /\ since' \in 0..Len(seen')
  BY <1>2, <1>3 DEF Keeping
<1>9. territory'.claim # NoClaim => StreakIs(territory.claim, territory.outside_streak)'
  <2> SUFFICES ASSUME territory'.claim # NoClaim
               PROVE  /\ territory'.outside_streak <= Len(seen') - since'
                      /\ \A i \in (Len(seen') - territory'.outside_streak + 1)..Len(seen') :
                           ~IsPrefix(territory'.claim, seen'[i])
    BY DEF StreakIs
  <2>1. CASE territory'.outside_streak = 0
    BY <2>1, <1>3, <1>8
  <2>2. CASE territory'.outside_streak # 0
    <3>1. territory'.claim = s.claim /\ territory'.outside_streak = s.outside_streak
      BY <2>2, <1>1, <1>6 DEF ClaimFollows
    <3>2. territory'.claim = territory.claim /\ d.claim = territory.claim /\ since' = since
      BY <3>1, <1>1, <1>5, <1>8
    <3> QED BY <3>1, <3>2, <1>4
  <2> QED BY <2>1, <2>2
<1>10. LifeInv'
  BY <1>1, <1>3, <1>7, <1>8, <1>9 DEF LifeInv
<1>11. ASSUME Apart PROVE SustainedOutside
  <2>1. d.claim = territory.claim
    BY <1>1, <1>11 DEF Fades, Apart
  <2>2. s.outside_streak >= Confirmations
    BY <2>1, <1>1, <1>11 DEF ClaimFollows, SameDistrict, Apart
  <2>3. s.outside_streak \in Nat
    BY <1>1 DEF IsTerritory
  <2> QED BY <2>1, <2>2, <2>3, <1>4, <1>3, <1>11, TerritoryAssumption DEF Apart, SustainedOutside
<1> QED BY <1>10, <1>11

\* A tick of the world, and an observation that weighs nothing.
LEMMA QuietStep ==
  ASSUME LifeInv, IsTerritory(territory'), Fades(territory, territory'), seen' = seen, Keeping
  PROVE  LifeInv' /\ ~Apart
<1>1. Len(seen) \in Nat /\ since \in 0..Len(seen)
  BY DEF LifeInv
<1>2. ~Apart
  BY DEF Fades, Apart
<1>3. territory'.claim # NoClaim => /\ territory'.claim = territory.claim
                                    /\ territory'.outside_streak = territory.outside_streak
                                    /\ since' = since
  BY DEF Fades, Keeping
<1>4. since' \in 0..Len(seen')
  BY <1>1 DEF Keeping
<1>5. ClaimIsDistrict'
  BY <1>3 DEF Fades, LifeInv, ClaimIsDistrict
<1>6. territory'.claim # NoClaim => StreakIs(territory.claim, territory.outside_streak)'
  BY <1>3 DEF LifeInv, StreakIs
<1> QED BY <1>2, <1>4, <1>5, <1>6 DEF LifeInv

LEMMA LifeStep == LifeInv /\ [LifeNext]_lifeVars => LifeInv' /\ (Apart => SustainedOutside)
<1> SUFFICES ASSUME LifeInv, [LifeNext]_lifeVars PROVE LifeInv' /\ (Apart => SustainedOutside)
  OBVIOUS
<1>1. ASSUME NEW at \in Instant, Ticks(at) PROVE LifeInv' /\ ~Apart
  <2>1. IsTerritory(territory') /\ Fades(territory, territory')
    BY <1>1, DecayFades DEF Ticks, LifeInv
  <2> QED BY <1>1, <2>1, QuietStep DEF Ticks
<1>2. ASSUME NEW at \in Instant, NEW path \in Place, NEW weight \in Weight, Observes(path, weight, at)
      PROVE  LifeInv' /\ (Apart => SustainedOutside)
  <2>1. CASE weight = 0
    <3>1. territory' = territory /\ seen' = seen /\ Keeping
      BY <1>2, <2>1 DEF Observes, Observe
    <3> QED BY <3>1, QuietStep DEF Fades, LifeInv
  <2>2. CASE weight # 0
    BY <1>2, <2>2, ObservedStep
  <2> QED BY <2>1, <2>2
<1>3. CASE UNCHANGED lifeVars
  <2>1. territory' = territory /\ seen' = seen /\ Keeping
    BY <1>3 DEF lifeVars, Keeping
  <2> QED BY <2>1, QuietStep DEF Fades, LifeInv
<1> QED BY <1>1, <1>2, <1>3 DEF LifeNext

\* A claim is always a district, and without one nothing counts as outside
\* (refresh_claim, decay).
THEOREM ClaimsAreDistricts == LifeSpec => []ClaimIsDistrict
<1>1. LifeInv => ClaimIsDistrict
  BY DEF LifeInv
<1> QED BY LifeBegins, LifeStep, <1>1, PTL DEF LifeSpec

\* The hysteresis holds for any evidence, weights, window and delays: a district is
\* left only after Confirmations observations in a row outside it (observe, refresh_claim).
THEOREM MovesWhenSustained == LifeSpec => MovesOnSustainedEvidence
<1>1. LifeInv /\ [LifeNext]_lifeVars => [Apart => SustainedOutside]_lifeVars
  BY LifeStep
<1> QED BY LifeBegins, LifeStep, <1>1, PTL DEF LifeSpec, MovesOnSustainedEvidence
=============================================================================
