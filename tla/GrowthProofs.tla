---------------------------- MODULE GrowthProofs ----------------------------
(***************************************************************************)
(* A derived history covers exactly the commits of the HEAD it is keyed    *)
(* on, and where nothing was merged it is the one a fresh walk would read, *)
(* however the repository moves and whichever instance wrote the cache.    *)
(*                                                                         *)
(* Ancestors and Fold are recursive functions of the commits made so far;  *)
(* what they are of a log that grows is proved first, for any log, by      *)
(* least counterexamples.                                                  *)
(***************************************************************************)
EXTENDS Growth, TLAPS, FiniteSetTheorems, WellFoundedInduction

Commit == [parents : SUBSET Nat, status : {"A", "M", "D", "merge"}, path : Path \cup {"none"}, tree : SUBSET Path]

\* A commit comes after its parents; one that merges nothing has at most one.
LogOK(log) ==
  /\ log \in Seq(Commit)
  /\ \A c \in 1..Len(log) :
       /\ log[c].parents \subseteq 1..(c - 1)
       /\ log[c].status # "merge" => /\ log[c].path \in Path
                                     /\ \A x, y \in log[c].parents : x = y

LEMMA LeastNat ==
  ASSUME NEW S \in SUBSET Nat, S # {}
  PROVE  \E n \in S : \A m \in S : n <= m
<1>1. PICK n \in S : \A m \in S : <<m, n>> \notin OpToRel(<, Nat)
  BY WFMin, NatLessThanWellFounded, Zenon
<1>2. \A m \in S : ~(m < n)
  BY <1>1, Zenon DEF OpToRel
<1> QED BY <1>2

-----------------------------------------------------------------------------
\* The ancestors of a commit.

IsAnc(f, log, c) ==
  f = [k \in 0..c |-> IF k = Unborn THEN {} ELSE {k} \cup UNION {f[p] : p \in log[k].parents}]

Anc(log, c) ==
  LET f[k \in 0..c] == IF k = Unborn THEN {} ELSE {k} \cup UNION {f[p] : p \in log[k].parents}
  IN f[c]

LEMMA AncestorsAre == \A c : Ancestors(c) = Anc(commits, c)
BY Zenon DEF Ancestors, Anc

LEMMA AncExists ==
  ASSUME NEW log, LogOK(log), NEW c \in 0..Len(log)
  PROVE  \E f : IsAnc(f, log, c)
<1> DEFINE Bad == {n \in 0..Len(log) : ~ \E f : IsAnc(f, log, n)}
<1> SUFFICES ASSUME Bad # {} PROVE FALSE
  OBVIOUS
<1>0. Len(log) \in Nat
  BY DEF LogOK
<1>1. Bad \in SUBSET Nat
  BY <1>0
<1>2. PICK n \in Bad : \A m \in Bad : n <= m
  BY <1>1, LeastNat
<1>3. n # 0
  <2>1. IsAnc([k \in 0..0 |-> {}], log, 0)
    BY DEF IsAnc, Unborn
  <2> QED BY <2>1
<1>4. n \in 1..Len(log) /\ n - 1 \in 0..Len(log) /\ n - 1 \notin Bad
  BY <1>0, <1>2, <1>3
<1>5. PICK f : IsAnc(f, log, n - 1)
  BY <1>4
<1> DEFINE g == [k \in 0..n |-> IF k = n THEN {n} \cup UNION {f[p] : p \in log[n].parents} ELSE f[k]]
<1>6. \A k \in 0..(n - 1) : f[k] = IF k = Unborn THEN {} ELSE {k} \cup UNION {f[p] : p \in log[k].parents}
  BY <1>5 DEF IsAnc
<1>7. \A k \in 1..n : log[k].parents \subseteq 0..(k - 1)
  BY <1>4 DEF LogOK
<1>8. ASSUME NEW k \in 0..n
      PROVE  g[k] = IF k = Unborn THEN {} ELSE {k} \cup UNION {g[p] : p \in log[k].parents}
  <2>1. CASE k = 0
    <3>1. k \in 0..(n - 1) /\ k # n /\ g[k] = f[k]
      BY <1>4, <2>1
    <3>2. f[k] = {}
      BY <1>6, <2>1, <3>1 DEF Unborn
    <3> HIDE DEF g
    <3> QED BY <2>1, <3>1, <3>2 DEF Unborn
  <2>2. CASE k # 0
    <3>1. k \in 1..n /\ \A p \in log[k].parents : p \in 0..(n - 1)
      BY <1>4, <1>7, <2>2
    <3>2. \A p \in log[k].parents : g[p] = f[p]
      BY <1>4, <3>1
    <3>3. UNION {g[p] : p \in log[k].parents} = UNION {f[p] : p \in log[k].parents}
      <4> HIDE DEF g
      <4> QED BY <3>2
    <3>4. g[k] = {k} \cup UNION {f[p] : p \in log[k].parents}
      <4>1. CASE k = n
        BY <4>1
      <4>2. CASE k # n
        <5>1. k \in 0..(n - 1) /\ g[k] = f[k]
          BY <1>4, <4>2
        <5> QED BY <1>6, <2>2, <5>1 DEF Unborn
      <4> QED BY <4>1, <4>2
    <3> HIDE DEF g
    <3> QED BY <2>2, <3>3, <3>4 DEF Unborn
  <2> QED BY <2>1, <2>2
<1>9. IsAnc(g, log, n)
  <2>1. g = [k \in 0..n |-> g[k]]
    OBVIOUS
  <2> HIDE DEF g
  <2> QED BY <1>8, <2>1 DEF IsAnc
<1> HIDE DEF g
<1> QED BY <1>2, <1>9

LEMMA AncRun ==
  ASSUME NEW log, LogOK(log), NEW c \in 0..Len(log)
  PROVE  \E f : IsAnc(f, log, c) /\ Anc(log, c) = f[c]
<1> DEFINE f == CHOOSE f : f = [k \in 0..c |-> IF k = Unborn THEN {} ELSE {k} \cup UNION {f[p] : p \in log[k].parents}]
<1>1. \E g : g = [k \in 0..c |-> IF k = Unborn THEN {} ELSE {k} \cup UNION {g[p] : p \in log[k].parents}]
  <2>1. PICK g : IsAnc(g, log, c)
    BY AncExists
  <2> QED BY <2>1, Zenon DEF IsAnc
<1>2. f = [k \in 0..c |-> IF k = Unborn THEN {} ELSE {k} \cup UNION {f[p] : p \in log[k].parents}]
  BY <1>1, Zenon
<1>3. Anc(log, c) = f[c]
  BY Zenon DEF Anc
<1> HIDE DEF f
<1>4. IsAnc(f, log, c)
  BY <1>2, Zenon DEF IsAnc
<1> QED BY <1>3, <1>4

\* Two runs agree where both are defined, and where their logs do.
LEMMA AncUnique ==
  ASSUME NEW log, NEW log2, LogOK(log), NEW c \in 0..Len(log), NEW d \in c..Len(log2), LogOK(log2),
         \A k \in 1..c : log2[k].parents = log[k].parents,
         NEW f, IsAnc(f, log, c), NEW g, IsAnc(g, log2, d)
  PROVE  f[c] = g[c]
<1> DEFINE Bad == {k \in 0..c : f[k] # g[k]}
<1>0. Len(log) \in Nat /\ Len(log2) \in Nat
  BY DEF LogOK
<1>1. Bad = {}
  <2> SUFFICES ASSUME Bad # {} PROVE FALSE
    OBVIOUS
  <2>1. Bad \in SUBSET Nat
    BY <1>0
  <2>2. PICK k \in Bad : \A m \in Bad : k <= m
    BY <2>1, LeastNat
  <2>3. k \in 0..c /\ k \in 0..d
    BY <1>0, <2>2
  <2>4. /\ f[k] = IF k = Unborn THEN {} ELSE {k} \cup UNION {f[p] : p \in log[k].parents}
        /\ g[k] = IF k = Unborn THEN {} ELSE {k} \cup UNION {g[p] : p \in log2[k].parents}
    BY <2>3 DEF IsAnc
  <2>5. k # Unborn
    BY <2>2, <2>4
  <2>6. k \in 1..c /\ k \in 1..Len(log) /\ log2[k].parents = log[k].parents
    BY <1>0, <2>3, <2>5 DEF Unborn
  <2>7. \A p \in log[k].parents : p \in 0..c /\ p < k
    BY <1>0, <2>6 DEF LogOK
  <2>8. \A p \in log[k].parents : f[p] = g[p]
    BY <1>0, <2>2, <2>3, <2>7
  <2>9. UNION {f[p] : p \in log[k].parents} = UNION {g[p] : p \in log2[k].parents}
    BY <2>6, <2>8
  <2> QED BY <2>2, <2>4, <2>9
<1> QED BY <1>0, <1>1

\* A commit descends from itself and from what its parents do.
LEMMA AncIs ==
  ASSUME NEW log, LogOK(log)
  PROVE  /\ Anc(log, 0) = {}
         /\ \A c \in 1..Len(log) : Anc(log, c) = {c} \cup UNION {Anc(log, p) : p \in log[c].parents}
<1>0. Len(log) \in Nat
  BY DEF LogOK
<1>1. Anc(log, 0) = {}
  <2>1. PICK f : IsAnc(f, log, 0) /\ Anc(log, 0) = f[0]
    BY <1>0, AncRun
  <2> QED BY <2>1 DEF IsAnc, Unborn
<1>2. ASSUME NEW c \in 1..Len(log) PROVE Anc(log, c) = {c} \cup UNION {Anc(log, p) : p \in log[c].parents}
  <2>1. c \in 0..Len(log) /\ c # Unborn /\ c \in 0..c
    BY <1>0 DEF Unborn
  <2>2. PICK f : IsAnc(f, log, c) /\ Anc(log, c) = f[c]
    BY <2>1, AncRun
  <2>3. f[c] = {c} \cup UNION {f[p] : p \in log[c].parents}
    BY <2>1, <2>2 DEF IsAnc
  <2>4. ASSUME NEW p \in log[c].parents PROVE f[p] = Anc(log, p)
    <3>1. p \in 0..Len(log) /\ c \in p..Len(log)
      BY <1>0 DEF LogOK
    <3>2. PICK g : IsAnc(g, log, p) /\ Anc(log, p) = g[p]
      BY <3>1, AncRun
    <3>3. g[p] = f[p]
      BY <2>2, <3>1, <3>2, AncUnique
    <3> QED BY <3>2, <3>3
  <2> QED BY <2>2, <2>3, <2>4
<1> QED BY <1>1, <1>2

LEMMA AncIn ==
  ASSUME NEW log, LogOK(log), NEW c \in 0..Len(log)
  PROVE  Anc(log, c) \subseteq 1..c
<1> DEFINE Bad == {n \in 0..Len(log) : ~(Anc(log, n) \subseteq 1..n)}
<1>0. Len(log) \in Nat
  BY DEF LogOK
<1>1. Bad = {}
  <2> SUFFICES ASSUME Bad # {} PROVE FALSE
    OBVIOUS
  <2>1. Bad \in SUBSET Nat
    BY <1>0
  <2>2. PICK n \in Bad : \A m \in Bad : n <= m
    BY <2>1, LeastNat
  <2>3. n # 0
    BY <2>2, AncIs
  <2>4. n \in 1..Len(log)
    BY <1>0, <2>2, <2>3
  <2>5. \A p \in log[n].parents : p \in 1..(n - 1)
    BY <2>4 DEF LogOK
  <2>6. \A p \in log[n].parents : Anc(log, p) \subseteq 1..n
    <3> TAKE p \in log[n].parents
    <3>1. p \in 0..Len(log) /\ p < n /\ p \notin Bad
      BY <1>0, <2>2, <2>4, <2>5
    <3>2. Anc(log, p) \subseteq 1..p
      BY <3>1
    <3> QED BY <2>4, <3>1, <3>2
  <2>7. Anc(log, n) = {n} \cup UNION {Anc(log, p) : p \in log[n].parents}
    BY <2>4, AncIs
  <2>8. Anc(log, n) \subseteq 1..n
    BY <2>4, <2>6, <2>7
  <2> QED BY <2>2, <2>8
<1> QED BY <1>1

\* What an ancestor descends from, its descendants do.
LEMMA AncTrans ==
  ASSUME NEW log, LogOK(log), NEW c \in 0..Len(log), NEW a \in Anc(log, c)
  PROVE  Anc(log, a) \subseteq Anc(log, c)
<1> DEFINE Bad == {n \in 0..Len(log) : \E x \in Anc(log, n) : ~(Anc(log, x) \subseteq Anc(log, n))}
<1>0. Len(log) \in Nat
  BY DEF LogOK
<1>1. Bad = {}
  <2> SUFFICES ASSUME Bad # {} PROVE FALSE
    OBVIOUS
  <2>1. Bad \in SUBSET Nat
    BY <1>0
  <2>2. PICK n \in Bad : \A m \in Bad : n <= m
    BY <2>1, LeastNat
  <2>3. n # 0
    BY <2>2, AncIs
  <2>4. n \in 1..Len(log)
    BY <1>0, <2>2, <2>3
  <2>5. PICK x \in Anc(log, n) : ~(Anc(log, x) \subseteq Anc(log, n))
    BY <2>2
  <2>6. Anc(log, n) = {n} \cup UNION {Anc(log, p) : p \in log[n].parents}
    BY <2>4, AncIs
  <2>7. PICK p \in log[n].parents : x \in Anc(log, p)
    BY <2>5, <2>6
  <2>8. p \in 0..Len(log) /\ p < n
    BY <1>0, <2>4 DEF LogOK
  <2>9. p \notin Bad
    BY <1>0, <2>2, <2>8
  <2>10. Anc(log, x) \subseteq Anc(log, p)
    BY <2>7, <2>8, <2>9
  <2> QED BY <2>5, <2>6, <2>10
<1> QED BY <1>1

\* A commit more changes nothing of those before it.
LEMMA AncStable ==
  ASSUME NEW log, LogOK(log), NEW m, LogOK(Append(log, m)), NEW c \in 0..Len(log)
  PROVE  Anc(Append(log, m), c) = Anc(log, c)
<1> DEFINE log2 == Append(log, m)
<1>0. Len(log) \in Nat /\ log \in Seq(Commit)
  BY DEF LogOK
<1>1. Len(log2) = Len(log) + 1 /\ \A k \in 1..Len(log) : log2[k] = log[k]
  BY <1>0
<1> HIDE DEF log2
<1>2. LogOK(log2)
  BY DEF log2
<1>3. c \in 0..Len(log2) /\ c \in c..Len(log2)
  BY <1>0, <1>1
<1>4. PICK f : IsAnc(f, log, c) /\ Anc(log, c) = f[c]
  BY AncRun
<1>5. PICK g : IsAnc(g, log2, c) /\ Anc(log2, c) = g[c]
  BY <1>2, <1>3, AncRun
<1>6. \A k \in 1..c : log2[k].parents = log[k].parents
  BY <1>0, <1>1
<1>7. f[c] = g[c]
  BY <1>2, <1>3, <1>4, <1>5, <1>6, AncUnique
<1> QED BY <1>4, <1>5, <1>7 DEF log2

\* Where nothing is merged the ancestors of a commit are those of its own ancestor
\* and later ones.
LEMMA AncChain ==
  ASSUME NEW log, LogOK(log), NEW c \in 0..Len(log), \A k \in Anc(log, c) : log[k].status # "merge",
         NEW a \in Anc(log, c), NEW b \in Anc(log, c), b <= a
  PROVE  b \in Anc(log, a)
<1> DEFINE Linear(n) == \A k \in Anc(log, n) : log[k].status # "merge"
           Bad == {n \in 0..Len(log) : /\ Linear(n)
                                       /\ \E x, y \in Anc(log, n) : y <= x /\ y \notin Anc(log, x)}
<1>0. Len(log) \in Nat
  BY DEF LogOK
<1>1. Bad = {}
  <2> SUFFICES ASSUME Bad # {} PROVE FALSE
    OBVIOUS
  <2>1. Bad \in SUBSET Nat
    BY <1>0
  <2>2. PICK n \in Bad : \A m \in Bad : n <= m
    BY <2>1, LeastNat
  <2>3. n # 0
    BY <2>2, AncIs
  <2>4. n \in 1..Len(log)
    BY <1>0, <2>2, <2>3
  <2>5. PICK x \in Anc(log, n), y \in Anc(log, n) : y <= x /\ y \notin Anc(log, x)
    BY <2>2
  <2>6. Anc(log, n) = {n} \cup UNION {Anc(log, p) : p \in log[n].parents}
    BY <2>4, AncIs
  <2>7. x # n
    BY <2>5
  <2>8. PICK p \in log[n].parents : x \in Anc(log, p)
    BY <2>6, <2>7
  <2>9. p \in 1..(n - 1) /\ p \in 0..Len(log) /\ p < n
    BY <1>0, <2>4 DEF LogOK
  <2>10. x \in 1..p
    BY <2>8, <2>9, AncIn
  <2>11. y # n /\ y \in 1..n
    <3>1. y \in 1..n
      BY <2>4, <2>5, AncIn, <1>0
    <3> QED BY <2>4, <2>5, <2>9, <2>10, <3>1
  <2>12. PICK q \in log[n].parents : y \in Anc(log, q)
    BY <2>6, <2>11
  <2>13. log[n].status # "merge"
    BY <2>2, <2>6
  <2>14. q = p
    BY <2>4, <2>13 DEF LogOK
  <2>15. Anc(log, p) \subseteq Anc(log, n)
    BY <2>6
  <2>16. Linear(p)
    BY <2>2, <2>15
  <2>17. p \in Bad
    BY <2>5, <2>8, <2>9, <2>12, <2>14, <2>16
  <2> QED BY <1>0, <2>2, <2>9, <2>17
<1>2. c \notin Bad
  BY <1>1
<1> QED BY <1>2

-----------------------------------------------------------------------------
\* The lines of the log.

History(n) == [head : 0..n, entries : Seq(Path \X (1..n)), touched : [Path -> 0..n]]

\* What the line of commit c, m in the log, makes of a history.
LineBy(m, h, c) ==
  LET status == m.status
      path   == m.path
      known  == \E k \in DOMAIN h.entries : h.entries[k][1] = path
  IN IF status = "merge" THEN h
     ELSE [h EXCEPT !.entries = IF status = "A" /\ ~known THEN Append(@, <<path, c>>) ELSE @,
                    !.touched[path] = c]

LineOf(log, h, c) == LineBy(log[c], h, c)

Keyed(h, c) == [h EXCEPT !.head = c]

\* f holds what the lines up to each commit make of h.
IsFold(f, log, h, S, n) ==
  f = [c \in 0..n |-> IF c = 0 THEN h ELSE IF c \in S THEN LineOf(log, f[c - 1], c) ELSE f[c - 1]]

FoldOf(log, h, S) ==
  LET f[c \in 0..Len(log)] == IF c = 0 THEN h ELSE IF c \in S THEN LineOf(log, f[c - 1], c) ELSE f[c - 1]
  IN f[Len(log)]

LEMMA LineAre == \A h, c : Line(h, c) = LineOf(commits, h, c)
BY Zenon DEF Line, LineOf, LineBy

LEMMA FoldAre == \A h, S : Fold(h, S) = FoldOf(commits, h, S)
BY LineAre, Zenon DEF Fold, FoldOf

LEMMA FoldStart ==
  ASSUME NEW f, NEW log, NEW h, NEW S, NEW n \in Nat, IsFold(f, log, h, S, n)
  PROVE  f[0] = h
<1>1. 0 \in 0..n
  OBVIOUS
<1> QED BY <1>1, Zenon DEF IsFold

Steps(f, log, S, n) == \A c \in 1..n : c \in S => f[c] = LineOf(log, f[c - 1], c)
Keeps(f, S, n)      == \A c \in 1..n : c \notin S => f[c] = f[c - 1]

LEMMA FoldSteps ==
  ASSUME NEW f, NEW log, NEW h, NEW S, NEW n \in Nat, IsFold(f, log, h, S, n)
  PROVE  Steps(f, log, S, n) /\ Keeps(f, S, n)
<1>1. \A c \in 1..n : c \in 0..n /\ c # 0
  OBVIOUS
<1>2. \A c \in 0..n : f[c] = IF c = 0 THEN h ELSE IF c \in S THEN LineOf(log, f[c - 1], c) ELSE f[c - 1]
  BY Zenon DEF IsFold
<1>3. ASSUME NEW c \in 1..n PROVE (c \in S => f[c] = LineOf(log, f[c - 1], c)) /\ (c \notin S => f[c] = f[c - 1])
  <2>1. c \in 0..n /\ c # 0
    BY <1>1
  <2> QED BY <1>2, <2>1, Zenon
<1>4. Steps(f, log, S, n)
  BY <1>3, Zenon DEF Steps
<1>5. Keeps(f, S, n)
  BY <1>3, Zenon DEF Keeps
<1> QED BY <1>4, <1>5, Zenon

LEMMA FoldExists ==
  ASSUME NEW log, NEW h, NEW S, NEW c \in Nat
  PROVE  \E f : IsFold(f, log, h, S, c)
<1> DEFINE Bad == {n \in Nat : ~ \E f : IsFold(f, log, h, S, n)}
<1> SUFFICES ASSUME Bad # {} PROVE FALSE
  OBVIOUS
<1>1. Bad \in SUBSET Nat
  OBVIOUS
<1>2. PICK n \in Bad : \A m \in Bad : n <= m
  BY <1>1, LeastNat
<1>3. n # 0
  <2> DEFINE f == [k \in 0..0 |-> h]
  <2>1. \A k \in 0..0 : k = 0
    OBVIOUS
  <2>2. f = [k \in 0..0 |-> IF k = 0 THEN h ELSE IF k \in S THEN LineOf(log, f[k - 1], k) ELSE f[k - 1]]
    BY <2>1, Zenon
  <2>3. IsFold(f, log, h, S, 0)
    BY <2>2, Zenon DEF IsFold
  <2> QED BY <2>3
<1>4. n \in Nat /\ n - 1 \in Nat /\ n - 1 \notin Bad
  BY <1>2, <1>3
<1>5. PICK f : IsFold(f, log, h, S, n - 1)
  BY <1>4
<1>6a. f[0] = h
  BY <1>4, <1>5, FoldStart
<1>6. Steps(f, log, S, n - 1) /\ Keeps(f, S, n - 1)
  <2>1. PICK d \in Nat : d = n - 1
    BY <1>4
  <2>2. IsFold(f, log, h, S, d)
    BY <1>5, <2>1, Zenon
  <2>3. Steps(f, log, S, d) /\ Keeps(f, S, d)
    BY <2>2, FoldSteps, Zenon
  <2> QED BY <2>1, <2>3, Zenon
<1> DEFINE last == IF n \in S THEN LineOf(log, f[n - 1], n) ELSE f[n - 1]
           g == [k \in 0..n |-> IF k = n THEN last ELSE f[k]]
<1> HIDE DEF last
<1>7. g[n] = last /\ \A k \in 0..(n - 1) : g[k] = f[k]
  BY <1>4
<1>8. g = [k \in 0..n |-> g[k]]
  OBVIOUS
<1> HIDE DEF g
<1>9. ASSUME NEW k \in 0..n
      PROVE  g[k] = IF k = 0 THEN h ELSE IF k \in S THEN LineOf(log, g[k - 1], k) ELSE g[k - 1]
  <2>1. CASE k = 0
    <3>1. k \in 0..(n - 1)
      BY <1>3, <1>4, <2>1
    <3> QED BY <1>6a, <1>7, <2>1, <3>1, Zenon
  <2>2. CASE k # 0 /\ k # n
    <3>1. k \in 0..(n - 1) /\ k \in 1..(n - 1) /\ k - 1 \in 0..(n - 1)
      BY <1>4, <2>2
    <3>2. g[k] = f[k] /\ g[k - 1] = f[k - 1]
      BY <1>7, <3>1, Zenon
    <3>4. CASE k \in S
      <4>1. f[k] = LineOf(log, f[k - 1], k)
        BY <1>6, <3>1, <3>4, Zenon DEF Steps
      <4> QED BY <2>2, <3>2, <3>4, <4>1, Zenon
    <3>5. CASE k \notin S
      <4>1. f[k] = f[k - 1]
        BY <1>6, <3>1, <3>5, Zenon DEF Keeps
      <4> QED BY <2>2, <3>2, <3>5, <4>1, Zenon
    <3> QED BY <3>4, <3>5
  <2>3. CASE k = n
    <3>1. n - 1 \in 0..(n - 1)
      BY <1>3, <1>4
    <3>2. g[n - 1] = f[n - 1]
      BY <1>7, <3>1, Zenon
    <3> QED BY <1>3, <1>7, <2>3, <3>2, Zenon DEF last
  <2> QED BY <2>1, <2>2, <2>3, Zenon
<1>10. IsFold(g, log, h, S, n)
  BY <1>8, <1>9, Zenon DEF IsFold
<1> QED BY <1>2, <1>10

LEMMA FoldRun ==
  ASSUME NEW log, NEW h, NEW S, Len(log) \in Nat
  PROVE  \E f : IsFold(f, log, h, S, Len(log)) /\ FoldOf(log, h, S) = f[Len(log)]
<1> DEFINE f == CHOOSE f : f = [c \in 0..Len(log) |-> IF c = 0 THEN h ELSE IF c \in S THEN LineOf(log, f[c - 1], c) ELSE f[c - 1]]
<1>1. \E g : g = [c \in 0..Len(log) |-> IF c = 0 THEN h ELSE IF c \in S THEN LineOf(log, g[c - 1], c) ELSE g[c - 1]]
  <2>1. PICK g : IsFold(g, log, h, S, Len(log))
    BY FoldExists
  <2> QED BY <2>1, Zenon DEF IsFold
<1>2. f = [c \in 0..Len(log) |-> IF c = 0 THEN h ELSE IF c \in S THEN LineOf(log, f[c - 1], c) ELSE f[c - 1]]
  BY <1>1, Zenon
<1>3. FoldOf(log, h, S) = f[Len(log)]
  BY Zenon DEF FoldOf
<1> HIDE DEF f
<1>4. IsFold(f, log, h, S, Len(log))
  BY <1>2, Zenon DEF IsFold
<1> QED BY <1>3, <1>4

-----------------------------------------------------------------------------
\* What the lines of a set of commits leave in a history.

Distinct(h) == \A j, k \in DOMAIN h.entries : h.entries[j][1] = h.entries[k][1] => j = k

Adds(log, S)       == {log[k].path : k \in {j \in S : log[j].status = "A"}}
Touches(log, S, p) == \E k \in S : log[k].status # "merge" /\ log[k].path = p

\* g has the files and the touched paths of h and of the lines of S.
Adding(g, log, h, S, n) ==
  /\ g \in History(n) /\ g.head = h.head /\ Distinct(g)
  /\ Addresses(g) = Addresses(h) \cup Adds(log, S)
  /\ \A p \in Path : g.touched[p] = 0 <=> h.touched[p] = 0 /\ ~Touches(log, S, p)

LEMMA LineAdds ==
  ASSUME NEW log, LogOK(log), NEW c \in 1..Len(log), NEW h \in History(Len(log)), Distinct(h)
  PROVE  Adding(LineOf(log, h, c), log, h, {c}, Len(log))
<1> DEFINE g == LineOf(log, h, c)
           status == log[c].status
           path == log[c].path
           known == \E k \in DOMAIN h.entries : h.entries[k][1] = path
<1>0. Len(log) \in Nat /\ c \in 0..Len(log) /\ c # 0
  BY DEF LogOK
<1>1. h.head \in 0..Len(log) /\ h.entries \in Seq(Path \X (1..Len(log))) /\ h.touched \in [Path -> 0..Len(log)]
  BY DEF History
<1>2. CASE status = "merge"
  <2>1. g = h
    BY <1>2 DEF LineOf, LineBy
  <2>2. Adds(log, {c}) = {} /\ \A p : ~Touches(log, {c}, p)
    BY <1>2 DEF Adds, Touches
  <2> HIDE DEF g
  <2>3. Adding(g, log, h, {c}, Len(log))
    BY <2>1, <2>2 DEF Adding
  <2> QED BY <2>3 DEF g
<1>3. CASE status # "merge"
  <2>1. path \in Path
    BY <1>3 DEF LogOK
  <2>2. g = [h EXCEPT !.entries = IF status = "A" /\ ~known THEN Append(@, <<path, c>>) ELSE @, !.touched[path] = c]
    BY <1>3, Zenon DEF LineOf, LineBy
  <2>3. g \in History(Len(log)) /\ g.head = h.head
    <3>1. Append(h.entries, <<path, c>>) \in Seq(Path \X (1..Len(log)))
      BY <1>1, <2>1
    <3> DEFINE e == IF status = "A" /\ ~known THEN Append(h.entries, <<path, c>>) ELSE h.entries
    <3>2. e \in Seq(Path \X (1..Len(log)))
      BY <1>1, <3>1
    <3>3. g = [h EXCEPT !.entries = e, !.touched[path] = c]
      BY <2>2
    <3> HIDE DEF path, known, status, e, g
    <3>4. g = [head |-> h.head, entries |-> e, touched |-> [h.touched EXCEPT ![path] = c]]
      BY <3>3 DEF History
    <3>5. [h.touched EXCEPT ![path] = c] \in [Path -> 0..Len(log)]
      BY <1>0, <1>1, <2>1
    <3> QED BY <1>1, <3>2, <3>4, <3>5 DEF History
  <2>4. /\ g.entries = IF status = "A" /\ ~known THEN Append(h.entries, <<path, c>>) ELSE h.entries
        /\ g.touched = [h.touched EXCEPT ![path] = c]
    <3> HIDE DEF path, known, status
    <3> QED BY <2>2 DEF History
  <2>5. \A p \in Path : g.touched[p] = 0 <=> h.touched[p] = 0 /\ ~Touches(log, {c}, p)
    <3>1. \A p : Touches(log, {c}, p) <=> p = path
      BY <1>3 DEF Touches
    <3> HIDE DEF g, path
    <3>2. \A p \in Path : g.touched[p] = IF p = path THEN c ELSE h.touched[p]
      BY <1>1, <2>1, <2>4
    <3> QED BY <1>0, <3>1, <3>2
  <2>6. Adds(log, {c}) = IF status = "A" THEN {path} ELSE {}
    BY DEF Adds
  <2> HIDE DEF g
  <2>7. Distinct(g) /\ Addresses(g) = Addresses(h) \cup Adds(log, {c})
    <3>1. CASE status = "A" /\ ~known
      <4> HIDE DEF path, status
      <4>1. g.entries = Append(h.entries, <<path, c>>)
        BY <2>4, <3>1
      <4>2. /\ DOMAIN g.entries = 1..(Len(h.entries) + 1) /\ DOMAIN h.entries = 1..Len(h.entries)
            /\ Len(h.entries) \in Nat
            /\ g.entries[Len(h.entries) + 1] = <<path, c>>
            /\ \A k \in DOMAIN h.entries : g.entries[k] = h.entries[k]
        BY <1>1, <4>1
      <4>3. \A k \in DOMAIN g.entries : k \in DOMAIN h.entries \/ k = Len(h.entries) + 1
        BY <4>2
      <4>4. \A k \in DOMAIN h.entries : h.entries[k][1] # path
        BY <3>1
      <4>5. g.entries[Len(h.entries) + 1][1] = path
        BY <4>2
      <4>6. Distinct(g)
        BY <4>2, <4>3, <4>4, <4>5 DEF Distinct
      <4>7. Addresses(g) = Addresses(h) \cup {path}
        BY <4>2, <4>3, <4>5 DEF Addresses
      <4> QED BY <2>6, <3>1, <4>6, <4>7
    <3>2. CASE ~(status = "A" /\ ~known)
      <4>1. g.entries = h.entries
        BY <2>4, <3>2
      <4>2. Distinct(g) /\ Addresses(g) = Addresses(h)
        BY <4>1 DEF Distinct, Addresses
      <4>3. status = "A" => path \in Addresses(h)
        BY <3>2 DEF Addresses
      <4> HIDE DEF path, status, known
      <4> QED BY <2>6, <4>2, <4>3
    <3> QED BY <3>1, <3>2
  <2>8. Adding(g, log, h, {c}, Len(log))
    BY <2>3, <2>5, <2>7, Zenon DEF Adding
  <2> QED BY <2>8 DEF g
<1> QED BY <1>2, <1>3

LEMMA AddingMore ==
  ASSUME NEW log, NEW h, NEW n, NEW S, NEW T, NEW f, NEW g, Adding(f, log, h, S, n), Adding(g, log, f, T, n)
  PROVE  Adding(g, log, h, S \cup T, n)
<1>1. Adds(log, S \cup T) = Adds(log, S) \cup Adds(log, T)
  BY DEF Adds
<1>2. \A p : Touches(log, S \cup T, p) <=> Touches(log, S, p) \/ Touches(log, T, p)
  BY DEF Touches
<1>3. Addresses(g) = Addresses(h) \cup Adds(log, S \cup T)
  BY <1>1 DEF Adding
<1>4. ASSUME NEW p \in Path PROVE g.touched[p] = 0 <=> h.touched[p] = 0 /\ ~Touches(log, S \cup T, p)
  BY <1>2, Zenon DEF Adding
<1> QED BY <1>3, <1>4, Zenon DEF Adding

LEMMA RunAdds ==
  ASSUME NEW log, LogOK(log), NEW h \in History(Len(log)), Distinct(h), NEW S \in SUBSET (1..Len(log)),
         NEW f, IsFold(f, log, h, S, Len(log))
  PROVE  \A k \in 0..Len(log) : Adding(f[k], log, h, S \cap (1..k), Len(log))
<1>0. Len(log) \in Nat
  BY DEF LogOK
<1>2a. f[0] = h
  BY <1>0, FoldStart, Zenon
<1>2. Steps(f, log, S, Len(log)) /\ Keeps(f, S, Len(log))
  BY <1>0, FoldSteps, Zenon
<1> DEFINE Bad == {k \in 0..Len(log) : ~Adding(f[k], log, h, S \cap (1..k), Len(log))}
<1>3. Bad = {}
  <2> SUFFICES ASSUME Bad # {} PROVE FALSE
    OBVIOUS
  <2>1. Bad \in SUBSET Nat
    BY <1>0
  <2>2. PICK k \in Bad : \A m \in Bad : k <= m
    BY <2>1, LeastNat
  <2>3. Adding(h, log, h, {}, Len(log))
    <3>1. Adds(log, {}) = {} /\ \A p : ~Touches(log, {}, p)
      BY DEF Adds, Touches
    <3> QED BY <3>1 DEF Adding
  <2>4. k # 0
    <3>1. S \cap (1..0) = {}
      OBVIOUS
    <3> QED BY <1>2a, <2>2, <2>3, <3>1
  <2>5. k \in 1..Len(log) /\ k - 1 \in 0..Len(log) /\ k - 1 < k
    BY <1>0, <2>2, <2>4
  <2>6. k - 1 \notin Bad
    BY <1>0, <2>2, <2>5
  <2>7. Adding(f[k - 1], log, h, S \cap (1..(k - 1)), Len(log))
    BY <2>5, <2>6
  <2>8. CASE k \in S
    <3>1. f[k - 1] \in History(Len(log)) /\ Distinct(f[k - 1])
      BY <2>7, Zenon DEF Adding
    <3>2. f[k] = LineOf(log, f[k - 1], k)
      BY <1>2, <2>5, <2>8, Zenon DEF Steps
    <3>3. Adding(f[k], log, f[k - 1], {k}, Len(log))
      BY <2>5, <3>1, <3>2, LineAdds, Zenon
    <3>4. S \cap (1..k) = (S \cap (1..(k - 1))) \cup {k}
      BY <1>0, <2>5, <2>8
    <3>5. Adding(f[k], log, h, (S \cap (1..(k - 1))) \cup {k}, Len(log))
      BY <2>7, <3>3, AddingMore, Zenon
    <3> QED BY <2>2, <3>4, <3>5
  <2>9. CASE k \notin S
    <3>1. f[k] = f[k - 1]
      BY <1>2, <2>5, <2>9 DEF Keeps
    <3>2. S \cap (1..k) = S \cap (1..(k - 1))
      BY <1>0, <2>5, <2>9
    <3> QED BY <2>2, <2>7, <3>1, <3>2
  <2> QED BY <2>8, <2>9
<1> QED BY <1>3

LEMMA FoldAdds ==
  ASSUME NEW log, LogOK(log), NEW h \in History(Len(log)), Distinct(h), NEW S \in SUBSET (1..Len(log))
  PROVE  Adding(FoldOf(log, h, S), log, h, S, Len(log))
<1>0. Len(log) \in Nat
  BY DEF LogOK
<1>1. PICK f : IsFold(f, log, h, S, Len(log)) /\ FoldOf(log, h, S) = f[Len(log)]
  BY <1>0, FoldRun
<1>2. Len(log) \in 0..Len(log)
  BY <1>0
<1>3. S \cap (1..Len(log)) = S
  OBVIOUS
<1>4. Adding(f[Len(log)], log, h, S \cap (1..Len(log)), Len(log))
  BY <1>1, <1>2, RunAdds
<1> QED BY <1>1, <1>3, <1>4

-----------------------------------------------------------------------------
\* Folding over a log that grows, and over a set of commits in two parts.

LEMMA FoldStable ==
  ASSUME NEW log, NEW log2, Len(log) \in Nat, Len(log2) \in Nat, Len(log) <= Len(log2),
         \A k \in 1..Len(log) : log2[k] = log[k],
         NEW h, NEW S \in SUBSET (1..Len(log))
  PROVE  FoldOf(log2, h, S) = FoldOf(log, h, S)
<1>1. PICK f : IsFold(f, log, h, S, Len(log)) /\ FoldOf(log, h, S) = f[Len(log)]
  BY FoldRun
<1>2. PICK g : IsFold(g, log2, h, S, Len(log2)) /\ FoldOf(log2, h, S) = g[Len(log2)]
  BY FoldRun
<1>3a. f[0] = h
  BY <1>1, FoldStart, Zenon
<1>3. Steps(f, log, S, Len(log)) /\ Keeps(f, S, Len(log))
  BY <1>1, FoldSteps, Zenon
<1>4a. g[0] = h
  BY <1>2, FoldStart, Zenon
<1>4. Steps(g, log2, S, Len(log2)) /\ Keeps(g, S, Len(log2))
  BY <1>2, FoldSteps, Zenon
<1>5. \A k \in 1..Len(log) : \A x : LineOf(log2, x, k) = LineOf(log, x, k)
  <2> TAKE k \in 1..Len(log)
  <2> TAKE x
  <2>1. log2[k] = log[k]
    OBVIOUS
  <2> QED BY <2>1, Zenon DEF LineOf
<1> DEFINE Bad == {k \in 0..Len(log2) : g[k] # f[IF k <= Len(log) THEN k ELSE Len(log)]}
<1>6. Bad = {}
  <2> SUFFICES ASSUME Bad # {} PROVE FALSE
    OBVIOUS
  <2>1. Bad \in SUBSET Nat
    OBVIOUS
  <2>2. PICK k \in Bad : \A m \in Bad : k <= m
    BY <2>1, LeastNat
  <2>3. k # 0
    BY <1>3a, <1>4a, <2>2
  <2>4. k \in 1..Len(log2) /\ k - 1 \in 0..Len(log2) /\ k - 1 < k
    BY <2>2, <2>3
  <2>5. k - 1 \notin Bad
    BY <2>2, <2>4
  <2>6. g[k - 1] = f[IF k - 1 <= Len(log) THEN k - 1 ELSE Len(log)]
    BY <2>4, <2>5
  <2>7. CASE k <= Len(log)
    <3>1. k \in 1..Len(log) /\ g[k - 1] = f[k - 1] /\ k \in 1..Len(log2)
      BY <2>4, <2>6, <2>7
    <3>2. g[k] = f[k]
      <4>1. CASE k \in S
        BY <1>3, <1>4, <1>5, <3>1, <4>1, Zenon DEF Steps
      <4>2. CASE k \notin S
        BY <1>3, <1>4, <3>1, <4>2, Zenon DEF Keeps
      <4> QED BY <4>1, <4>2
    <3> QED BY <2>2, <2>7, <3>2
  <2>8. CASE ~(k <= Len(log))
    <3>1. k \notin S /\ g[k - 1] = f[Len(log)]
      BY <2>4, <2>6, <2>8
    <3>2. g[k] = g[k - 1]
      BY <1>4, <2>4, <3>1, Zenon DEF Keeps
    <3> QED BY <2>2, <2>8, <3>1, <3>2
  <2> QED BY <2>7, <2>8
<1>7. Len(log2) \in 0..Len(log2) /\ g[Len(log2)] = f[Len(log)]
  BY <1>6
<1> QED BY <1>1, <1>2, <1>7

LEMMA LineKeyed ==
  ASSUME NEW log, NEW n, NEW h \in History(n), NEW x, NEW c
  PROVE  LineOf(log, Keyed(h, x), c) = Keyed(LineOf(log, h, c), x)
<1> DEFINE g == Keyed(h, x)
           status == log[c].status
           path == log[c].path
           known == \E k \in DOMAIN h.entries : h.entries[k][1] = path
           e == IF status = "A" /\ ~known THEN Append(h.entries, <<path, c>>) ELSE h.entries
<1>1. h = [head |-> h.head, entries |-> h.entries, touched |-> h.touched]
  BY DEF History
<1>2. g = [head |-> x, entries |-> h.entries, touched |-> h.touched]
  BY <1>1 DEF Keyed
<1>3. CASE status = "merge"
  BY <1>3, Zenon DEF LineOf, LineBy
<1>4. CASE status # "merge"
  <2>1. LineOf(log, h, c) = [h EXCEPT !.entries = e, !.touched[path] = c]
    BY <1>4, Zenon DEF LineOf, LineBy
  <2>2. g.entries = h.entries /\ g.touched = h.touched
    BY <1>2
  <2>3. LineOf(log, g, c) = [g EXCEPT !.entries = e, !.touched[path] = c]
    BY <1>4, <2>2 DEF LineOf, LineBy
  <2> HIDE DEF e, path, g
  <2>4. LineOf(log, h, c) = [head |-> h.head, entries |-> e, touched |-> [h.touched EXCEPT ![path] = c]]
    BY <1>1, <2>1
  <2>5. LineOf(log, g, c) = [head |-> x, entries |-> e, touched |-> [h.touched EXCEPT ![path] = c]]
    BY <1>2, <2>3
  <2> QED BY <2>4, <2>5 DEF g, Keyed
<1> QED BY <1>3, <1>4

LEMMA FoldJoin ==
  ASSUME NEW log, LogOK(log), NEW h \in History(Len(log)), Distinct(h), NEW x,
         NEW a \in 0..Len(log), NEW S \in SUBSET (1..a), NEW T \in SUBSET ((a + 1)..Len(log))
  PROVE  FoldOf(log, Keyed(FoldOf(log, h, S), x), T) = Keyed(FoldOf(log, h, S \cup T), x)
<1>0. Len(log) \in Nat /\ S \in SUBSET (1..Len(log)) /\ S \cup T \in SUBSET (1..Len(log))
  BY DEF LogOK
<1> DEFINE mid == Keyed(FoldOf(log, h, S), x)
<1>1. PICK f : IsFold(f, log, h, S, Len(log)) /\ FoldOf(log, h, S) = f[Len(log)]
  BY <1>0, FoldRun
<1>2. PICK g : IsFold(g, log, mid, T, Len(log)) /\ FoldOf(log, mid, T) = g[Len(log)]
  BY <1>0, FoldRun
<1>3. PICK u : IsFold(u, log, h, S \cup T, Len(log)) /\ FoldOf(log, h, S \cup T) = u[Len(log)]
  BY <1>0, FoldRun
<1>4a. f[0] = h
  BY <1>0, <1>1, FoldStart, Zenon
<1>4. Steps(f, log, S, Len(log)) /\ Keeps(f, S, Len(log))
  BY <1>0, <1>1, FoldSteps, Zenon
<1>5a. g[0] = mid
  <2> HIDE DEF mid
  <2> QED BY <1>0, <1>2, FoldStart, Zenon
<1>5. Steps(g, log, T, Len(log)) /\ Keeps(g, T, Len(log))
  <2> HIDE DEF mid
  <2> QED BY <1>0, <1>2, FoldSteps, Zenon
<1>6a. u[0] = h
  BY <1>0, <1>3, FoldStart
<1>6. Steps(u, log, S \cup T, Len(log)) /\ Keeps(u, S \cup T, Len(log))
  <2> DEFINE ST == S \cup T
  <2>1. IsFold(u, log, h, ST, Len(log))
    BY <1>3
  <2> HIDE DEF ST
  <2>2. Steps(u, log, ST, Len(log)) /\ Keeps(u, ST, Len(log))
    BY <1>0, <2>1, FoldSteps, Zenon
  <2> QED BY <2>2 DEF ST
<1>7. \A k \in 0..Len(log) : u[k] \in History(Len(log))
  <2>1. \A k \in 0..Len(log) : Adding(u[k], log, h, (S \cup T) \cap (1..k), Len(log))
    BY <1>0, <1>3, RunAdds
  <2> QED BY <2>1, Zenon DEF Adding
<1> HIDE DEF mid
<1> DEFINE Before(k) == u[k] = f[k] /\ g[k] = mid
           BadA == {k \in 0..a : ~Before(k)}
<1>8. BadA = {}
  <2> SUFFICES ASSUME BadA # {} PROVE FALSE
    OBVIOUS
  <2>1. BadA \in SUBSET Nat
    BY <1>0
  <2>2. PICK k \in BadA : \A m \in BadA : k <= m
    BY <2>1, LeastNat
  <2>3. k # 0
    BY <1>4a, <1>5a, <1>6a, <2>2
  <2>4. k \in 1..Len(log) /\ k - 1 \in 0..a /\ k - 1 < k /\ k \notin T
    BY <1>0, <2>2, <2>3
  <2>5. Before(k - 1)
    BY <2>2, <2>4
  <2>6. g[k] = mid
    BY <1>5, <2>4, <2>5, Zenon DEF Keeps
  <2>7. CASE k \in S
    <3>1. k \in S \cup T
      BY <2>7
    <3>2. u[k] = f[k]
      BY <1>4, <1>6, <2>4, <2>5, <2>7, <3>1, Zenon DEF Steps
    <3> QED BY <2>2, <2>6, <3>2
  <2>8. CASE k \notin S
    <3>1. k \notin S \cup T
      BY <2>4, <2>8
    <3>2. u[k] = f[k]
      BY <1>4, <1>6, <2>4, <2>5, <2>8, <3>1, Zenon DEF Keeps
    <3> QED BY <2>2, <2>6, <3>2
  <2> QED BY <2>7, <2>8
<1> DEFINE BadB == {k \in a..Len(log) : f[k] # f[a]}
<1>9. BadB = {}
  <2> SUFFICES ASSUME BadB # {} PROVE FALSE
    OBVIOUS
  <2>1. BadB \in SUBSET Nat
    BY <1>0
  <2>2. PICK k \in BadB : \A m \in BadB : k <= m
    BY <2>1, LeastNat
  <2>3. k \in 1..Len(log) /\ k - 1 \in a..Len(log) /\ k - 1 < k /\ k \notin S
    BY <1>0, <2>2
  <2>4. f[k - 1] = f[a]
    BY <2>2, <2>3
  <2>5. f[k] = f[k - 1]
    BY <1>4, <2>3, Zenon DEF Keeps
  <2> QED BY <2>2, <2>4, <2>5
<1>10. mid = Keyed(u[a], x) /\ g[a] = mid
  <2>1. a \in 0..a /\ Len(log) \in a..Len(log)
    BY <1>0
  <2>2. f[Len(log)] = f[a] /\ Before(a)
    BY <1>8, <1>9, <2>1
  <2> QED BY <1>1, <2>2 DEF mid
<1> DEFINE After(k) == g[k] = Keyed(u[k], x)
           BadC == {k \in a..Len(log) : ~After(k)}
<1>11. BadC = {}
  <2> SUFFICES ASSUME BadC # {} PROVE FALSE
    OBVIOUS
  <2>1. BadC \in SUBSET Nat
    BY <1>0
  <2>2. PICK k \in BadC : \A m \in BadC : k <= m
    BY <2>1, LeastNat
  <2>3. k # a
    BY <1>10, <2>2
  <2>4. k \in 1..Len(log) /\ k - 1 \in a..Len(log) /\ k - 1 < k /\ k \notin S /\ k - 1 \in 0..Len(log)
    BY <1>0, <2>2, <2>3
  <2>5. After(k - 1)
    <3>1. k - 1 \notin BadC
      <4> HIDE DEF BadC
      <4> QED BY <2>2, <2>4
    <3> QED BY <2>4, <3>1, Zenon
  <2>6. CASE k \in T
    <3>1. k \in S \cup T
      BY <2>6
    <3>2. u[k] = LineOf(log, u[k - 1], k)
      BY <1>6, <2>4, <3>1, Zenon DEF Steps
    <3>3. g[k] = LineOf(log, g[k - 1], k)
      BY <1>5, <2>4, <2>6, Zenon DEF Steps
    <3>4. u[k - 1] \in History(Len(log))
      BY <1>7, <2>4
    <3>5. LineOf(log, Keyed(u[k - 1], x), k) = Keyed(LineOf(log, u[k - 1], k), x)
      BY <3>4, LineKeyed
    <3>6. After(k)
      BY <2>5, <3>2, <3>3, <3>5, Zenon
    <3> QED BY <2>2, <3>6
  <2>7. CASE k \notin T
    <3>1. k \notin S \cup T
      BY <2>4, <2>7
    <3>2. u[k] = u[k - 1]
      BY <1>6, <2>4, <3>1, Zenon DEF Keeps
    <3>3. g[k] = g[k - 1]
      BY <1>5, <2>4, <2>7, Zenon DEF Keeps
    <3>4. After(k)
      BY <2>5, <3>2, <3>3, Zenon
    <3> QED BY <2>2, <3>4
  <2> QED BY <2>6, <2>7
<1>12. Len(log) \in a..Len(log)
  BY <1>0
<1>13. After(Len(log))
  BY <1>11, <1>12
<1> QED BY <1>2, <1>3, <1>13, Zenon DEF mid

-----------------------------------------------------------------------------
(* The invariant. *)

\* What a fresh walk of the log would read of a commit.
FreshOf(log, c) == Keyed(FoldOf(log, NoHistory, Anc(log, c)), c)

Linear(log, c) == \A k \in Anc(log, c) : log[k].status # "merge"

\* A history has the files and the touched paths of the ancestors of its head,
\* and is the fresh one where they merge nothing.
Good(log, h) ==
  /\ h \in History(Len(log)) /\ Distinct(h)
  /\ Addresses(h) = Adds(log, Anc(log, h.head))
  /\ \A p \in Path : h.touched[p] = 0 <=> ~Touches(log, Anc(log, h.head), p)
  /\ Linear(log, h.head) => h = FreshOf(log, h.head)

LEMMA NothingTyped ==
  ASSUME NEW n \in Nat
  PROVE  NoHistory \in History(n) /\ Distinct(NoHistory) /\ Addresses(NoHistory) = {} /\ NoHistory.head = 0
BY DEF NoHistory, History, Distinct, Addresses, Unborn

\* A fresh history covers its commit.
LEMMA FreshCovers ==
  ASSUME NEW log, LogOK(log), NEW c \in 0..Len(log)
  PROVE  /\ FreshOf(log, c) \in History(Len(log)) /\ FreshOf(log, c).head = c /\ Distinct(FreshOf(log, c))
         /\ Addresses(FreshOf(log, c)) = Adds(log, Anc(log, c))
         /\ \A p \in Path : FreshOf(log, c).touched[p] = 0 <=> ~Touches(log, Anc(log, c), p)
<1>0. Len(log) \in Nat /\ Anc(log, c) \in SUBSET (1..Len(log))
  <2>1. Len(log) \in Nat
    BY DEF LogOK
  <2>2. Anc(log, c) \subseteq 1..c
    BY AncIn
  <2> QED BY <2>1, <2>2
<1> DEFINE f == FoldOf(log, NoHistory, Anc(log, c))
<1>1. Adding(f, log, NoHistory, Anc(log, c), Len(log))
  BY <1>0, NothingTyped, FoldAdds
<1> HIDE DEF f
<1>2. f \in History(Len(log)) /\ Distinct(f) /\ Addresses(f) = Adds(log, Anc(log, c))
  BY <1>0, <1>1, NothingTyped DEF Adding
<1>3. \A p \in Path : f.touched[p] = 0 <=> ~Touches(log, Anc(log, c), p)
  <2>1. \A p \in Path : NoHistory.touched[p] = 0
    BY DEF NoHistory
  <2> QED BY <1>1, <2>1, Zenon DEF Adding
<1>4. FreshOf(log, c) = [f EXCEPT !.head = c]
  BY DEF FreshOf, Keyed, f
<1> DEFINE g == FreshOf(log, c)
<1> HIDE DEF g
<1>5. g = [head |-> c, entries |-> f.entries, touched |-> f.touched]
  BY <1>2, <1>4 DEF History, g
<1>6. g \in History(Len(log)) /\ g.head = c /\ g.entries = f.entries /\ g.touched = f.touched
  BY <1>2, <1>5 DEF History
<1>7. Distinct(g) /\ Addresses(g) = Adds(log, Anc(log, c))
  BY <1>2, <1>6 DEF Distinct, Addresses
<1>8. \A p \in Path : g.touched[p] = 0 <=> ~Touches(log, Anc(log, c), p)
  BY <1>3, <1>6, Zenon
<1> QED BY <1>6, <1>7, <1>8 DEF g

LEMMA NothingGood ==
  ASSUME NEW log, LogOK(log)
  PROVE  Good(log, NoHistory)
<1>0. Len(log) \in Nat
  BY DEF LogOK
<1>1. Anc(log, 0) = {}
  BY AncIs
<1>2. Adds(log, {}) = {} /\ \A p : ~Touches(log, {}, p)
  BY DEF Adds, Touches
<1>3. \A p \in Path : NoHistory.touched[p] = 0
  BY DEF NoHistory
<1>4. NoHistory = FreshOf(log, 0)
  <2>1. PICK f : IsFold(f, log, NoHistory, {}, Len(log)) /\ FoldOf(log, NoHistory, {}) = f[Len(log)]
    BY <1>0, FoldRun
  <2>2a. f[0] = NoHistory
    BY <1>0, <2>1, FoldStart, Zenon
  <2>2. Steps(f, log, {}, Len(log)) /\ Keeps(f, {}, Len(log))
    BY <1>0, <2>1, FoldSteps, Zenon
  <2> DEFINE Bad == {k \in 0..Len(log) : f[k] # NoHistory}
  <2>3. Bad = {}
    <3> SUFFICES ASSUME Bad # {} PROVE FALSE
      OBVIOUS
    <3>1. Bad \in SUBSET Nat
      BY <1>0
    <3>2. PICK k \in Bad : \A m \in Bad : k <= m
      BY <3>1, LeastNat
    <3>3. k \in 1..Len(log) /\ k - 1 \in 0..Len(log) /\ k - 1 < k
      BY <1>0, <2>2a, <3>2
    <3>4. f[k - 1] = NoHistory
      BY <3>2, <3>3
    <3>5. f[k] = f[k - 1]
      BY <2>2, <3>3 DEF Keeps
    <3> QED BY <3>2, <3>4, <3>5
  <2>4. FoldOf(log, NoHistory, {}) = NoHistory
    BY <1>0, <2>1, <2>3
  <2>5. Keyed(NoHistory, 0) = NoHistory
    BY DEF NoHistory, Unborn, Keyed
  <2> QED BY <1>1, <2>4, <2>5 DEF FreshOf
<1>5. NoHistory \in History(Len(log)) /\ Distinct(NoHistory) /\ Addresses(NoHistory) = {} /\ NoHistory.head = 0
  BY <1>0, NothingTyped
<1> QED BY <1>1, <1>2, <1>3, <1>4, <1>5, Zenon DEF Good

LEMMA GoodStable ==
  ASSUME NEW log, LogOK(log), NEW m, LogOK(Append(log, m)), NEW h, Good(log, h)
  PROVE  Good(Append(log, m), h)
<1> DEFINE log2 == Append(log, m)
           c == h.head
<1>0. Len(log) \in Nat /\ log \in Seq(Commit)
  BY DEF LogOK
<1>1. Len(log2) = Len(log) + 1 /\ \A k \in 1..Len(log) : log2[k] = log[k]
  BY <1>0
<1>2. c \in 0..Len(log) /\ Anc(log2, c) = Anc(log, c) /\ Anc(log, c) \in SUBSET (1..Len(log))
  <2>1. c \in 0..Len(log)
    BY DEF Good, History
  <2>2. Anc(log, c) \subseteq 1..c
    BY <2>1, AncIn
  <2> QED BY <1>0, <2>1, <2>2, AncStable
<1> HIDE DEF log2, c
<1>3. h \in History(Len(log2)) /\ Distinct(h)
  <2>1. h \in History(Len(log)) /\ Distinct(h)
    BY Zenon DEF Good
  <2>2. Path \X (1..Len(log)) \subseteq Path \X (1..Len(log2))
    BY <1>0, <1>1
  <2>3. h.entries \in Seq(Path \X (1..Len(log2)))
    BY <2>1, <2>2 DEF History
  <2>4. h.touched \in [Path -> 0..Len(log2)] /\ h.head \in 0..Len(log2)
    BY <1>0, <1>1, <2>1 DEF History
  <2> QED BY <2>1, <2>3, <2>4 DEF History
<1>4. Adds(log2, Anc(log2, c)) = Adds(log, Anc(log, c))
  BY <1>1, <1>2 DEF Adds
<1>5. \A p : Touches(log2, Anc(log2, c), p) <=> Touches(log, Anc(log, c), p)
  BY <1>1, <1>2 DEF Touches
<1>6. Linear(log2, c) => Linear(log, c)
  BY <1>1, <1>2 DEF Linear
<1>7. FreshOf(log2, c) = FreshOf(log, c)
  <2>1. Len(log2) \in Nat /\ Len(log) <= Len(log2)
    BY <1>0, <1>1
  <2>2. FoldOf(log2, NoHistory, Anc(log, c)) = FoldOf(log, NoHistory, Anc(log, c))
    BY <1>0, <1>1, <1>2, <2>1, FoldStable
  <2> QED BY <1>2, <2>2 DEF FreshOf
<1>8. Good(log2, h)
  <2>1. Addresses(h) = Adds(log2, Anc(log2, h.head))
    BY <1>4 DEF Good, c
  <2>2. \A p \in Path : h.touched[p] = 0 <=> ~Touches(log2, Anc(log2, h.head), p)
    BY <1>5, Zenon DEF Good, c
  <2>3. Linear(log2, h.head) => h = FreshOf(log2, h.head)
    BY <1>6, <1>7, Zenon DEF Good, c
  <2> QED BY <1>3, <2>1, <2>2, <2>3, Zenon DEF Good
<1> QED BY <1>8 DEF log2

LEMMA KeyedIs ==
  ASSUME NEW n, NEW h \in History(n), NEW x
  PROVE  /\ Keyed(h, x).head = x /\ Keyed(h, x).entries = h.entries /\ Keyed(h, x).touched = h.touched
         /\ x \in 0..n => Keyed(h, x) \in History(n)
         /\ \A y : Keyed(Keyed(h, y), x) = Keyed(h, x)
<1>1. h.head \in 0..n /\ h = [head |-> h.head, entries |-> h.entries, touched |-> h.touched]
  BY DEF History
<1>2. \A y : Keyed(h, y) = [head |-> y, entries |-> h.entries, touched |-> h.touched]
  BY <1>1 DEF Keyed
<1>3. \A y : Keyed(Keyed(h, y), x) = [head |-> x, entries |-> h.entries, touched |-> h.touched]
  BY <1>2 DEF Keyed
<1>4. x \in 0..n => Keyed(h, x) \in History(n)
  BY <1>2 DEF History
<1> QED BY <1>2, <1>3, <1>4

\* A walk from an ancestor's history, or from none, is a history of the commit.
LEMMA WalkGood ==
  ASSUME NEW log, LogOK(log), NEW h, Good(log, h), NEW a \in 0..Len(log),
         h.head = 0 \/ h.head \in Anc(log, a)
  PROVE  Good(log, Keyed(FoldOf(log, h, Anc(log, a) \ Anc(log, h.head)), a))
<1> DEFINE b == h.head
           T == Anc(log, a) \ Anc(log, b)
           f == FoldOf(log, h, T)
           g == Keyed(f, a)
<1>0. Len(log) \in Nat /\ b \in 0..Len(log) /\ h \in History(Len(log)) /\ Distinct(h)
  BY DEF LogOK, Good, History
<1>1. Anc(log, a) \subseteq 1..a /\ Anc(log, b) \subseteq 1..b
  BY <1>0, AncIn
<1>2. Anc(log, b) \subseteq Anc(log, a)
  BY AncIs, AncTrans
<1>3. T \in SUBSET (1..Len(log)) /\ Anc(log, b) \cup T = Anc(log, a)
  BY <1>0, <1>1, <1>2
<1> HIDE DEF T
<1>4. Adding(f, log, h, T, Len(log))
  BY <1>0, <1>3, FoldAdds
<1> HIDE DEF f
<1>5. f \in History(Len(log)) /\ Distinct(f) /\ Addresses(f) = Adds(log, Anc(log, a))
  <2>1. Adds(log, Anc(log, a)) = Adds(log, Anc(log, b)) \cup Adds(log, T)
    BY <1>3 DEF Adds
  <2>2. Addresses(h) = Adds(log, Anc(log, b))
    BY DEF Good
  <2>3. f \in History(Len(log)) /\ Distinct(f) /\ Addresses(f) = Addresses(h) \cup Adds(log, T)
    BY <1>4, Zenon DEF Adding
  <2> QED BY <2>1, <2>2, <2>3
<1>6. \A p \in Path : f.touched[p] = 0 <=> ~Touches(log, Anc(log, a), p)
  <2>1. \A p : Touches(log, Anc(log, a), p) <=> Touches(log, Anc(log, b), p) \/ Touches(log, T, p)
    BY <1>3 DEF Touches
  <2>2. \A p \in Path : h.touched[p] = 0 <=> ~Touches(log, Anc(log, b), p)
    BY Zenon DEF Good
  <2>3. \A p \in Path : f.touched[p] = 0 <=> h.touched[p] = 0 /\ ~Touches(log, T, p)
    BY <1>4, Zenon DEF Adding
  <2> QED BY <2>1, <2>2, <2>3, Zenon
<1>7. g \in History(Len(log)) /\ g.head = a /\ g.entries = f.entries /\ g.touched = f.touched
  BY <1>5, KeyedIs
<1>8. Linear(log, a) => g = FreshOf(log, a)
  <2> SUFFICES ASSUME Linear(log, a) PROVE g = FreshOf(log, a)
    OBVIOUS
  <2> DEFINE first == FoldOf(log, NoHistory, Anc(log, b))
             whole == FoldOf(log, NoHistory, Anc(log, a))
  <2>1. Linear(log, b)
    BY <1>2 DEF Linear
  <2>2. h = Keyed(first, b)
    BY <2>1 DEF Good, FreshOf
  <2>3. T \in SUBSET ((b + 1)..Len(log))
    <3> SUFFICES ASSUME NEW k \in T PROVE k \in (b + 1)..Len(log)
      OBVIOUS
    <3>1. k \in 1..Len(log) /\ k \in Anc(log, a) /\ k \notin Anc(log, b)
      BY <1>3 DEF T
    <3>2. CASE b = 0
      BY <3>1, <3>2
    <3>3. CASE b # 0
      <4>1. b \in Anc(log, a)
        BY <3>3
      <4>2. ~(k <= b)
        BY <3>1, <4>1, AncChain DEF Linear
      <4> QED BY <1>0, <3>1, <4>2
    <3> QED BY <3>2, <3>3
  <2>4. NoHistory \in History(Len(log)) /\ Distinct(NoHistory)
    BY <1>0, NothingTyped
  <2>5. Anc(log, b) \in SUBSET (1..b)
    BY <1>1
  <2>6. FoldOf(log, Keyed(first, b), T) = Keyed(whole, b)
    <3> HIDE DEF b
    <3>1. FoldOf(log, Keyed(first, b), T) = Keyed(FoldOf(log, NoHistory, Anc(log, b) \cup T), b)
      BY <1>0, <2>3, <2>4, <2>5, FoldJoin
    <3> QED BY <1>3, <3>1
  <2>7. whole \in History(Len(log))
    <3>1. Anc(log, a) \in SUBSET (1..Len(log))
      BY <1>0, <1>1
    <3>2. Adding(whole, log, NoHistory, Anc(log, a), Len(log))
      BY <2>4, <3>1, FoldAdds
    <3> QED BY <3>2, Zenon DEF Adding
  <2> HIDE DEF first, whole
  <2>8. f = Keyed(whole, b)
    BY <2>2, <2>6 DEF f
  <2>9. Keyed(Keyed(whole, b), a) = Keyed(whole, a)
    BY <2>7, KeyedIs
  <2> QED BY <2>8, <2>9 DEF FreshOf, whole
<1> HIDE DEF g
<1>9. Good(log, g)
  <2>1. Distinct(g) /\ Addresses(g) = Adds(log, Anc(log, g.head))
    BY <1>5, <1>7 DEF Distinct, Addresses
  <2>2. \A p \in Path : g.touched[p] = 0 <=> ~Touches(log, Anc(log, g.head), p)
    BY <1>6, <1>7, Zenon
  <2>3. Linear(log, g.head) => g = FreshOf(log, g.head)
    BY <1>7, <1>8
  <2> QED BY <1>7, <2>1, <2>2, <2>3, Zenon DEF Good
<1> QED BY <1>9 DEF g, f, T

\* A distinct list has as many entries as paths.
LEMMA EntriesCount ==
  ASSUME NEW n, NEW h \in History(n), Distinct(h)
  PROVE  Len(h.entries) = Cardinality(Addresses(h))
<1> DEFINE e == h.entries
           S == Addresses(h)
           f == [k \in 1..Len(e) |-> e[k][1]]
<1>1. e \in Seq(Path \X (1..n)) /\ Len(e) \in Nat /\ DOMAIN e = 1..Len(e)
  BY DEF History
<1>2. f \in [1..Len(e) -> S]
  BY <1>1 DEF Addresses
<1>3. \A j, k \in 1..Len(e) : f[j] = f[k] => j = k
  BY <1>1 DEF Distinct
<1>4. \A p \in S : \E k \in 1..Len(e) : f[k] = p
  BY <1>1 DEF Addresses
<1> HIDE DEF e, S, f
<1>5. f \in Bijection(1..Len(e), S)
  BY <1>2, <1>3, <1>4 DEF Bijection, Injection, Surjection, IsInjective
<1>6. Cardinality(S) = Len(e)
  BY <1>1, <1>5, FS_CountingElements DEF ExistsBijection
<1> QED BY <1>6 DEF e, S

-----------------------------------------------------------------------------
Labels == {"idle", "load_cached", "load_stale", "extend", "read", "walk", "save", "done"}

Types ==
  /\ LogOK(commits) /\ head \in 0..Len(commits)
  /\ pc \in [Process -> Labels]
  /\ asked \in [Process -> 0..Len(commits)]
  /\ hist \in [Process -> History(Len(commits))]

\* A walk extends a history of an ancestor of the HEAD it was pinned to.
Walks(i) == pc[i] = "walk" => hist[i].head = 0 \/ hist[i].head \in Anc(commits, asked[i])

GrowthInv ==
  /\ Types
  /\ cache = NoCache \/ Good(commits, cache)
  /\ \A i \in Process : Good(commits, hist[i]) /\ Walks(i)

LEMMA InitInv == Init => GrowthInv
<1> SUFFICES ASSUME Init PROVE GrowthInv
  OBVIOUS
<1>1. commits = <<>> /\ Len(commits) = 0 /\ LogOK(commits)
  BY DEF Init, LogOK
<1>2. NoHistory \in History(0)
  BY NothingTyped
<1>3. Types
  BY <1>1, <1>2 DEF Init, Types, Labels, Unborn
<1>4. Good(commits, NoHistory)
  BY <1>1, NothingGood
<1>5. \A i \in Process : hist[i] = NoHistory /\ pc[i] = "idle"
  BY DEF Init
<1> QED BY <1>3, <1>4, <1>5 DEF Init, GrowthInv, Walks

\* A commit more leaves the histories as they were.
LEMMA MadeInv ==
  ASSUME GrowthInv, NEW parents \in SUBSET (1..Len(commits)), NEW status \in {"A", "M", "D", "merge"},
         NEW path \in Path \cup {"none"}, NEW tree \in SUBSET Path,
         status # "merge" => path \in Path /\ \A x, y \in parents : x = y,
         Made(parents, status, path, tree)
  PROVE  GrowthInv'
<1> DEFINE m == [parents |-> parents, status |-> status, path |-> path, tree |-> tree]
<1>1. LogOK(commits) /\ Len(commits) \in Nat /\ commits \in Seq(Commit)
  BY DEF GrowthInv, Types, LogOK
<1>2. commits' = Append(commits, m) /\ head' = Len(commits) + 1 /\ UNCHANGED <<cache, pc, asked, hist>>
  BY DEF Made
<1>3. m \in Commit
  BY <1>1 DEF Commit
<1>4. m.parents = parents /\ m.status = status /\ m.path = path
  OBVIOUS
<1> HIDE DEF m
<1> DEFINE log == Append(commits, m)
<1>5. log \in Seq(Commit) /\ Len(log) = Len(commits) + 1 /\ log[Len(commits) + 1] = m
      /\ \A k \in 1..Len(commits) : log[k] = commits[k]
  BY <1>1, <1>3
<1> HIDE DEF log
<1>6. LogOK(log)
  <2>1. ASSUME NEW c \in 1..Len(log)
        PROVE  /\ log[c].parents \subseteq 1..(c - 1)
               /\ log[c].status # "merge" => /\ log[c].path \in Path
                                             /\ \A x, y \in log[c].parents : x = y
    <3>1. CASE c = Len(commits) + 1
      <4>1. log[c] = m
        BY <1>5, <3>1
      <4>2. log[c].parents \subseteq 1..(c - 1)
        <5>1. c - 1 = Len(commits)
          BY <1>1, <3>1
        <5> QED BY <1>4, <4>1, <5>1
      <4> QED BY <1>4, <4>1, <4>2
    <3>2. CASE c \in 1..Len(commits)
      <4>1. log[c] = commits[c]
        BY <1>5, <3>2
      <4>2. /\ commits[c].parents \subseteq 1..(c - 1)
            /\ commits[c].status # "merge" => /\ commits[c].path \in Path
                                              /\ \A x, y \in commits[c].parents : x = y
        BY <1>1, <3>2 DEF LogOK
      <4> QED BY <4>1, <4>2
    <3> QED BY <1>1, <1>5, <3>1, <3>2
  <2> QED BY <1>5, <2>1 DEF LogOK
<1>7. commits' = log /\ LogOK(Append(commits, m))
  BY <1>2, <1>6 DEF log
<1>8. \A h : Good(commits, h) => Good(log, h)
  BY <1>1, <1>7, GoodStable DEF log
<1>9. \A c \in 0..Len(commits) : Anc(log, c) = Anc(commits, c)
  BY <1>1, <1>7, AncStable DEF log
<1>10. Types'
  <2>1. ASSUME NEW i \in Process PROVE hist[i] \in History(Len(log))
    BY <1>8 DEF GrowthInv, Good
  <2>2. hist' \in [Process -> History(Len(log))]
    BY <1>2, <2>1 DEF GrowthInv, Types
  <2>3. asked' \in [Process -> 0..Len(log)] /\ head' \in 0..Len(log) /\ pc' \in [Process -> Labels]
    BY <1>1, <1>2, <1>5 DEF GrowthInv, Types
  <2> QED BY <1>6, <1>7, <2>2, <2>3 DEF Types
<1>11. cache' = NoCache \/ Good(commits', cache')
  BY <1>2, <1>7, <1>8 DEF GrowthInv
<1>12. ASSUME NEW i \in Process PROVE (Good(commits, hist[i]) /\ Walks(i))'
  <2>1. Good(commits', hist'[i])
    BY <1>2, <1>7, <1>8 DEF GrowthInv
  <2>2. Walks(i)'
    <3>1. asked[i] \in 0..Len(commits) /\ Walks(i)
      BY DEF GrowthInv, Types
    <3>2. Anc(commits', asked[i]) = Anc(commits, asked[i])
      BY <1>7, <1>9, <3>1
    <3> QED BY <1>2, <3>1, <3>2 DEF Walks
  <2> QED BY <2>1, <2>2
<1> QED BY <1>10, <1>11, <1>12 DEF GrowthInv

\* A step of one process that leaves the repository and the cache alone.
LEMMA ProcessInv ==
  ASSUME GrowthInv, NEW i \in Process, NEW l \in Labels, NEW a \in 0..Len(commits), NEW h,
         pc' = [pc EXCEPT ![i] = l], asked' = [asked EXCEPT ![i] = a], hist' = [hist EXCEPT ![i] = h],
         Good(commits, h), l = "walk" => h.head = 0 \/ h.head \in Anc(commits, a),
         UNCHANGED <<world, cache>>
  PROVE  GrowthInv'
<1>1. h \in History(Len(commits)) /\ UNCHANGED <<commits, head, cache>>
  BY DEF Good, world
<1>2. Types'
  BY <1>1 DEF GrowthInv, Types
<1>3. ASSUME NEW j \in Process PROVE (Good(commits, hist[j]) /\ Walks(j))'
  <2>1. CASE j = i
    <3>1. pc'[j] = l /\ asked'[j] = a /\ hist'[j] = h
      BY <2>1 DEF GrowthInv, Types
    <3> QED BY <1>1, <3>1 DEF Walks
  <2>2. CASE j # i
    <3>1. pc'[j] = pc[j] /\ asked'[j] = asked[j] /\ hist'[j] = hist[j]
      BY <2>2 DEF GrowthInv, Types
    <3> QED BY <1>1, <3>1 DEF GrowthInv, Walks
  <2> QED BY <2>1, <2>2
<1> QED BY <1>1, <1>2, <1>3 DEF GrowthInv

LEMMA TreeIn ==
  ASSUME LogOK(commits), NEW c \in 0..Len(commits)
  PROVE  Tree(c) \in SUBSET Path
<1>1. CASE c = 0
  BY <1>1 DEF Tree, Unborn
<1>2. CASE c # 0
  <2>1. commits[c] \in Commit
    BY <1>2 DEF LogOK
  <2> QED BY <1>2, <2>1 DEF Tree, Unborn, Commit
<1> QED BY <1>1, <1>2

\* The repository moves.
LEMMA WorldInv ==
  ASSUME GrowthInv,
         \/ \E p \in Path : Add(p) \/ Modify(p) \/ Delete(p)
         \/ \E c \in Commits : Merge(c)
         \/ \E c \in Commits \cup {Unborn} : Checkout(c)
  PROVE  GrowthInv'
<1>1. LogOK(commits) /\ Len(commits) \in Nat /\ head \in 0..Len(commits)
  BY DEF GrowthInv, Types, LogOK
<1>2. Parents \in SUBSET (1..Len(commits)) /\ \A x, y \in Parents : x = y
  BY <1>1 DEF Parents, Unborn
<1>3. Tree(head) \in SUBSET Path
  BY <1>1, TreeIn
<1>4. ASSUME NEW p \in Path, Add(p) PROVE GrowthInv'
  <2>1. Made(Parents, "A", p, Tree(head) \cup {p}) /\ Tree(head) \cup {p} \in SUBSET Path
    BY <1>3, <1>4 DEF Add
  <2> QED BY <1>2, <2>1, MadeInv
<1>5. ASSUME NEW p \in Path, Modify(p) PROVE GrowthInv'
  <2>1. Made(Parents, "M", p, Tree(head))
    BY <1>5 DEF Modify
  <2> QED BY <1>2, <1>3, <2>1, MadeInv
<1>6. ASSUME NEW p \in Path, Delete(p) PROVE GrowthInv'
  <2>1. Made(Parents, "D", p, Tree(head) \ {p}) /\ Tree(head) \ {p} \in SUBSET Path
    BY <1>3, <1>6 DEF Delete
  <2> QED BY <1>2, <2>1, MadeInv
<1>7. ASSUME NEW c \in Commits, Merge(c) PROVE GrowthInv'
  <2>1. c \in 0..Len(commits) /\ {head, c} \in SUBSET (1..Len(commits))
    BY <1>1, <1>7 DEF Commits, Merge, Unborn
  <2>2. Made({head, c}, "merge", "none", Tree(head) \cup Tree(c))
    BY <1>7 DEF Merge
  <2>3. Tree(head) \cup Tree(c) \in SUBSET Path
    BY <1>1, <1>3, <2>1, TreeIn
  <2> QED BY <2>1, <2>2, <2>3, MadeInv
<1>8. ASSUME NEW c \in Commits \cup {Unborn}, Checkout(c) PROVE GrowthInv'
  <2>1. head' \in 0..Len(commits) /\ UNCHANGED <<commits, cache, pc, asked, hist>>
    BY <1>1, <1>8 DEF Checkout, Commits, Unborn
  <2>2. Types'
    BY <2>1 DEF GrowthInv, Types
  <2>3. \A i \in Process : (Good(commits, hist[i]) /\ Walks(i))'
    BY <2>1 DEF GrowthInv, Walks
  <2> QED BY <2>1, <2>2, <2>3 DEF GrowthInv
<1> QED BY <1>4, <1>5, <1>6, <1>7, <1>8

\* One process reads, extends, walks, saves, ends.
LEMMA ReadInv ==
  ASSUME GrowthInv, NEW i \in Process, ReadCached(i) \/ End(i)
  PROVE  GrowthInv'
<1>1. LogOK(commits) /\ head \in 0..Len(commits) /\ 0 \in 0..Len(commits) /\ Len(commits) \in Nat
  BY DEF GrowthInv, Types, LogOK
<1>2. /\ pc \in [Process -> Labels] /\ asked \in [Process -> 0..Len(commits)]
      /\ hist \in [Process -> History(Len(commits))]
  BY DEF GrowthInv, Types
<1>3. /\ asked[i] \in 0..Len(commits) /\ Good(commits, hist[i]) /\ Walks(i) /\ Good(commits, NoHistory)
      /\ cache = NoCache \/ Good(commits, cache)
  BY <1>1, <1>2, NothingGood DEF GrowthInv
<1>4. hist = [hist EXCEPT ![i] = hist[i]] /\ asked = [asked EXCEPT ![i] = asked[i]]
  BY <1>2
<1>5. NoHistory.head = 0
  BY NothingTyped
<1>6. CASE Launch(i)
  <2>1. /\ pc' = [pc EXCEPT ![i] = "load_cached"] /\ asked' = [asked EXCEPT ![i] = head]
        /\ hist' = [hist EXCEPT ![i] = hist[i]] /\ UNCHANGED <<world, cache>>
    BY <1>4, <1>6 DEF Launch, Goto
  <2> QED BY <1>1, <1>3, <2>1, ProcessInv DEF Labels
<1>7. CASE LoadCached(i)
  <2>1. CASE cache # NoCache /\ cache.head = asked[i]
    <3>1. /\ pc' = [pc EXCEPT ![i] = "done"] /\ asked' = [asked EXCEPT ![i] = asked[i]]
          /\ hist' = [hist EXCEPT ![i] = cache] /\ UNCHANGED <<world, cache>>
      BY <1>4, <1>7, <2>1 DEF LoadCached, Goto
    <3> QED BY <1>3, <2>1, <3>1, ProcessInv DEF Labels
  <2>2. CASE ~(cache # NoCache /\ cache.head = asked[i])
    <3>1. /\ pc' = [pc EXCEPT ![i] = "load_stale"] /\ asked' = [asked EXCEPT ![i] = asked[i]]
          /\ hist' = [hist EXCEPT ![i] = hist[i]] /\ UNCHANGED <<world, cache>>
      BY <1>4, <1>7, <2>2 DEF LoadCached, Goto
    <3> QED BY <1>3, <3>1, ProcessInv DEF Labels
  <2> QED BY <2>1, <2>2
<1>8. CASE LoadStale(i)
  <2>1. CASE cache # NoCache
    <3>1. /\ pc' = [pc EXCEPT ![i] = "extend"] /\ asked' = [asked EXCEPT ![i] = 0]
          /\ hist' = [hist EXCEPT ![i] = cache] /\ UNCHANGED <<world, cache>>
      BY <1>8, <2>1 DEF LoadStale, Goto, Unborn
    <3> QED BY <1>1, <1>3, <2>1, <3>1, ProcessInv DEF Labels
  <2>2. CASE cache = NoCache
    <3>1. /\ pc' = [pc EXCEPT ![i] = "read"] /\ asked' = [asked EXCEPT ![i] = 0]
          /\ hist' = [hist EXCEPT ![i] = hist[i]] /\ UNCHANGED <<world, cache>>
      BY <1>4, <1>8, <2>2 DEF LoadStale, Goto, Unborn
    <3> QED BY <1>1, <1>3, <3>1, ProcessInv DEF Labels
  <2> QED BY <2>1, <2>2
<1>9. CASE Extend(i)
  <2>1. asked' = [asked EXCEPT ![i] = head] /\ UNCHANGED <<world, cache>>
    BY <1>9 DEF Extend
  <2>2. CASE head = hist[i].head /\ Goto(i, "save") /\ UNCHANGED hist
    <3>1. pc' = [pc EXCEPT ![i] = "save"] /\ hist' = [hist EXCEPT ![i] = hist[i]]
      BY <1>4, <2>2 DEF Goto
    <3> QED BY <1>1, <1>3, <2>1, <3>1, ProcessInv DEF Labels
  <2>3. CASE hist' = [hist EXCEPT ![i] = NoHistory] /\ Goto(i, "save")
    <3>1. pc' = [pc EXCEPT ![i] = "save"] /\ hist' = [hist EXCEPT ![i] = NoHistory]
      BY <2>3 DEF Goto
    <3> QED BY <1>1, <1>3, <2>1, <3>1, ProcessInv DEF Labels
  <2>4. CASE IsAncestor(hist[i].head, head) /\ Goto(i, "walk") /\ UNCHANGED hist
    <3>1. pc' = [pc EXCEPT ![i] = "walk"] /\ hist' = [hist EXCEPT ![i] = hist[i]]
      BY <1>4, <2>4 DEF Goto
    <3>2. hist[i].head \in Anc(commits, head)
      BY <2>4, AncestorsAre DEF IsAncestor
    <3> QED BY <1>1, <1>3, <2>1, <3>1, <3>2, ProcessInv DEF Labels
  <2>5. CASE Goto(i, "read") /\ UNCHANGED hist
    <3>1. pc' = [pc EXCEPT ![i] = "read"] /\ hist' = [hist EXCEPT ![i] = hist[i]]
      BY <1>4, <2>5 DEF Goto
    <3> QED BY <1>1, <1>3, <2>1, <3>1, ProcessInv DEF Labels
  <2> QED BY <1>9, <2>2, <2>3, <2>4, <2>5 DEF Extend
<1>10. CASE ReadHead(i)
  <2> DEFINE l == IF head = Unborn THEN "save" ELSE "walk"
  <2>1. /\ pc' = [pc EXCEPT ![i] = l] /\ asked' = [asked EXCEPT ![i] = head]
        /\ hist' = [hist EXCEPT ![i] = NoHistory] /\ UNCHANGED <<world, cache>> /\ l \in Labels
    BY <1>10 DEF ReadHead, Goto, Labels
  <2> HIDE DEF l
  <2> QED BY <1>1, <1>3, <1>5, <2>1, ProcessInv
<1>11. CASE Walk(i)
  <2> DEFINE h == Keyed(FoldOf(commits, hist[i], Anc(commits, asked[i]) \ Anc(commits, hist[i].head)), asked[i])
  <2>1. hist' = [hist EXCEPT ![i] = h]
    <3>1. Between(hist[i].head, asked[i]) = Anc(commits, asked[i]) \ Anc(commits, hist[i].head)
      BY AncestorsAre, Zenon DEF Between
    <3>2. [Fold(hist[i], Between(hist[i].head, asked[i])) EXCEPT !.head = PinnedHead(i)] = h
      BY <3>1, FoldAre DEF Keyed, PinnedHead
    <3>3. hist' = [hist EXCEPT ![i] = [Fold(hist[i], Between(hist[i].head, asked[i])) EXCEPT !.head = PinnedHead(i)]]
      BY <1>11 DEF Walk
    <3> HIDE DEF h
    <3> QED BY <3>2, <3>3
  <2>2. /\ pc' = [pc EXCEPT ![i] = "save"] /\ asked' = [asked EXCEPT ![i] = 0]
        /\ UNCHANGED <<world, cache>> /\ pc[i] = "walk"
    BY <1>11 DEF Walk, Goto, Unborn
  <2>3. Good(commits, h)
    BY <1>1, <1>3, <2>2, WalkGood DEF Walks
  <2> HIDE DEF h
  <2> QED BY <1>1, <2>1, <2>2, <2>3, ProcessInv DEF Labels
<1>12. CASE Save(i)
  <2>1. /\ cache' \in {cache, hist[i]} /\ pc' = [pc EXCEPT ![i] = "done"]
        /\ UNCHANGED <<commits, head, asked, hist>>
    BY <1>12 DEF Save, Goto, world
  <2>2. cache' = NoCache \/ Good(commits', cache')
    BY <1>3, <2>1
  <2>3. Types'
    BY <2>1 DEF GrowthInv, Types, Labels
  <2>4. ASSUME NEW j \in Process PROVE (Good(commits, hist[j]) /\ Walks(j))'
    <3>1. pc'[j] = "walk" => pc[j] = "walk"
      BY <1>2, <2>1
    <3> QED BY <2>1, <3>1 DEF GrowthInv, Walks
  <2> QED BY <2>2, <2>3, <2>4 DEF GrowthInv
<1>13. CASE End(i)
  <2>1. /\ pc' = [pc EXCEPT ![i] = "idle"] /\ asked' = [asked EXCEPT ![i] = 0]
        /\ hist' = [hist EXCEPT ![i] = NoHistory] /\ UNCHANGED <<world, cache>>
    BY <1>13 DEF End, Goto, Unborn
  <2> QED BY <1>1, <1>3, <2>1, ProcessInv DEF Labels
<1> QED BY <1>6, <1>7, <1>8, <1>9, <1>10, <1>11, <1>12, <1>13 DEF ReadCached

LEMMA StutterInv == GrowthInv /\ UNCHANGED vars => GrowthInv'
BY DEF GrowthInv, Types, Walks, vars

LEMMA NextInv == GrowthInv /\ [Next]_vars => GrowthInv'
<1> SUFFICES ASSUME GrowthInv, [Next]_vars PROVE GrowthInv'
  OBVIOUS
<1>1. CASE Spoil
  <2>1. cache' = NoCache /\ UNCHANGED <<commits, head, pc, asked, hist>>
    BY <1>1 DEF Spoil, world
  <2> QED BY <2>1 DEF GrowthInv, Types, Walks
<1> QED BY <1>1, WorldInv, ReadInv, StutterInv DEF Next

LEMMA Invariant == Spec => []GrowthInv
BY InitInv, NextInv, PTL DEF Spec

-----------------------------------------------------------------------------
\* Every history held or on disk is one of the repository's commits.
THEOREM TypeCorrect == Spec => []TypeOK
<1>1. GrowthInv => TypeOK
  BY DEF GrowthInv, Types, TypeOK, Good, History, Labels, Commits
<1> QED BY <1>1, Invariant, PTL

LEMMA FreshIs == \A c : FreshHistory(c) = FreshOf(commits, c)
BY AncestorsAre, FoldAre, Zenon DEF FreshHistory, FreshOf, Keyed

LEMMA DerivedGood ==
  ASSUME GrowthInv
  PROVE  \A h \in Derived : Good(commits, h)
BY DEF Derived, GrowthInv

\* A history covers exactly the commits of the HEAD it is keyed on, however the
\* reads of HEAD, the walks and the cache interleave with commits, merges, rewinds,
\* crashes and other instances.
THEOREM CoversHead == Spec => []CoversItsHead
<1>1. GrowthInv => CoversItsHead
  <2> SUFFICES ASSUME GrowthInv, NEW h \in Derived
               PROVE  /\ Addresses(h) = Addresses(FreshHistory(h.head))
                      /\ Len(h.entries) = Cardinality(Addresses(h))
                      /\ \A p \in Path : (h.touched[p] = 0) = (FreshHistory(h.head).touched[p] = 0)
    BY DEF CoversItsHead
  <2>1. Good(commits, h) /\ LogOK(commits)
    BY DerivedGood DEF GrowthInv, Types
  <2>2. h.head \in 0..Len(commits) /\ h \in History(Len(commits)) /\ Distinct(h)
    BY <2>1 DEF Good, History
  <2>3. FreshHistory(h.head) = FreshOf(commits, h.head)
    BY FreshIs
  <2>4. Addresses(h) = Addresses(FreshHistory(h.head))
    BY <2>1, <2>2, <2>3, FreshCovers DEF Good
  <2>5. ASSUME NEW p \in Path PROVE (h.touched[p] = 0) = (FreshHistory(h.head).touched[p] = 0)
    <3>1. h.touched[p] = 0 <=> ~Touches(commits, Anc(commits, h.head), p)
      BY <2>1, Zenon DEF Good
    <3>2. FreshOf(commits, h.head).touched[p] = 0 <=> ~Touches(commits, Anc(commits, h.head), p)
      BY <2>1, <2>2, FreshCovers, Zenon
    <3> QED BY <2>3, <3>1, <3>2, Zenon
  <2> QED BY <2>2, <2>4, <2>5, EntriesCount
<1> QED BY <1>1, Invariant, PTL

\* Where no branches were merged, an incrementally kept history is the one a fresh
\* launch would read, entry for entry and time for time.
THEOREM LinearFresh == Spec => []LinearIsFresh
<1>1. GrowthInv => LinearIsFresh
  <2> SUFFICES ASSUME GrowthInv, NEW h \in Derived, \A c \in Ancestors(h.head) : commits[c].status # "merge"
               PROVE  h = FreshHistory(h.head)
    BY DEF LinearIsFresh
  <2>1. Linear(commits, h.head)
    BY AncestorsAre DEF Linear
  <2> QED BY <2>1, DerivedGood, FreshIs DEF Good
<1> QED BY <1>1, Invariant, PTL
=============================================================================
