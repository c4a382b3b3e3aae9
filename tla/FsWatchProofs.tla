---------------------------- MODULE FsWatchProofs ----------------------------
(***************************************************************************)
(* The consumer of the watcher's events ends with the files that exist,    *)
(* but for those the debouncer had to guess about.                         *)
(*                                                                         *)
(* The argument follows the notifications in the queue as a story of the   *)
(* tree: it begins with files that the debouncer would show if it were     *)
(* emptied (with, at most, guesses), each notification tells one legal     *)
(* change, and it ends with the files on disk, but for those whose rename  *)
(* is half reported.  Folding a notification moves the beginning one       *)
(* change along, and emitting what has been quiet for the window does not  *)
(* move it.                                                                *)
(***************************************************************************)
EXTENDS FsWatch, TLAPS

Kind == Change \cup {"RenamedFrom", "RenamedTo", "OnlyFrom", "OnlyTo"}

Messages ==
  [kind : Kind, path : Path, tracker : Tracker \cup {None}]
    \cup [kind : {"RenamedBoth"}, from : Path, to : Path]
    \cup {[kind |-> "Lost"]}

Seconds == [from : Path, path : Path, tracker : Tracker]

Typed(s) ==
  /\ s = [pending |-> s.pending, renames |-> s.renames, shown |-> s.shown]
  /\ s.pending = [p \in DOMAIN s.pending |-> s.pending[p]] /\ DOMAIN s.pending \subseteq Path
  /\ \A p \in DOMAIN s.pending : s.pending[p] \in [change : Change, age : 0..Window]
  /\ s.renames = [id \in DOMAIN s.renames |-> s.renames[id]] /\ DOMAIN s.renames \subseteq Tracker
  /\ \A id \in DOMAIN s.renames : s.renames[id] \in [from : Path, age : 0..Window]
  /\ s.shown \subseteq Path

\* The files a debouncer would show if it emitted all it holds.
LeftBehind(s) == {s.renames[id].from : id \in DOMAIN s.renames}
View(s) ==
  ((s.shown \ DOMAIN s.pending) \cup {p \in DOMAIN s.pending : Present(s.pending[p].change)})
    \ LeftBehind(s)

\* But for the guesses, a change held as a creation is of a file that is not shown,
\* and a change is no younger than the half rename that left its path: it is
\* emitted before or with it.
Ready(s, G) ==
  /\ \A p \in DOMAIN s.pending : s.pending[p].change = "Created" => p \notin s.shown \/ p \in G
  /\ \A id \in DOMAIN s.renames :
       s.renames[id].from \in DOMAIN s.pending
         => s.renames[id].age <= s.pending[s.renames[id].from].age \/ s.renames[id].from \in G

\* What is shown grows, and only by guesses.
Near(V, W, G) == W \subseteq V /\ V \subseteq W \cup G

-----------------------------------------------------------------------------
\* What the operations of the debouncer do to what it would show.

LEMMA Seen ==
  ASSUME NEW s, NEW p
  PROVE  p \in View(s) <=> /\ IF p \in DOMAIN s.pending THEN Present(s.pending[p].change) ELSE p \in s.shown
                           /\ \A id \in DOMAIN s.renames : s.renames[id].from # p
BY DEF View, LeftBehind

\* What a change comes to with the one already held for its path.
Net(s, p, incoming) == IF p \in DOMAIN s.pending THEN Coalesce(s.pending[p].change, incoming) ELSE incoming

LEMMA MergeIs ==
  ASSUME NEW s, Typed(s), NEW p \in Path, NEW incoming \in Change
  PROVE  LET r == Merge(s, p, incoming)
             change == Net(s, p, incoming)
         IN  /\ Typed(r)
             /\ r.renames = s.renames /\ r.shown = s.shown
             /\ DOMAIN r.pending = IF change = None THEN DOMAIN s.pending \ {p} ELSE DOMAIN s.pending \cup {p}
             /\ \A x \in DOMAIN s.pending : x # p => r.pending[x] = s.pending[x]
             /\ change # None => r.pending[p] = [change |-> change, age |-> 0]
<1> DEFINE r == Merge(s, p, incoming)
           change == Net(s, p, incoming)
           kept == [x \in DOMAIN s.pending \ {p} |-> s.pending[x]]
           held == IF change = None THEN kept
                   ELSE [x \in DOMAIN kept \cup {p} |-> IF x = p THEN [change |-> change, age |-> 0] ELSE kept[x]]
<1>1. change \in Change \cup {None}
  BY DEF Typed, Coalesce, Change, Net
<1>2. r = [s EXCEPT !.pending = held]
  BY Zenon DEF Merge, Net
<1> HIDE DEF change
<1>3. /\ held = [x \in DOMAIN held |-> held[x]]
      /\ DOMAIN held = IF change = None THEN DOMAIN s.pending \ {p} ELSE DOMAIN s.pending \cup {p}
      /\ \A x \in DOMAIN s.pending : x # p => held[x] = s.pending[x]
      /\ change # None => held[p] = [change |-> change, age |-> 0]
  OBVIOUS
<1> HIDE DEF held
<1>4. r = [pending |-> held, renames |-> s.renames, shown |-> s.shown]
  BY <1>2 DEF Typed
<1> HIDE DEF r
<1>5. r.pending = held /\ r.renames = s.renames /\ r.shown = s.shown
  BY <1>4
<1>6. 0 \in 0..Window
  BY WatchAssumption
<1>7. \A x \in DOMAIN held : held[x] \in [change : Change, age : 0..Window]
  BY <1>1, <1>3, <1>6 DEF Typed
<1>8. DOMAIN held \subseteq Path
  BY <1>3 DEF Typed
<1>9. Typed(r)
  BY <1>3, <1>4, <1>5, <1>7, <1>8, Zenon DEF Typed
<1> QED BY <1>3, <1>5, <1>9, Zenon DEF r, change

\* Folding a change.
LEMMA MergeViews ==
  ASSUME NEW G, NEW s, Typed(s), Ready(s, G), NEW p \in Path, NEW incoming \in Change,
         (\A id \in DOMAIN s.renames : s.renames[id].from # p) \/ (incoming = "Modified" /\ p \in G),
         incoming = "Created" => p \notin View(s) \/ p \in G
  PROVE  LET r == Merge(s, p, incoming)
         IN  /\ Typed(r) /\ Ready(r, G) /\ r.renames = s.renames
             /\ \A x : x # p => (x \in View(r) <=> x \in View(s))
             /\ incoming # "Removed" /\ (\A id \in DOMAIN s.renames : s.renames[id].from # p) => p \in View(r)
             /\ incoming = "Removed" => p \notin View(r) \/ p \in G
<1> DEFINE r == Merge(s, p, incoming)
           change == Net(s, p, incoming)
           free == \A id \in DOMAIN s.renames : s.renames[id].from # p
<1>1. /\ Typed(r)
      /\ r.renames = s.renames /\ r.shown = s.shown
      /\ DOMAIN r.pending = IF change = None THEN DOMAIN s.pending \ {p} ELSE DOMAIN s.pending \cup {p}
      /\ \A x \in DOMAIN s.pending : x # p => r.pending[x] = s.pending[x]
      /\ change # None => r.pending[p] = [change |-> change, age |-> 0]
  BY MergeIs, Zenon
<1>2. p \in DOMAIN s.pending => s.pending[p].change \in Change
  BY DEF Typed
\* What the two changes come to.
<1>3. /\ incoming = "Removed" => \/ change = "Removed"
                                 \/ change = None /\ (p \notin s.shown \/ p \in G)
      /\ incoming # "Removed" => change \in {"Created", "Modified"}
      /\ change = "Created" => p \notin s.shown \/ p \in G
      /\ change \in Change \cup {None}
  <2>1. free /\ p \notin DOMAIN s.pending => (p \in View(s) <=> p \in s.shown)
    BY Seen
  <2>2. free /\ p \in DOMAIN s.pending => (p \in View(s) <=> Present(s.pending[p].change))
    BY Seen
  <2>3. p \in DOMAIN s.pending /\ s.pending[p].change = "Created" => p \notin s.shown \/ p \in G
    BY DEF Ready
  <2>4. free \/ incoming = "Modified"
    OBVIOUS
  <2> HIDE DEF free
  <2> QED BY <1>2, <2>1, <2>2, <2>3, <2>4 DEF Coalesce, Present, Change, None, Net
<1> HIDE DEF r, change
<1>4. ASSUME NEW x PROVE /\ x \in View(s) <=> /\ IF x \in DOMAIN s.pending THEN Present(s.pending[x].change) ELSE x \in s.shown
                                              /\ \A id \in DOMAIN s.renames : s.renames[id].from # x
                         /\ x \in View(r) <=> /\ IF x \in DOMAIN r.pending THEN Present(r.pending[x].change) ELSE x \in r.shown
                                              /\ \A id \in DOMAIN s.renames : s.renames[id].from # x
  BY <1>1, Seen
<1>5. ASSUME NEW x, x # p PROVE x \in View(r) <=> x \in View(s)
  BY <1>1, <1>4, <1>5
<1>6. ASSUME incoming # "Removed", free PROVE p \in View(r)
  <2>1. change # None /\ Present(change)
    BY <1>3, <1>6 DEF None, Present
  <2>2. p \in DOMAIN r.pending /\ r.pending[p].change = change
    BY <1>1, <2>1
  <2> QED BY <1>4, <1>6, <2>1, <2>2
<1>7. ASSUME incoming = "Removed" PROVE p \notin View(r) \/ p \in G
  <2>1. CASE change = None
    BY <1>1, <1>3, <1>4, <1>7, <2>1 DEF None
  <2>2. CASE change # None
    <3>1. p \in DOMAIN r.pending /\ r.pending[p].change = "Removed"
      BY <1>1, <1>3, <1>7, <2>2
    <3> QED BY <1>4, <3>1 DEF Present
  <2> QED BY <2>1, <2>2
<1>8. Ready(r, G)
  <2>1. ASSUME NEW x \in DOMAIN r.pending, r.pending[x].change = "Created" PROVE x \notin r.shown \/ x \in G
    <3>1. CASE x = p
      <4>1. change # None /\ r.pending[x].change = change
        BY <1>1, <3>1
      <4> QED BY <1>1, <1>3, <2>1, <3>1, <4>1
    <3>2. CASE x # p
      BY <1>1, <2>1, <3>2 DEF Ready
    <3> QED BY <3>1, <3>2
  <2>2. ASSUME NEW id \in DOMAIN r.renames, r.renames[id].from \in DOMAIN r.pending
        PROVE  r.renames[id].age <= r.pending[r.renames[id].from].age \/ r.renames[id].from \in G
    BY <1>1, <2>2 DEF Ready
  <2> QED BY <2>1, <2>2 DEF Ready
<1> QED BY <1>1, <1>5, <1>6, <1>7, <1>8 DEF r

LEMMA FlushKeysIs ==
  ASSUME NEW s, Typed(s), NEW paths
  PROVE  LET r == FlushKeys(s, paths)
         IN  /\ Typed(r)
             /\ r.renames = s.renames
             /\ DOMAIN r.pending = DOMAIN s.pending \ paths
             /\ \A x \in DOMAIN r.pending : r.pending[x] = s.pending[x]
             /\ r.shown = {x \in Path : IF x \in paths /\ x \in DOMAIN s.pending
                                        THEN Present(s.pending[x].change) ELSE x \in s.shown}
<1> DEFINE gone == paths \cap DOMAIN s.pending
           held == [p \in DOMAIN s.pending \ gone |-> s.pending[p]]
           seen == (s.shown \ gone) \cup {p \in gone : Present(s.pending[p].change)}
           r == FlushKeys(s, paths)
<1>1. r = [s EXCEPT !.pending = held, !.shown = seen]
  BY Zenon DEF FlushKeys
<1>2. /\ held = [x \in DOMAIN held |-> held[x]] /\ DOMAIN held = DOMAIN s.pending \ paths
      /\ \A x \in DOMAIN held : held[x] = s.pending[x]
  OBVIOUS
<1>3. seen = {x \in Path : IF x \in paths /\ x \in DOMAIN s.pending
                           THEN Present(s.pending[x].change) ELSE x \in s.shown}
  BY DEF Typed
<1> HIDE DEF held, seen
<1>4. r = [pending |-> held, renames |-> s.renames, shown |-> seen]
  BY <1>1 DEF Typed
<1> HIDE DEF r
<1>5. r.pending = held /\ r.renames = s.renames /\ r.shown = seen
  BY <1>4
<1>6. Typed(r)
  <2>1. DOMAIN held \subseteq Path /\ seen \subseteq Path
    BY <1>2, <1>3 DEF Typed
  <2>2. \A x \in DOMAIN held : held[x] \in [change : Change, age : 0..Window]
    BY <1>2 DEF Typed
  <2> QED BY <1>2, <1>4, <1>5, <2>1, <2>2, Zenon DEF Typed
<1> QED BY <1>2, <1>3, <1>5, <1>6, Zenon DEF r

\* Emitting what is pending on some paths shows no other files in the end, as long
\* as what is emitted is not of a path a half rename left.
LEMMA FlushKeysViews ==
  ASSUME NEW G, NEW s, Typed(s), Ready(s, G), NEW paths
  PROVE  LET r == FlushKeys(s, paths) IN Ready(r, G) /\ View(r) = View(s)
<1> DEFINE r == FlushKeys(s, paths)
<1>1. /\ r.renames = s.renames
      /\ DOMAIN r.pending = DOMAIN s.pending \ paths
      /\ \A x \in DOMAIN r.pending : r.pending[x] = s.pending[x]
      /\ r.shown = {x \in Path : IF x \in paths /\ x \in DOMAIN s.pending
                                 THEN Present(s.pending[x].change) ELSE x \in s.shown}
  BY FlushKeysIs, Zenon
<1> HIDE DEF r
<1>2. ASSUME NEW x PROVE x \in View(r) <=> x \in View(s)
  <2>1. /\ x \in View(s) <=> /\ IF x \in DOMAIN s.pending THEN Present(s.pending[x].change) ELSE x \in s.shown
                             /\ \A id \in DOMAIN s.renames : s.renames[id].from # x
        /\ x \in View(r) <=> /\ IF x \in DOMAIN r.pending THEN Present(r.pending[x].change) ELSE x \in r.shown
                             /\ \A id \in DOMAIN r.renames : r.renames[id].from # x
    BY Seen
  <2>2. s.shown \subseteq Path /\ DOMAIN s.pending \subseteq Path
    BY DEF Typed
  <2> QED BY <1>1, <2>1, <2>2
<1>3. Ready(r, G)
  BY <1>1 DEF Ready, Typed
<1> QED BY <1>2, <1>3 DEF r

LEMMA RelocateViews ==
  ASSUME NEW G, NEW s, Typed(s), Ready(s, G), NEW p \in Path, NEW q \in Path,
         \A id \in DOMAIN s.renames : s.renames[id].from # q
  PROVE  LET r == Relocate(s, p, q)
         IN  /\ Typed(r) /\ Ready(r, G) /\ r.renames = s.renames
             /\ View(r) = (View(s) \ {p}) \cup {q}
<1> DEFINE f == FlushKeys(s, {p, q})
           r == Relocate(s, p, q)
<1>1. /\ Typed(f)
      /\ f.renames = s.renames
      /\ DOMAIN f.pending = DOMAIN s.pending \ {p, q}
      /\ Ready(f, G) /\ View(f) = View(s)
  BY FlushKeysIs, FlushKeysViews, Zenon
<1>2. r = [f EXCEPT !.shown = (@ \ {p}) \cup {q}]
  BY Zenon DEF Relocate
<1> HIDE DEF f, r
<1>3. r = [pending |-> f.pending, renames |-> f.renames, shown |-> (f.shown \ {p}) \cup {q}]
  BY <1>1, <1>2 DEF Typed
<1>4. r.pending = f.pending /\ r.renames = f.renames /\ r.shown = (f.shown \ {p}) \cup {q}
  BY <1>3
<1>5. (f.shown \ {p}) \cup {q} \subseteq Path
  BY <1>1 DEF Typed
<1>6. Typed(r)
  BY <1>1, <1>3, <1>4, <1>5, Zenon DEF Typed
<1>7. ASSUME NEW x PROVE x \in View(r) <=> x \in (View(s) \ {p}) \cup {q}
  <2>1. /\ x \in View(f) <=> /\ IF x \in DOMAIN f.pending THEN Present(f.pending[x].change) ELSE x \in f.shown
                             /\ \A id \in DOMAIN f.renames : f.renames[id].from # x
        /\ x \in View(r) <=> /\ IF x \in DOMAIN r.pending THEN Present(r.pending[x].change) ELSE x \in r.shown
                             /\ \A id \in DOMAIN r.renames : r.renames[id].from # x
    BY Seen
  <2> QED BY <1>1, <1>4, <2>1
<1>8. Ready(r, G)
  BY <1>1, <1>4 DEF Ready
<1> QED BY <1>1, <1>4, <1>6, <1>7, <1>8 DEF r

LEMMA GiveUpIs ==
  ASSUME NEW s, Typed(s), NEW ids
  PROVE  LET r == GiveUp(s, ids)
         IN  /\ Typed(r)
             /\ r.pending = s.pending
             /\ DOMAIN r.renames = DOMAIN s.renames \ ids
             /\ \A id \in DOMAIN r.renames : r.renames[id] = s.renames[id]
             /\ r.shown = s.shown \ {s.renames[id].from : id \in ids}
<1> DEFINE held == [id \in DOMAIN s.renames \ ids |-> s.renames[id]]
           seen == s.shown \ {s.renames[id].from : id \in ids}
           r == GiveUp(s, ids)
<1>1. r = [s EXCEPT !.renames = held, !.shown = seen]
  BY DEF GiveUp, Typed
<1>2. /\ held = [x \in DOMAIN held |-> held[x]] /\ DOMAIN held = DOMAIN s.renames \ ids
      /\ \A x \in DOMAIN held : held[x] = s.renames[x]
  OBVIOUS
<1>3. seen \subseteq s.shown
  OBVIOUS
<1> HIDE DEF held
<1>4. r = [pending |-> s.pending, renames |-> held, shown |-> seen]
  BY <1>1 DEF Typed
<1> HIDE DEF r
<1>5. r.pending = s.pending /\ r.renames = held /\ r.shown = seen
  BY <1>4
<1> HIDE DEF seen
<1>6. Typed(r)
  <2>1. DOMAIN held \subseteq Tracker /\ seen \subseteq Path
    BY <1>2, <1>3 DEF Typed
  <2>2. \A x \in DOMAIN held : held[x] \in [from : Path, age : 0..Window]
    BY <1>2 DEF Typed
  <2> QED BY <1>2, <1>4, <1>5, <2>1, <2>2, Zenon DEF Typed
<1> QED BY <1>2, <1>5, <1>6 DEF r, seen

\* A half may be given up when nothing pending on its path shows a file.
LEMMA GiveUpViews ==
  ASSUME NEW G, NEW s, Typed(s), Ready(s, G), NEW ids \in SUBSET DOMAIN s.renames,
         \A id \in ids : s.renames[id].from \in DOMAIN s.pending => s.renames[id].from \in G
  PROVE  LET r == GiveUp(s, ids) IN Typed(r) /\ Ready(r, G) /\ Near(View(r), View(s), G)
<1> DEFINE r == GiveUp(s, ids)
<1>1. /\ Typed(r)
      /\ r.pending = s.pending
      /\ DOMAIN r.renames = DOMAIN s.renames \ ids
      /\ \A id \in DOMAIN r.renames : r.renames[id] = s.renames[id]
      /\ r.shown = s.shown \ {s.renames[id].from : id \in ids}
  BY GiveUpIs
<1> HIDE DEF r
<1>2. ASSUME NEW x PROVE (x \in View(s) => x \in View(r)) /\ (x \in View(r) => x \in View(s) \cup G)
  <2>1. /\ x \in View(s) <=> /\ IF x \in DOMAIN s.pending THEN Present(s.pending[x].change) ELSE x \in s.shown
                             /\ \A id \in DOMAIN s.renames : s.renames[id].from # x
        /\ x \in View(r) <=> /\ IF x \in DOMAIN r.pending THEN Present(r.pending[x].change) ELSE x \in r.shown
                             /\ \A id \in DOMAIN r.renames : r.renames[id].from # x
    BY Seen
  <2> QED BY <1>1, <2>1
<1>3. Ready(r, G)
  BY <1>1 DEF Ready
<1> QED BY <1>1, <1>2, <1>3 DEF r, Near

\* The end of an iteration: what is emitted was already to be shown, or is a guess.
LEMMA FlushViews ==
  ASSUME NEW G, NEW s, Typed(s), Ready(s, G)
  PROVE  LET r == Flush(s)
         IN  /\ Typed(r) /\ Ready(r, G) /\ Near(View(r), View(s), G) /\ DOMAIN r.renames \subseteq DOMAIN s.renames
             /\ \A id \in DOMAIN r.renames : r.renames[id] = s.renames[id]
<1> DEFINE f == FlushKeys(s, Ripe(s.pending))
           ids == Ripe(s.renames)
           r == Flush(s)
<1>1. /\ Typed(f)
      /\ f.renames = s.renames
      /\ DOMAIN f.pending = DOMAIN s.pending \ Ripe(s.pending)
      /\ Ready(f, G) /\ View(f) = View(s)
  BY FlushKeysIs, FlushKeysViews, Zenon
<1>2. r = GiveUp(f, ids)
  BY DEF Flush
<1>3. ids \in SUBSET DOMAIN f.renames
  BY <1>1 DEF Ripe
<1>4. ASSUME NEW id \in ids, f.renames[id].from \in DOMAIN f.pending PROVE f.renames[id].from \in G
  <2> DEFINE p == s.renames[id].from
  <2>1. id \in DOMAIN s.renames /\ s.renames[id].age >= Window /\ s.renames[id].age \in 0..Window
    BY DEF Ripe, Typed
  <2>2. p \in DOMAIN s.pending
          => s.pending[p].age \in 0..Window /\ (s.renames[id].age <= s.pending[p].age \/ p \in G)
    BY <2>1 DEF Ready, Typed
  <2>3. p \in DOMAIN s.pending => p \in Ripe(s.pending) \/ p \in G
    BY <2>1, <2>2, WatchAssumption DEF Ripe
  <2> QED BY <1>1, <1>4, <2>3
<1> HIDE DEF f, ids, r
<1>5. Typed(GiveUp(f, ids)) /\ Ready(GiveUp(f, ids), G) /\ Near(View(GiveUp(f, ids)), View(f), G)
  BY <1>1, <1>3, <1>4, GiveUpViews
<1>6. DOMAIN r.renames \subseteq DOMAIN f.renames /\ \A id \in DOMAIN r.renames : r.renames[id] = f.renames[id]
  BY <1>1, <1>2, GiveUpIs
<1> QED BY <1>1, <1>2, <1>5, <1>6 DEF r

LEMMA FlushTyped ==
  ASSUME NEW s, Typed(s)
  PROVE  Typed(Flush(s)) /\ Typed(FlushAll(s))
BY FlushKeysIs, GiveUpIs, Zenon DEF Flush, FlushAll

LEMMA FlushAllViews ==
  ASSUME NEW G, NEW s, Typed(s), Ready(s, G)
  PROVE  LET r == FlushAll(s)
         IN  Typed(r) /\ Ready(r, G) /\ Near(View(r), View(s), G) /\ DOMAIN r.renames = {}
<1> DEFINE f == FlushKeys(s, DOMAIN s.pending)
           ids == DOMAIN s.renames
           r == FlushAll(s)
<1>1. /\ Typed(f)
      /\ f.renames = s.renames
      /\ DOMAIN f.pending = DOMAIN s.pending \ DOMAIN s.pending
      /\ Ready(f, G) /\ View(f) = View(s)
  BY FlushKeysIs, FlushKeysViews, Zenon
<1>2. r = GiveUp(f, ids)
  BY DEF FlushAll
<1>3. ids \in SUBSET DOMAIN f.renames /\ \A id \in ids : f.renames[id].from \notin DOMAIN f.pending
  BY <1>1
<1> HIDE DEF f, ids, r
<1>4. Typed(GiveUp(f, ids)) /\ Ready(GiveUp(f, ids), G) /\ Near(View(GiveUp(f, ids)), View(f), G)
  BY <1>1, <1>3, GiveUpViews
<1>5. DOMAIN r.renames = DOMAIN f.renames \ ids
  BY <1>1, <1>2, GiveUpIs
<1> QED BY <1>1, <1>2, <1>4, <1>5 DEF r, ids

-----------------------------------------------------------------------------
\* The story that the queue tells.

After(files, m) ==
  CASE m.kind \in {"Created", "Modified", "RenamedTo", "OnlyTo"} -> files \cup {m.path}
    [] m.kind \in {"Removed", "RenamedFrom", "OnlyFrom"} -> files \ {m.path}
    [] m.kind = "RenamedBoth" -> (files \ {m.from}) \cup {m.to}
    [] m.kind = "Lost" -> files

Legal(files, m, G) ==
  /\ m.kind = "Created" => m.path \notin files
  /\ m.kind \in {"Removed", "RenamedFrom"} => m.path \in files
  /\ m.kind = "OnlyFrom" => m.path \in G

\* There is a file at a path; a half of the rename a tracker names.
Appearing(m, p) == \/ m.kind \in {"Created", "Modified", "RenamedTo", "OnlyTo"} /\ m.path = p
                   \/ m.kind = "RenamedBoth" /\ m.to = p
Half(m, kind, id) == m.kind = kind /\ m.tracker = id

LEMMA MessageIs ==
  ASSUME NEW m \in Messages
  PROVE  /\ m.kind \in Kind \cup {"RenamedBoth", "Lost"}
         /\ m.kind \in Kind => m.path \in Path /\ m.tracker \in Tracker \cup {None}
         /\ m.kind = "RenamedBoth" => m.from \in Path /\ m.to \in Path
<1>1. CASE m \in [kind : Kind, path : Path, tracker : Tracker \cup {None}]
  BY <1>1 DEF Kind, Change
<1>2. CASE m \in [kind : {"RenamedBoth"}, from : Path, to : Path]
  BY <1>2 DEF Kind, Change
<1>3. CASE m = [kind |-> "Lost"]
  BY <1>3 DEF Kind, Change
<1> QED BY <1>1, <1>2, <1>3 DEF Messages

LEMMA RelocateTyped ==
  ASSUME NEW s, Typed(s), NEW p \in Path, NEW q \in Path
  PROVE  Typed(Relocate(s, p, q))
<1> DEFINE f == FlushKeys(s, {p, q})
           r == Relocate(s, p, q)
<1>1. Typed(f)
  BY FlushKeysIs, Zenon
<1>2. r = [f EXCEPT !.shown = (@ \ {p}) \cup {q}]
  BY Zenon DEF Relocate
<1> HIDE DEF f, r
<1>3. r = [pending |-> f.pending, renames |-> f.renames, shown |-> (f.shown \ {p}) \cup {q}]
  BY <1>1, <1>2 DEF Typed
<1>4. r.pending = f.pending /\ r.renames = f.renames /\ r.shown = (f.shown \ {p}) \cup {q}
  BY <1>3
<1>5. (f.shown \ {p}) \cup {q} \subseteq Path
  BY <1>1 DEF Typed
<1>6. Typed(r)
  BY <1>1, <1>3, <1>4, <1>5, Zenon DEF Typed
<1> QED BY <1>6 DEF r

\* The first half of a rename is held; the second takes it out.
Halved(s, id, p) == [s EXCEPT !.renames = [x \in DOMAIN @ \cup {id} |->
                       IF x = id THEN [from |-> p, age |-> 0] ELSE @[x]]]
Paired(s, id) == [s EXCEPT !.renames = [x \in DOMAIN @ \ {id} |-> @[x]]]

LEMMA HalvedIs ==
  ASSUME NEW s, Typed(s), NEW id \in Tracker, NEW p \in Path
  PROVE  LET r == Halved(s, id, p)
         IN  /\ Typed(r) /\ r.pending = s.pending /\ r.shown = s.shown
             /\ DOMAIN r.renames = DOMAIN s.renames \cup {id}
             /\ r.renames[id] = [from |-> p, age |-> 0]
             /\ \A x \in DOMAIN s.renames : x # id => r.renames[x] = s.renames[x]
<1> DEFINE held == [x \in DOMAIN s.renames \cup {id} |-> IF x = id THEN [from |-> p, age |-> 0] ELSE s.renames[x]]
           r == Halved(s, id, p)
<1>1. r = [pending |-> s.pending, renames |-> held, shown |-> s.shown]
  BY DEF Halved, Typed
<1>2. /\ held = [x \in DOMAIN held |-> held[x]] /\ DOMAIN held = DOMAIN s.renames \cup {id}
      /\ held[id] = [from |-> p, age |-> 0]
      /\ \A x \in DOMAIN s.renames : x # id => held[x] = s.renames[x]
  OBVIOUS
<1> HIDE DEF held, r
<1>3. r.pending = s.pending /\ r.renames = held /\ r.shown = s.shown
  BY <1>1
<1>4. Typed(r)
  <2>1. 0 \in 0..Window
    BY WatchAssumption
  <2>2. DOMAIN held \subseteq Tracker /\ \A x \in DOMAIN held : held[x] \in [from : Path, age : 0..Window]
    BY <1>2, <2>1 DEF Typed
  <2> QED BY <1>1, <1>2, <1>3, <2>2, Zenon DEF Typed
<1> QED BY <1>2, <1>3, <1>4 DEF r

LEMMA PairedIs ==
  ASSUME NEW s, Typed(s), NEW id
  PROVE  LET r == Paired(s, id)
         IN  /\ Typed(r) /\ r.pending = s.pending /\ r.shown = s.shown
             /\ DOMAIN r.renames = DOMAIN s.renames \ {id}
             /\ \A x \in DOMAIN r.renames : r.renames[x] = s.renames[x]
<1> DEFINE held == [x \in DOMAIN s.renames \ {id} |-> s.renames[x]]
           r == Paired(s, id)
<1>1. r = [pending |-> s.pending, renames |-> held, shown |-> s.shown]
  BY DEF Paired, Typed
<1>2. /\ held = [x \in DOMAIN held |-> held[x]] /\ DOMAIN held = DOMAIN s.renames \ {id}
      /\ \A x \in DOMAIN held : held[x] = s.renames[x]
  OBVIOUS
<1> HIDE DEF held, r
<1>3. r.pending = s.pending /\ r.renames = held /\ r.shown = s.shown
  BY <1>1
<1>4. Typed(r)
  <2>1. DOMAIN held \subseteq Tracker /\ \A x \in DOMAIN held : held[x] \in [from : Path, age : 0..Window]
    BY <1>2 DEF Typed
  <2> QED BY <1>1, <1>2, <1>3, <2>1, Zenon DEF Typed
<1> QED BY <1>2, <1>3, <1>4 DEF r

\* What each notification does to a debouncer.
LEMMA RecordIs ==
  ASSUME NEW s, NEW m \in Messages
  PROVE  \/ m.kind = "RenamedBoth" /\ Record(s, m) = Relocate(s, m.from, m.to)
         \/ m.kind = "RenamedFrom" /\ m.tracker # None /\ Record(s, m) = Halved(s, m.tracker, m.path)
         \/ m.kind = "RenamedFrom" /\ m.tracker = None /\ Record(s, m) = Merge(s, m.path, "Removed")
         \/ /\ m.kind = "RenamedTo" /\ m.tracker \in DOMAIN s.renames
            /\ Record(s, m) = Relocate(Paired(s, m.tracker), s.renames[m.tracker].from, m.path)
         \/ /\ m.kind = "RenamedTo" /\ m.tracker \notin DOMAIN s.renames
            /\ Record(s, m) = Merge(s, m.path, "Created")
         \/ m.kind \in {"OnlyFrom", "OnlyTo"} /\ Record(s, m) = Merge(s, m.path, "Modified")
         \/ m.kind \in Change /\ Record(s, m) = Merge(s, m.path, m.kind)
         \/ m.kind = "Lost" /\ Record(s, m) = s
<1>1. m.kind \in Change \cup {"RenamedFrom", "RenamedTo", "OnlyFrom", "OnlyTo", "RenamedBoth", "Lost"}
  BY MessageIs DEF Kind
<1>2. CASE m.kind \in Change
  <2>1. m.kind # "RenamedBoth" /\ m.kind # "RenamedFrom" /\ m.kind # "RenamedTo" /\ m.kind \notin {"OnlyFrom", "OnlyTo"}
    BY <1>2 DEF Change
  <2> QED BY <1>2, <2>1, Zenon DEF Record
<1>3. CASE m.kind = "RenamedBoth"
  BY <1>3 DEF Record, Change
<1>4. CASE m.kind = "RenamedFrom"
  BY <1>4 DEF Record, Change, Halved
<1>5. CASE m.kind = "RenamedTo"
  BY <1>5 DEF Record, Change, Paired
<1>6. CASE m.kind = "Lost"
  BY <1>6 DEF Record, Change
<1>7. CASE m.kind \in {"OnlyFrom", "OnlyTo"}
  BY <1>7 DEF Record, Change
<1> QED BY <1>1, <1>2, <1>3, <1>4, <1>5, <1>6, <1>7

LEMMA RecordTyped ==
  ASSUME NEW s, Typed(s), NEW m \in Messages
  PROVE  Typed(Record(s, m))
<1>1. /\ m.kind \in Kind => m.path \in Path /\ m.tracker \in Tracker \cup {None}
      /\ m.kind = "RenamedBoth" => m.from \in Path /\ m.to \in Path
  BY MessageIs
<1>2. Change \subseteq Kind /\ Change = {"Created", "Modified", "Removed"}
      /\ {"RenamedFrom", "RenamedTo", "OnlyFrom", "OnlyTo"} \subseteq Kind
  BY DEF Change, Kind
<1>3. \A id \in DOMAIN s.renames : s.renames[id].from \in Path
  BY DEF Typed
<1>4. \A c \in Change : m.kind \in Kind => Typed(Merge(s, m.path, c))
  BY <1>1, MergeIs, Zenon
<1>5. m.kind = "RenamedTo" /\ m.tracker \in DOMAIN s.renames
        => Typed(Relocate(Paired(s, m.tracker), s.renames[m.tracker].from, m.path))
  <2>1. Typed(Paired(s, m.tracker))
    BY PairedIs, Zenon
  <2> QED BY <1>1, <1>2, <1>3, <2>1, RelocateTyped
<1>6. m.kind = "RenamedFrom" /\ m.tracker # None => Typed(Halved(s, m.tracker, m.path))
  BY <1>1, <1>2, HalvedIs
<1>7. m.kind = "RenamedBoth" => Typed(Relocate(s, m.from, m.to))
  BY <1>1, RelocateTyped
<1> QED BY <1>2, <1>4, <1>5, <1>6, <1>7, RecordIs

\* What a debouncer would show is the files F, but for guesses.
Fits(s, F, G) == Ready(s, G) /\ F \subseteq View(s) /\ View(s) \subseteq F \cup G

LEMMA FitsGrows ==
  ASSUME NEW s, NEW F, NEW G, NEW H, G \subseteq H, Fits(s, F, G)
  PROVE  Fits(s, F, H)
BY DEF Fits, Ready

\* Folding the next legal notification moves the files one change along.
LEMMA RecordFits ==
  ASSUME NEW G, NEW F, NEW s, Typed(s), Fits(s, F, G), NEW m \in Messages, Legal(F, m, G),
         \A q \in Path : Appearing(m, q) => \A id \in DOMAIN s.renames : s.renames[id].from # q,
         \A id \in DOMAIN s.renames : ~Half(m, "RenamedFrom", id)
  PROVE  LET r == Record(s, m)
         IN  /\ Typed(r) /\ Fits(r, After(F, m), G \cup Mistaken(s, m))
             /\ \A id \in DOMAIN r.renames :
                  \/ id \in DOMAIN s.renames /\ ~Half(m, "RenamedTo", id) /\ r.renames[id] = s.renames[id]
                  \/ Half(m, "RenamedFrom", id) /\ r.renames[id].from = m.path
<1> DEFINE r == Record(s, m)
           H == G \cup Mistaken(s, m)
           Rest == \A id \in DOMAIN r.renames :
                     \/ id \in DOMAIN s.renames /\ ~Half(m, "RenamedTo", id) /\ r.renames[id] = s.renames[id]
                     \/ Half(m, "RenamedFrom", id) /\ r.renames[id].from = m.path
<1> SUFFICES Typed(r) /\ Fits(r, After(F, m), H) /\ Rest
  OBVIOUS
<1>0. /\ m.kind \in Kind => m.path \in Path /\ m.tracker \in Tracker \cup {None}
      /\ m.kind = "RenamedBoth" => m.from \in Path /\ m.to \in Path
      /\ Change = {"Created", "Modified", "Removed"}
      /\ Kind = {"Created", "Modified", "Removed", "RenamedFrom", "RenamedTo", "OnlyFrom", "OnlyTo"}
  BY MessageIs DEF Kind, Change
<1>1. Fits(s, F, H) /\ G \subseteq H
  BY FitsGrows
<1>2. ASSUME NEW p \in F PROVE p \in View(s) /\ \A id \in DOMAIN s.renames : s.renames[id].from # p
  BY <1>2, Seen DEF Fits
<1>3. Typed(r)
  BY RecordTyped
<1> DEFINE free(p) == \A id \in DOMAIN s.renames : s.renames[id].from # p
\* A change that is merged.
<1>4. ASSUME NEW p \in Path, NEW c \in Change, r = Merge(s, p, c),
             free(p) \/ (c = "Modified" /\ p \in H),
             c = "Created" => p \notin View(s) \/ p \in H,
             c = "Removed" => After(F, m) = F \ {p},
             c # "Removed" => \/ After(F, m) = F \cup {p} /\ free(p)
                              \/ After(F, m) = F \ {p} /\ p \in H,
             \A id \in DOMAIN s.renames : ~Half(m, "RenamedTo", id)
      PROVE  Fits(r, After(F, m), H) /\ Rest
  <2> HIDE DEF r, H
  <2>1. Ready(s, H)
    BY <1>1 DEF Fits
  <2>2. /\ Ready(Merge(s, p, c), H) /\ Merge(s, p, c).renames = s.renames
        /\ \A x : x # p => (x \in View(Merge(s, p, c)) <=> x \in View(s))
        /\ c # "Removed" /\ free(p) => p \in View(Merge(s, p, c))
        /\ c = "Removed" => p \notin View(Merge(s, p, c)) \/ p \in H
    BY <1>4, <2>1, MergeViews
  <2>3. /\ Ready(r, H) /\ r.renames = s.renames
        /\ \A x : x # p => (x \in View(r) <=> x \in View(s))
        /\ c # "Removed" /\ free(p) => p \in View(r)
        /\ c = "Removed" => p \notin View(r) \/ p \in H
    BY <1>4, <2>2
  <2>4. /\ c # "Removed" => \/ After(F, m) = F \cup {p} /\ p \in View(r)
                            \/ After(F, m) = F \ {p} /\ p \in H
        /\ c = "Removed" => After(F, m) = F \ {p} /\ (p \notin View(r) \/ p \in H)
    BY <1>4, <2>3
  <2>5. F \subseteq View(s) /\ View(s) \subseteq F \cup H
    BY <1>1 DEF Fits
  <2>6. After(F, m) \subseteq View(r) /\ View(r) \subseteq After(F, m) \cup H
    BY <2>3, <2>4, <2>5
  <2>7. Rest
    BY <1>4, <2>3
  <2> QED BY <2>3, <2>6, <2>7 DEF Fits
<1>5. CASE m.kind \in Change /\ r = Merge(s, m.path, m.kind)
  <2>1. m.path \in Path
    BY <1>0, <1>5
  <2>2. m.kind = "Removed" => After(F, m) = F \ {m.path} /\ free(m.path)
    BY <1>2 DEF After, Legal
  <2>3. m.kind \in {"Created", "Modified"} => After(F, m) = F \cup {m.path} /\ free(m.path)
    BY <2>1 DEF After, Appearing
  <2>4. m.kind = "Created" => m.path \notin View(s) \/ m.path \in H
    BY <1>1 DEF Legal, Fits
  <2>5. \A id \in DOMAIN s.renames : ~Half(m, "RenamedTo", id)
    BY <1>0, <1>5 DEF Half
  <2> HIDE DEF r, H, Rest
  <2> QED BY <1>0, <1>3, <1>4, <1>5, <2>1, <2>2, <2>3, <2>4, <2>5
<1>6. CASE m.kind = "RenamedFrom" /\ m.tracker = None /\ r = Merge(s, m.path, "Removed")
  <2>1. m.path \in Path /\ "Removed" \in Change
    BY <1>0, <1>6
  <2>2. After(F, m) = F \ {m.path} /\ free(m.path)
    BY <1>2, <1>6 DEF After, Legal
  <2>3. \A id \in DOMAIN s.renames : ~Half(m, "RenamedTo", id)
    BY <1>6 DEF Half
  <2> HIDE DEF r, H, Rest
  <2> QED BY <1>3, <1>4, <1>6, <2>1, <2>2, <2>3
<1>7. CASE m.kind = "RenamedTo" /\ m.tracker \notin DOMAIN s.renames /\ r = Merge(s, m.path, "Created")
  <2>1. m.path \in Path /\ "Created" \in Change
    BY <1>0, <1>7
  <2>2. After(F, m) = F \cup {m.path} /\ free(m.path)
    BY <1>7, <2>1 DEF After, Appearing
  <2>3. m.path \notin View(s) \/ m.path \in H
    BY <1>7, <2>2, Seen DEF Mistaken
  <2>4. \A id \in DOMAIN s.renames : ~Half(m, "RenamedTo", id)
    BY <1>7 DEF Half
  <2> HIDE DEF r, H, Rest
  <2> QED BY <1>3, <1>4, <1>7, <2>1, <2>2, <2>3, <2>4
<1>8. CASE m.kind \in {"OnlyFrom", "OnlyTo"} /\ r = Merge(s, m.path, "Modified")
  <2>1. m.path \in Path /\ "Modified" \in Change
    BY <1>0, <1>8
  <2>2. m.kind = "OnlyTo" => After(F, m) = F \cup {m.path} /\ free(m.path)
    BY <2>1 DEF After, Appearing
  <2>3. m.kind = "OnlyFrom" => After(F, m) = F \ {m.path} /\ m.path \in H
    BY <1>1 DEF After, Legal
  <2>4. \A id \in DOMAIN s.renames : ~Half(m, "RenamedTo", id)
    BY <1>8 DEF Half
  <2> HIDE DEF r, H, Rest
  <2> QED BY <1>3, <1>4, <1>8, <2>1, <2>2, <2>3, <2>4
<1>9. CASE m.kind = "RenamedBoth" /\ r = Relocate(s, m.from, m.to)
  <2> HIDE DEF r, H
  <2>1. m.from \in Path /\ m.to \in Path
    BY <1>0, <1>9
  <2>2. free(m.to)
    BY <1>9, <2>1 DEF Appearing
  <2>3. Ready(s, H) /\ F \subseteq View(s) /\ View(s) \subseteq F \cup H
    BY <1>1 DEF Fits
  <2>4. Ready(r, H) /\ r.renames = s.renames /\ View(r) = (View(s) \ {m.from}) \cup {m.to}
    BY <1>9, <2>1, <2>2, <2>3, RelocateViews
  <2>5. After(F, m) = (F \ {m.from}) \cup {m.to} /\ \A id \in DOMAIN s.renames : ~Half(m, "RenamedTo", id)
    BY <1>9 DEF After, Half
  <2>6. After(F, m) \subseteq View(r) /\ View(r) \subseteq After(F, m) \cup H
    BY <2>3, <2>4, <2>5
  <2>7. Rest
    BY <2>4, <2>5
  <2> QED BY <1>3, <2>4, <2>6, <2>7 DEF Fits
<1>10. CASE m.kind = "Lost" /\ r = s
  <2>1. After(F, m) = F /\ \A id \in DOMAIN s.renames : ~Half(m, "RenamedTo", id)
    BY <1>10 DEF After, Half
  <2> QED BY <1>1, <1>3, <1>10, <2>1
<1>11. CASE m.kind = "RenamedFrom" /\ m.tracker # None /\ r = Halved(s, m.tracker, m.path)
  <2> HIDE DEF r, H
  <2> DEFINE id == m.tracker
  <2>1. m.path \in Path /\ id \in Tracker /\ id \notin DOMAIN s.renames
    BY <1>0, <1>11 DEF Half
  <2>2. /\ r.pending = s.pending /\ r.shown = s.shown
        /\ DOMAIN r.renames = DOMAIN s.renames \cup {id}
        /\ r.renames[id] = [from |-> m.path, age |-> 0]
        /\ \A x \in DOMAIN s.renames : x # id => r.renames[x] = s.renames[x]
    <3> DEFINE h == Halved(s, id, m.path)
    <3>1. /\ h.pending = s.pending /\ h.shown = s.shown
          /\ DOMAIN h.renames = DOMAIN s.renames \cup {id}
          /\ h.renames[id] = [from |-> m.path, age |-> 0]
          /\ \A x \in DOMAIN s.renames : x # id => h.renames[x] = s.renames[x]
      BY <2>1, HalvedIs
    <3>2. r = h
      BY <1>11
    <3> QED BY <3>1, <3>2, Zenon
  <2>3. ASSUME NEW x PROVE x \in View(r) <=> x \in View(s) \ {m.path}
    <3>1. /\ x \in View(s) <=> /\ IF x \in DOMAIN s.pending THEN Present(s.pending[x].change) ELSE x \in s.shown
                               /\ \A i \in DOMAIN s.renames : s.renames[i].from # x
          /\ x \in View(r) <=> /\ IF x \in DOMAIN r.pending THEN Present(r.pending[x].change) ELSE x \in r.shown
                               /\ \A i \in DOMAIN r.renames : r.renames[i].from # x
      BY Seen
    <3> QED BY <2>1, <2>2, <3>1
  <2>4. Ready(r, H)
    <3>1. \A p \in DOMAIN r.pending : r.pending[p].age \in Nat
      BY <2>2, WatchAssumption DEF Typed
    <3>2. Ready(s, H)
      BY <1>1 DEF Fits
    <3> QED BY <2>1, <2>2, <3>1, <3>2 DEF Ready
  <2>5. After(F, m) = F \ {m.path}
    BY <1>11 DEF After
  <2>6. Fits(r, After(F, m), H)
    BY <1>1, <2>3, <2>4, <2>5 DEF Fits
  <2>7. \A x \in DOMAIN s.renames : ~Half(m, "RenamedTo", x)
    BY <1>11 DEF Half
  <2>8. Half(m, "RenamedFrom", id)
    BY <1>11 DEF Half
  <2>9. Rest
    BY <2>1, <2>2, <2>7, <2>8
  <2> QED BY <1>3, <2>6, <2>9
<1>12. CASE /\ m.kind = "RenamedTo" /\ m.tracker \in DOMAIN s.renames
            /\ r = Relocate(Paired(s, m.tracker), s.renames[m.tracker].from, m.path)
  <2> DEFINE id == m.tracker
             f == Paired(s, id)
             p == s.renames[id].from
  <2> HIDE DEF r, H
  <2>1. m.path \in Path /\ id \in DOMAIN s.renames /\ p \in Path
    BY <1>0, <1>12 DEF Typed
  <2>2. /\ Typed(f) /\ f.pending = s.pending /\ f.shown = s.shown
        /\ DOMAIN f.renames = DOMAIN s.renames \ {id}
        /\ \A x \in DOMAIN f.renames : f.renames[x] = s.renames[x]
    BY PairedIs, Zenon
  <2>3. \A x \in DOMAIN s.renames : s.renames[x].from # m.path
    BY <1>12, <2>1 DEF Appearing
  <2> HIDE DEF f
  <2>4. Ready(f, H)
    BY <1>1, <2>2 DEF Ready, Fits
  <2>5. \A x \in DOMAIN f.renames : f.renames[x].from # m.path
    BY <2>2, <2>3
  <2>6. r = Relocate(f, p, m.path)
    BY <1>12 DEF f
  <2> HIDE DEF p
  <2>7. Ready(r, H) /\ r.renames = f.renames /\ View(r) = (View(f) \ {p}) \cup {m.path}
    BY <2>1, <2>2, <2>4, <2>5, <2>6, RelocateViews
  <2>8. ASSUME NEW x PROVE x \in (View(f) \ {p}) \cup {m.path} <=> x \in View(s) \cup {m.path}
    <3>1. /\ x \in View(s) <=> /\ IF x \in DOMAIN s.pending THEN Present(s.pending[x].change) ELSE x \in s.shown
                               /\ \A i \in DOMAIN s.renames : s.renames[i].from # x
          /\ x \in View(f) <=> /\ IF x \in DOMAIN f.pending THEN Present(f.pending[x].change) ELSE x \in f.shown
                               /\ \A i \in DOMAIN f.renames : f.renames[i].from # x
      BY Seen
    <3> QED BY <2>1, <2>2, <3>1 DEF p
  <2>9. After(F, m) = F \cup {m.path}
    BY <1>12 DEF After
  <2>10. Fits(r, After(F, m), H)
    BY <1>1, <2>7, <2>8, <2>9 DEF Fits
  <2>11. \A x \in DOMAIN f.renames : x \in DOMAIN s.renames /\ ~Half(m, "RenamedTo", x) /\ f.renames[x] = s.renames[x]
    BY <2>2 DEF Half
  <2>12. Rest
    BY <2>7, <2>11
  <2> QED BY <1>3, <2>10, <2>12
<1> HIDE DEF r, H, Rest
<1>13. \/ m.kind = "RenamedBoth" /\ r = Relocate(s, m.from, m.to)
       \/ m.kind = "RenamedFrom" /\ m.tracker # None /\ r = Halved(s, m.tracker, m.path)
       \/ m.kind = "RenamedFrom" /\ m.tracker = None /\ r = Merge(s, m.path, "Removed")
       \/ /\ m.kind = "RenamedTo" /\ m.tracker \in DOMAIN s.renames
          /\ r = Relocate(Paired(s, m.tracker), s.renames[m.tracker].from, m.path)
       \/ m.kind = "RenamedTo" /\ m.tracker \notin DOMAIN s.renames /\ r = Merge(s, m.path, "Created")
       \/ m.kind \in {"OnlyFrom", "OnlyTo"} /\ r = Merge(s, m.path, "Modified")
       \/ m.kind \in Change /\ r = Merge(s, m.path, m.kind)
       \/ m.kind = "Lost" /\ r = s
  BY RecordIs DEF r
<1> QED BY <1>3, <1>5, <1>6, <1>7, <1>8, <1>9, <1>10, <1>11, <1>12, <1>13

-----------------------------------------------------------------------------
\* A story leads from the files at its beginning to those at its end.
Story(first, q, last, G) ==
  \E tree \in [0..Len(q) -> SUBSET Path] :
    /\ tree[0] = first /\ tree[Len(q)] = last
    /\ \A i \in 1..Len(q) : Legal(tree[i - 1], q[i], G) /\ tree[i] = After(tree[i - 1], q[i])

LEMMA AfterIn ==
  ASSUME NEW files \in SUBSET Path, NEW m \in Messages
  PROVE  After(files, m) \in SUBSET Path
BY MessageIs DEF After, Kind, Change

LEMMA StoryEmpty ==
  ASSUME NEW G, NEW first, NEW last
  PROVE  Story(first, <<>>, last, G) <=> first = last /\ first \in SUBSET Path
<1>1. ASSUME Story(first, <<>>, last, G) PROVE first = last /\ first \in SUBSET Path
  <2>1. PICK tree \in [0..0 -> SUBSET Path] : tree[0] = first /\ tree[0] = last
    BY <1>1 DEF Story
  <2> QED BY <2>1
<1>2. ASSUME first = last, first \in SUBSET Path PROVE Story(first, <<>>, last, G)
  <2> DEFINE tree == [i \in 0..0 |-> first]
  <2>1. tree \in [0..0 -> SUBSET Path] /\ tree[0] = first
    BY <1>2
  <2>2. \A i \in 1..0 : Legal(tree[i - 1], <<>>[i], G) /\ tree[i] = After(tree[i - 1], <<>>[i])
    OBVIOUS
  <2>3. Len(<<>>) = 0
    OBVIOUS
  <2> HIDE DEF tree
  <2> QED BY <1>2, <2>1, <2>2, <2>3 DEF Story
<1> QED BY <1>1, <1>2

LEMMA StoryGrows ==
  ASSUME NEW first, NEW q, NEW last, NEW G, NEW H, G \subseteq H, Story(first, q, last, G)
  PROVE  Story(first, q, last, H)
<1>1. \A files, m : Legal(files, m, G) => Legal(files, m, H)
  BY DEF Legal
<1> QED BY <1>1 DEF Story

LEMMA StoryAppend ==
  ASSUME NEW G, NEW first, NEW last \in SUBSET Path, NEW q \in Seq(Messages), NEW m \in Messages,
         Story(first, q, last, G), Legal(last, m, G)
  PROVE  Story(first, Append(q, m), After(last, m), G)
<1>1. PICK tree \in [0..Len(q) -> SUBSET Path] :
        /\ tree[0] = first /\ tree[Len(q)] = last
        /\ \A i \in 1..Len(q) : Legal(tree[i - 1], q[i], G) /\ tree[i] = After(tree[i - 1], q[i])
  BY DEF Story
<1> DEFINE n == Len(q)
           told == [i \in 0..n + 1 |-> IF i = n + 1 THEN After(last, m) ELSE tree[i]]
           r == Append(q, m)
<1>2. n \in Nat /\ Len(r) = n + 1 /\ r[n + 1] = m /\ \A i \in 1..n : r[i] = q[i]
  OBVIOUS
<1>3. told \in [0..n + 1 -> SUBSET Path]
  <2>1. After(last, m) \in SUBSET Path
    BY AfterIn
  <2> QED BY <1>2, <2>1
<1>4. /\ told[0] = first /\ told[n + 1] = After(last, m) /\ told[n] = last
      /\ \A i \in 0..n : told[i] = tree[i]
  BY <1>1, <1>2
<1> HIDE DEF told
<1>5. ASSUME NEW i \in 1..n + 1 PROVE Legal(told[i - 1], r[i], G) /\ told[i] = After(told[i - 1], r[i])
  <2>1. CASE i \in 1..n
    <3>1. told[i - 1] = tree[i - 1] /\ told[i] = tree[i] /\ r[i] = q[i]
      BY <1>2, <1>4, <2>1
    <3>2. Legal(tree[i - 1], q[i], G) /\ tree[i] = After(tree[i - 1], q[i])
      BY <1>1, <2>1
    <3> QED BY <3>1, <3>2
  <2>2. CASE i = n + 1
    <3>1. told[i - 1] = last /\ told[i] = After(last, m) /\ r[i] = m
      BY <1>2, <1>4, <2>2
    <3> QED BY <3>1
  <2> QED BY <1>2, <2>1, <2>2
<1> QED BY <1>2, <1>3, <1>4, <1>5 DEF Story

LEMMA StoryTail ==
  ASSUME NEW G, NEW first, NEW last, NEW q \in Seq(Messages), q # <<>>, Story(first, q, last, G)
  PROVE  /\ first \in SUBSET Path /\ Legal(first, Head(q), G)
         /\ Story(After(first, Head(q)), Tail(q), last, G)
<1>1. PICK tree \in [0..Len(q) -> SUBSET Path] :
        /\ tree[0] = first /\ tree[Len(q)] = last
        /\ \A i \in 1..Len(q) : Legal(tree[i - 1], q[i], G) /\ tree[i] = After(tree[i - 1], q[i])
  BY DEF Story
<1> DEFINE n == Len(q) - 1
           told == [i \in 0..n |-> tree[i + 1]]
           r == Tail(q)
<1>2. n \in Nat /\ Len(q) = n + 1 /\ Len(r) = n /\ Head(q) = q[1] /\ \A i \in 1..n : r[i] = q[i + 1]
  OBVIOUS
<1>3. told \in [0..n -> SUBSET Path] /\ \A i \in 0..n : told[i] = tree[i + 1]
  BY <1>2
<1> HIDE DEF told, n
<1>4. Legal(tree[0], q[1], G) /\ tree[1] = After(tree[0], q[1])
  <2>1. 1 \in 1..Len(q) /\ 1 - 1 = 0
    BY <1>2
  <2> QED BY <1>1, <2>1
<1>5. told[0] = After(first, Head(q)) /\ told[n] = last
  BY <1>1, <1>2, <1>3, <1>4
<1>6. ASSUME NEW i \in 1..n PROVE Legal(told[i - 1], r[i], G) /\ told[i] = After(told[i - 1], r[i])
  <2>1. told[i - 1] = tree[i] /\ told[i] = tree[i + 1] /\ r[i] = q[i + 1]
    BY <1>2, <1>3
  <2>2. i + 1 \in 1..Len(q) /\ (i + 1) - 1 = i
    BY <1>2
  <2>3. Legal(tree[i], q[i + 1], G) /\ tree[i + 1] = After(tree[i], q[i + 1])
    BY <1>1, <2>2
  <2> QED BY <2>1, <2>3
<1>7. first \in SUBSET Path
  BY <1>1, <1>2
<1> QED BY <1>1, <1>2, <1>3, <1>4, <1>5, <1>6, <1>7 DEF Story

-----------------------------------------------------------------------------
\* The halves of renames in flight.

\* A tracker's file left p: its first half is held, or is queued before the i-th.
Left(r, q, id, p, i) ==
  \/ id \in DOMAIN r /\ r[id].from = p
  \/ \E k \in 1..i - 1 : Half(q[k], "RenamedFrom", id) /\ q[k].path = p

\* Where a file appears, no lone half of an earlier move can still remove it.
Safe(r, q, p, i) ==
  \A id \in Tracker : Left(r, q, id, p, i) => \E j \in 1..i - 1 : Half(q[j], "RenamedTo", id)

\* A tracker names one rename at a time, its halves in order.
InOrder(r, q) ==
  \A id \in Tracker, i, j \in 1..Len(q) :
    /\ Half(q[i], "RenamedFrom", id) => id \notin DOMAIN r
    /\ Half(q[i], "RenamedFrom", id) /\ Half(q[j], "RenamedFrom", id) => i = j
    /\ Half(q[i], "RenamedFrom", id) /\ Half(q[j], "RenamedTo", id) => i < j

Halves(r, q) ==
  /\ InOrder(r, q)
  /\ \A i \in 1..Len(q), p \in Path : Appearing(q[i], p) => Safe(r, q, p, i)

\* Halves that are paired, given up or grown older are no obstacle.
LEMMA SafeShrinks ==
  ASSUME NEW r, NEW r2, NEW q, NEW p, NEW i, Safe(r, q, p, i),
         \A id \in DOMAIN r2 : id \in DOMAIN r /\ r2[id].from = r[id].from
  PROVE  Safe(r2, q, p, i)
<1>1. ASSUME NEW id \in Tracker, Left(r2, q, id, p, i) PROVE Left(r, q, id, p, i)
  BY <1>1 DEF Left
<1> QED BY <1>1, Zenon DEF Safe

LEMMA HalvesShrink ==
  ASSUME NEW r, NEW r2, NEW q, Halves(r, q),
         \A id \in DOMAIN r2 : id \in DOMAIN r /\ r2[id].from = r[id].from
  PROVE  Halves(r2, q)
<1>1. \A p, i : Safe(r, q, p, i) => Safe(r2, q, p, i)
  BY SafeShrinks
<1>2. InOrder(r2, q)
  BY DEF Halves, InOrder
<1> QED BY <1>1, <1>2, Zenon DEF Halves

\* One notification is folded: what the debouncer holds was held or queued.
Folded(r, r2, q) ==
  \A id \in DOMAIN r2 :
    \/ id \in DOMAIN r /\ ~Half(Head(q), "RenamedTo", id) /\ r2[id].from = r[id].from
    \/ Half(Head(q), "RenamedFrom", id) /\ r2[id].from = Head(q).path

LEMMA TailIs ==
  ASSUME NEW q \in Seq(Messages), q # <<>>
  PROVE  /\ Len(q) \in Nat /\ Len(Tail(q)) = Len(q) - 1 /\ Len(q) >= 1 /\ Head(q) = q[1]
         /\ \A i \in 1..Len(Tail(q)) : i + 1 \in 1..Len(q) /\ Tail(q)[i] = q[i + 1]
OBVIOUS

LEMMA LeftTail ==
  ASSUME NEW r, NEW r2, NEW q \in Seq(Messages), q # <<>>, InOrder(r, q), Folded(r, r2, q),
         NEW p, NEW i \in 1..Len(Tail(q)) + 1, NEW id \in Tracker, Left(r2, Tail(q), id, p, i)
  PROVE  Left(r, q, id, p, i + 1) /\ ~Half(q[1], "RenamedTo", id)
<1> DEFINE t == Tail(q)
<1>1. /\ Len(q) \in Nat /\ Len(t) = Len(q) - 1 /\ Len(q) >= 1 /\ Head(q) = q[1]
      /\ \A k \in 1..Len(t) : k + 1 \in 1..Len(q) /\ t[k] = q[k + 1]
  BY TailIs
<1> HIDE DEF t
<1>2. \/ id \in DOMAIN r2 /\ r2[id].from = p
      \/ \E k \in 1..i - 1 : Half(t[k], "RenamedFrom", id) /\ t[k].path = p
  BY DEF Left, t
<1>3. CASE id \in DOMAIN r2 /\ r2[id].from = p
  <2>1. CASE id \in DOMAIN r /\ ~Half(q[1], "RenamedTo", id) /\ r2[id].from = r[id].from
    BY <1>3, <2>1 DEF Left
  <2>2. CASE Half(q[1], "RenamedFrom", id) /\ r2[id].from = q[1].path
    <3>1. 1 \in 1..(i + 1) - 1 /\ q[1].path = p
      BY <1>3, <2>2, <1>1
    <3> QED BY <2>2, <3>1 DEF Left, Half
  <2> QED BY <1>1, <1>3, <2>1, <2>2 DEF Folded
<1>4. CASE \E k \in 1..i - 1 : Half(t[k], "RenamedFrom", id) /\ t[k].path = p
  <2>1. PICK k \in 1..i - 1 : Half(t[k], "RenamedFrom", id) /\ t[k].path = p
    BY <1>4
  <2>2. k \in 1..Len(t) /\ k + 1 \in 1..(i + 1) - 1 /\ 1 \in 1..Len(q)
    BY <1>1 DEF t
  <2>3. t[k] = q[k + 1] /\ k + 1 \in 1..Len(q)
    BY <1>1, <2>2
  <2>4. Half(q[k + 1], "RenamedFrom", id) /\ q[k + 1].path = p
    BY <2>1, <2>3
  <2>5. Half(q[1], "RenamedTo", id) => k + 1 < 1
    BY <2>2, <2>3, <2>4, Zenon DEF InOrder
  <2> QED BY <2>2, <2>4, <2>5 DEF Left
<1> QED BY <1>2, <1>3, <1>4

LEMMA SafeTail ==
  ASSUME NEW r, NEW r2, NEW q \in Seq(Messages), q # <<>>, InOrder(r, q), Folded(r, r2, q),
         NEW p, NEW i \in 1..Len(Tail(q)) + 1, Safe(r, q, p, i + 1)
  PROVE  Safe(r2, Tail(q), p, i)
<1> SUFFICES ASSUME NEW id \in Tracker, Left(r2, Tail(q), id, p, i)
             PROVE  \E j \in 1..i - 1 : Half(Tail(q)[j], "RenamedTo", id)
  BY DEF Safe
<1>1. /\ Len(q) \in Nat /\ Len(Tail(q)) = Len(q) - 1 /\ Len(q) >= 1
      /\ \A k \in 1..Len(Tail(q)) : k + 1 \in 1..Len(q) /\ Tail(q)[k] = q[k + 1]
  BY TailIs
<1>2. Left(r, q, id, p, i + 1) /\ ~Half(q[1], "RenamedTo", id)
  BY LeftTail
<1>3. PICK j \in 1..(i + 1) - 1 : Half(q[j], "RenamedTo", id)
  BY <1>2 DEF Safe
<1>4. j # 1
  BY <1>2, <1>3
<1>5. j - 1 \in 1..i - 1 /\ j - 1 \in 1..Len(Tail(q)) /\ (j - 1) + 1 = j
  BY <1>1, <1>4
<1>6. Tail(q)[j - 1] = q[j]
  BY <1>1, <1>5
<1> QED BY <1>3, <1>5, <1>6

LEMMA HalvesTail ==
  ASSUME NEW r, NEW r2, NEW q \in Seq(Messages), q # <<>>, Halves(r, q), Folded(r, r2, q)
  PROVE  Halves(r2, Tail(q))
<1> DEFINE t == Tail(q)
<1>1. /\ Len(q) \in Nat /\ Len(t) = Len(q) - 1 /\ Len(q) >= 1 /\ Head(q) = q[1]
      /\ \A i \in 1..Len(t) : i + 1 \in 1..Len(q) /\ t[i] = q[i + 1]
  BY TailIs
<1>2. \A p, i : i \in 1..Len(t) + 1 /\ Safe(r, q, p, i + 1) => Safe(r2, t, p, i)
  BY SafeTail DEF Halves
<1> HIDE DEF t
<1>3. InOrder(r2, t)
  <2> SUFFICES ASSUME NEW id \in Tracker, NEW i \in 1..Len(t), NEW j \in 1..Len(t), Half(t[i], "RenamedFrom", id)
               PROVE  /\ id \notin DOMAIN r2
                      /\ Half(t[j], "RenamedFrom", id) => i = j
                      /\ Half(t[j], "RenamedTo", id) => i < j
    BY Zenon DEF InOrder
  <2>1. i + 1 \in 1..Len(q) /\ j + 1 \in 1..Len(q) /\ 1 \in 1..Len(q) /\ t[i] = q[i + 1] /\ t[j] = q[j + 1]
    BY <1>1
  <2>2. /\ id \notin DOMAIN r
        /\ Half(q[j + 1], "RenamedFrom", id) => i + 1 = j + 1
        /\ Half(q[j + 1], "RenamedTo", id) => i + 1 < j + 1
        /\ Half(q[1], "RenamedFrom", id) => i + 1 = 1
    BY <2>1, Zenon DEF Halves, InOrder
  <2>3. ~Half(q[1], "RenamedFrom", id)
    BY <2>2
  <2>4. id \notin DOMAIN r2
    BY <1>1, <2>2, <2>3 DEF Folded
  <2>5. /\ Half(t[j], "RenamedFrom", id) => i = j
        /\ Half(t[j], "RenamedTo", id) => i < j
    BY <2>1, <2>2
  <2> QED BY <2>4, <2>5
<1>4. ASSUME NEW i \in 1..Len(t), NEW p \in Path, Appearing(t[i], p) PROVE Safe(r2, t, p, i)
  <2>1. i + 1 \in 1..Len(q) /\ t[i] = q[i + 1] /\ i \in 1..Len(t) + 1
    BY <1>1
  <2>2. Safe(r, q, p, i + 1)
    BY <1>4, <2>1, Zenon DEF Halves
  <2> QED BY <1>2, <2>1, <2>2
<1> QED BY <1>3, <1>4, Zenon DEF Halves, t

\* One notification is queued.
LEMMA LeftAppend ==
  ASSUME NEW r, NEW q \in Seq(Messages), NEW m \in Messages, NEW p, NEW id \in Tracker,
         NEW i \in 1..Len(q) + 2, Left(r, Append(q, m), id, p, i)
  PROVE  \/ i \in 1..Len(q) + 1 /\ Left(r, q, id, p, i)
         \/ i = Len(q) + 2 /\ (Left(r, q, id, p, Len(q) + 1) \/ (Half(m, "RenamedFrom", id) /\ m.path = p))
<1> DEFINE t == Append(q, m)
<1>1. Len(q) \in Nat /\ t[Len(q) + 1] = m /\ \A k \in 1..Len(q) : t[k] = q[k]
  OBVIOUS
<1> HIDE DEF t
<1>2. \/ id \in DOMAIN r /\ r[id].from = p
      \/ \E k \in 1..i - 1 : Half(t[k], "RenamedFrom", id) /\ t[k].path = p
  BY DEF Left, t
<1>3. CASE id \in DOMAIN r /\ r[id].from = p
  BY <1>1, <1>3 DEF Left
<1>4. CASE \E k \in 1..i - 1 : Half(t[k], "RenamedFrom", id) /\ t[k].path = p
  <2>1. PICK k \in 1..i - 1 : Half(t[k], "RenamedFrom", id) /\ t[k].path = p
    BY <1>4
  <2>2. CASE k \in 1..Len(q)
    <3>1. t[k] = q[k] /\ k \in 1..(Len(q) + 1) - 1
      BY <1>1, <2>2
    <3>2. Half(q[k], "RenamedFrom", id) /\ q[k].path = p
      BY <2>1, <3>1
    <3> QED BY <1>1, <2>1, <3>1, <3>2 DEF Left
  <2>3. CASE k = Len(q) + 1
    <3>1. i = Len(q) + 2
      BY <1>1, <2>1, <2>3
    <3> QED BY <1>1, <2>1, <2>3, <3>1
  <2> QED BY <1>1, <2>1, <2>2, <2>3
<1> QED BY <1>2, <1>3, <1>4

\* A path that was safe stays so while what is queued does not leave it.
LEMMA SafeAppend ==
  ASSUME NEW r, NEW q \in Seq(Messages), NEW m \in Messages, NEW p, Safe(r, q, p, Len(q) + 1),
         \A id \in Tracker : Half(m, "RenamedFrom", id) => m.path # p
  PROVE  Safe(r, Append(q, m), p, Len(q) + 2)
<1> SUFFICES ASSUME NEW id \in Tracker, Left(r, Append(q, m), id, p, Len(q) + 2)
             PROVE  \E j \in 1..(Len(q) + 2) - 1 : Half(Append(q, m)[j], "RenamedTo", id)
  BY DEF Safe
<1>1. Len(q) \in Nat /\ Len(q) + 2 \in 1..Len(q) + 2 /\ Len(q) + 2 \notin 1..Len(q) + 1
  OBVIOUS
<1>2. Left(r, q, id, p, Len(q) + 1)
  BY <1>1, LeftAppend
<1>3. PICK j \in 1..(Len(q) + 1) - 1 : Half(q[j], "RenamedTo", id)
  BY <1>2 DEF Safe
<1>4. j \in 1..(Len(q) + 2) - 1 /\ Append(q, m)[j] = q[j]
  BY <1>1
<1> QED BY <1>3, <1>4

LEMMA SafeStays ==
  ASSUME NEW r, NEW q \in Seq(Messages), NEW m \in Messages, NEW p, NEW i \in 1..Len(q) + 1, Safe(r, q, p, i)
  PROVE  Safe(r, Append(q, m), p, i)
<1>1. Len(q) \in Nat /\ i \in 1..Len(q) + 2 /\ i # Len(q) + 2 /\ \A k \in 1..i - 1 : Append(q, m)[k] = q[k]
  OBVIOUS
<1>2. ASSUME NEW id \in Tracker, Left(r, Append(q, m), id, p, i) PROVE Left(r, q, id, p, i)
  BY <1>1, <1>2, LeftAppend
<1> QED BY <1>1, <1>2 DEF Safe

\* No half of the tracker's rename is held or queued.
Unused(r, q, id) ==
  id \notin DOMAIN r /\ \A j \in 1..Len(q) : ~Half(q[j], "RenamedFrom", id) /\ ~Half(q[j], "RenamedTo", id)

LEMMA HalvesAppend ==
  ASSUME NEW r, NEW q \in Seq(Messages), NEW m \in Messages, Halves(r, q),
         \A id \in Tracker : Half(m, "RenamedFrom", id) => Unused(r, q, id),
         \A p \in Path : Appearing(m, p) => Safe(r, q, p, Len(q) + 1)
  PROVE  Halves(r, Append(q, m))
<1> DEFINE t == Append(q, m)
<1>1. Len(q) \in Nat /\ Len(t) = Len(q) + 1 /\ t[Len(q) + 1] = m /\ \A i \in 1..Len(q) : t[i] = q[i]
  OBVIOUS
<1>2. \A p, i : i \in 1..Len(q) + 1 /\ Safe(r, q, p, i) => Safe(r, t, p, i)
  BY SafeStays, Zenon
<1> HIDE DEF t
<1>3. InOrder(r, t)
  <2> SUFFICES ASSUME NEW id \in Tracker, NEW i \in 1..Len(t), NEW j \in 1..Len(t), Half(t[i], "RenamedFrom", id)
               PROVE  /\ id \notin DOMAIN r
                      /\ Half(t[j], "RenamedFrom", id) => i = j
                      /\ Half(t[j], "RenamedTo", id) => i < j
    BY Zenon DEF InOrder
  <2>1. CASE i \in 1..Len(q)
    <3>1. Half(q[i], "RenamedFrom", id)
      BY <1>1, <2>1
    <3>2. CASE j \in 1..Len(q)
      <4>1. t[j] = q[j]
        BY <1>1, <3>2
      <4> QED BY <2>1, <3>1, <3>2, <4>1, Zenon DEF Halves, InOrder
    <3>3. CASE j = Len(q) + 1
      <4>1. i < j /\ ~Half(t[j], "RenamedFrom", id)
        BY <1>1, <2>1, <3>1, <3>3 DEF Unused
      <4>2. id \notin DOMAIN r
        BY <2>1, <3>1, Zenon DEF Halves, InOrder
      <4> QED BY <4>1, <4>2
    <3> QED BY <1>1, <3>2, <3>3
  <2>2. CASE i = Len(q) + 1
    <3>1. Half(m, "RenamedFrom", id) /\ Unused(r, q, id)
      BY <1>1, <2>2
    <3>2. CASE j \in 1..Len(q)
      BY <1>1, <3>1, <3>2 DEF Unused
    <3>3. CASE j = Len(q) + 1
      <4>1. ~Half(m, "RenamedTo", id)
        BY <3>1 DEF Half
      <4> QED BY <1>1, <2>2, <3>1, <3>3, <4>1 DEF Unused
    <3> QED BY <1>1, <3>2, <3>3
  <2> QED BY <1>1, <2>1, <2>2
<1>4. ASSUME NEW i \in 1..Len(t), NEW p \in Path, Appearing(t[i], p) PROVE Safe(r, t, p, i)
  <2>1. CASE i \in 1..Len(q)
    <3>1. Safe(r, q, p, i)
      BY <1>1, <1>4, <2>1, Zenon DEF Halves
    <3>2. i \in 1..Len(q) + 1
      BY <1>1
    <3> QED BY <1>2, <3>1, <3>2
  <2>2. CASE i = Len(q) + 1
    BY <1>1, <1>2, <1>4, <2>2
  <2> QED BY <1>1, <2>1, <2>2
<1> QED BY <1>3, <1>4, Zenon DEF Halves, t

-----------------------------------------------------------------------------
\* What the queue tells of the tree.

Arrivals(d) == {half.path : half \in d}

\* The story leads from what the debouncer would show to the files, but for those
\* whose rename is half reported, and no lone half can still remove a file.
Account(s, q, last, G, files, d) ==
  /\ last \subseteq files /\ files \ Arrivals(d) \subseteq last
  /\ \E first \in SUBSET Path : Fits(s, first, G) /\ Story(first, q, last, G)
  /\ Halves(s.renames, q)
  /\ \A p \in files : Safe(s.renames, q, p, Len(q) + 1)
  /\ \A half \in d : /\ half.from \notin files /\ half.path \in files
                     /\ \A p \in Path : Left(s.renames, q, half.tracker, p, Len(q) + 1) => p = half.from

LEMMA AccountGrows ==
  ASSUME NEW s, NEW q, NEW last, NEW G, NEW H, NEW files, NEW d, G \subseteq H, Account(s, q, last, G, files, d)
  PROVE  Account(s, q, last, H, files, d)
<1>1. PICK first \in SUBSET Path : Fits(s, first, G) /\ Story(first, q, last, G)
  BY DEF Account
<1>2. Fits(s, first, H) /\ Story(first, q, last, H)
  BY <1>1, FitsGrows, StoryGrows
<1> QED BY <1>2 DEF Account

\* Emitting what has been quiet tells nothing new.
LEMMA AccountEmits ==
  ASSUME NEW s, NEW r, NEW q, NEW last, NEW G, NEW files, NEW d, Account(s, q, last, G, files, d),
         Ready(r, G), Near(View(r), View(s), G),
         \A id \in DOMAIN r.renames : id \in DOMAIN s.renames /\ r.renames[id].from = s.renames[id].from
  PROVE  Account(r, q, last, G, files, d)
<1>1. PICK first \in SUBSET Path : Fits(s, first, G) /\ Story(first, q, last, G)
  BY DEF Account
<1>2. Fits(r, first, G)
  BY <1>1 DEF Fits, Near
<1>3. Halves(r.renames, q)
  BY HalvesShrink DEF Account
<1>4. \A p \in files : Safe(r.renames, q, p, Len(q) + 1)
  BY SafeShrinks DEF Account
<1>5. \A id, p, i : Left(r.renames, q, id, p, i) => Left(s.renames, q, id, p, i)
  BY DEF Left
<1> QED BY <1>1, <1>2, <1>3, <1>4, <1>5 DEF Account

\* One more notification is queued.
LEMMA AccountAppend ==
  ASSUME NEW s, NEW q \in Seq(Messages), NEW m \in Messages, NEW last, NEW G,
         NEW files \in SUBSET Path, NEW d, NEW files2, NEW d2 \in SUBSET Seconds,
         Account(s, q, last, G, files, d), Legal(last, m, G),
         After(last, m) \subseteq files2, files2 \ Arrivals(d2) \subseteq After(last, m),
         \A id \in Tracker : Half(m, "RenamedFrom", id)
           => Unused(s.renames, q, id) /\ m.path \notin files2 /\ \A half \in d : half.tracker # id,
         \A p \in Path : Appearing(m, p) => Safe(s.renames, q, p, Len(q) + 1),
         \A p \in files2 : p \in files \/ Safe(s.renames, q, p, Len(q) + 1),
         \A half \in d2 : /\ half.from \notin files2 /\ half.path \in files2
                          /\ half \in d \/ (Half(m, "RenamedFrom", half.tracker) /\ m.path = half.from)
  PROVE  Account(s, Append(q, m), After(last, m), G, files2, d2)
<1> DEFINE t == Append(q, m)
<1>1. PICK first \in SUBSET Path : Fits(s, first, G) /\ Story(first, q, last, G)
  BY DEF Account
<1>2. last \in SUBSET Path
  BY DEF Account
<1>3. Story(first, t, After(last, m), G)
  BY <1>1, <1>2, StoryAppend
<1>4. Len(q) \in Nat /\ Len(t) + 1 = Len(q) + 2 /\ Len(q) + 2 \in 1..Len(q) + 2
  OBVIOUS
<1>5. Halves(s.renames, t)
  BY HalvesAppend DEF Account
<1>6. ASSUME NEW p \in files2 PROVE Safe(s.renames, t, p, Len(t) + 1)
  <2>1. Safe(s.renames, q, p, Len(q) + 1)
    BY <1>6 DEF Account
  <2> QED BY <1>4, <2>1, SafeAppend
<1>7. ASSUME NEW half \in d2, NEW p \in Path, Left(s.renames, t, half.tracker, p, Len(t) + 1) PROVE p = half.from
  <2>1. half.tracker \in Tracker
    BY DEF Seconds
  <2>2. \/ Left(s.renames, q, half.tracker, p, Len(q) + 1)
        \/ Half(m, "RenamedFrom", half.tracker) /\ m.path = p
    BY <1>4, <1>7, <2>1, LeftAppend
  <2>3. CASE half \in d
    <3>1. ~Half(m, "RenamedFrom", half.tracker)
      BY <2>1, <2>3
    <3> QED BY <2>2, <2>3, <3>1 DEF Account
  <2>4. CASE Half(m, "RenamedFrom", half.tracker) /\ m.path = half.from
    <3>1. Unused(s.renames, q, half.tracker)
      BY <2>1, <2>4
    <3>2. ~Left(s.renames, q, half.tracker, p, Len(q) + 1)
      BY <1>4, <3>1 DEF Unused, Left
    <3> QED BY <2>2, <2>4, <3>2
  <2> QED BY <2>3, <2>4
<1> HIDE DEF t
<1>8. Account(s, t, After(last, m), G, files2, d2)
  BY <1>1, <1>3, <1>5, <1>6, <1>7 DEF Account
<1> QED BY <1>8 DEF t

\* It tells that a file is there.
LEMMA Appeared ==
  ASSUME NEW s, NEW q \in Seq(Messages), NEW m \in Messages, NEW last, NEW G,
         NEW files \in SUBSET Path, NEW d \in SUBSET Seconds, Account(s, q, last, G, files, d),
         m.kind \in {"Created", "Modified", "RenamedTo", "OnlyTo"}, m.kind = "Created" => m.path \notin files,
         Safe(s.renames, q, m.path, Len(q) + 1), \A half \in d : half.from # m.path
  PROVE  Account(s, Append(q, m), After(last, m), G, files \cup {m.path}, d)
<1>1. Legal(last, m, G) /\ After(last, m) = last \cup {m.path}
  BY DEF Legal, After, Account
<1>2. \A id \in Tracker : ~Half(m, "RenamedFrom", id)
  BY DEF Half
<1>3. \A p \in Path : Appearing(m, p) => p = m.path
  BY DEF Appearing
<1>4. last \cup {m.path} \subseteq files \cup {m.path} /\ (files \cup {m.path}) \ Arrivals(d) \subseteq last \cup {m.path}
  BY DEF Account
<1>5. \A half \in d : half.from \notin files \cup {m.path} /\ half.path \in files \cup {m.path}
  BY DEF Account
<1> QED BY <1>1, <1>2, <1>3, <1>4, <1>5, AccountAppend

\* It tells that a file is gone.
LEMMA Vanished ==
  ASSUME NEW s, NEW q \in Seq(Messages), NEW m \in Messages, NEW last, NEW G,
         NEW files \in SUBSET Path, NEW d \in SUBSET Seconds, Account(s, q, last, G, files, d),
         m.kind \in {"Removed", "RenamedFrom", "OnlyFrom"},
         m.kind \in {"Removed", "RenamedFrom"} => m.path \in files, m.kind = "OnlyFrom" => m.path \in G,
         \A id \in Tracker : Half(m, "RenamedFrom", id)
           => Unused(s.renames, q, id) /\ \A half \in d : half.tracker # id,
         \A half \in d : half.path # m.path
  PROVE  Account(s, Append(q, m), After(last, m), G, files \ {m.path}, d)
<1>1. m.path \in files => m.path \in last
  BY DEF Account, Arrivals
<1>2. Legal(last, m, G) /\ After(last, m) = last \ {m.path}
  BY <1>1 DEF Legal, After
<1>3. \A p \in Path : ~Appearing(m, p)
  BY DEF Appearing
<1>4. last \ {m.path} \subseteq files \ {m.path} /\ (files \ {m.path}) \ Arrivals(d) \subseteq last \ {m.path}
  BY DEF Account
<1>5. \A half \in d : half.from \notin files \ {m.path} /\ half.path \in files \ {m.path}
  BY DEF Account
<1> QED BY <1>2, <1>3, <1>4, <1>5, AccountAppend

-----------------------------------------------------------------------------
\* The inductive invariants: what always holds, and what holds until a loss is known.

Shape ==
  /\ Typed(Debouncer) /\ raw \in Seq(Messages) /\ due \subseteq Seconds
  /\ disk \subseteq Path /\ guessed \subseteq Path
  /\ {rescan, stopping, running} \subseteq BOOLEAN

Faithful == \E last \in SUBSET Path : Account(Debouncer, raw, last, guessed, disk, due)

LEMMA DebouncerIs ==
  /\ Debouncer.pending = pending /\ Debouncer.renames = renames /\ Debouncer.shown = shown
  /\ Debouncer = [pending |-> pending, renames |-> renames, shown |-> shown]
BY DEF Debouncer

\* try_send: all that is queued is in the queue in order, or the loss is known.
LEMMA Forwarded ==
  ASSUME NEW messages \in Seq(Messages), raw \in Seq(Messages), Forward(messages)
  PROVE  raw' \in Seq(Messages) /\ rescan' \in BOOLEAN /\ (~rescan' => raw' = raw \o messages)
<1> DEFINE n == Fitting(messages)
           sent == SubSeq(messages, 1, n)
<1>1. Len(raw) \in Nat /\ Len(messages) \in Nat /\ RawCapacity \in Nat
  BY WatchAssumption
<1>2. n \in Int /\ n <= Len(messages)
  BY <1>1 DEF Fitting
<1> HIDE DEF n
<1>3. sent \in Seq(Messages)
  BY <1>1, <1>2
<1>4. ~(n < Len(messages)) => sent = messages
  <2> SUFFICES ASSUME ~(n < Len(messages)) PROVE sent = messages
    OBVIOUS
  <2>1. n = Len(messages)
    BY <1>1, <1>2
  <2> QED BY <2>1
<1>5. raw' = raw \o sent
  BY DEF Forward, n
<1>6. rescan' = (rescan \/ n < Len(messages))
  BY Zenon DEF Forward, n
<1>7. rescan' \in BOOLEAN
  BY <1>6, Zenon
<1>8. ~rescan' => ~(n < Len(messages))
  BY <1>6, Zenon
<1> HIDE DEF sent
<1>9. raw' \in Seq(Messages)
  BY <1>3, <1>5
<1> QED BY <1>4, <1>5, <1>7, <1>8, <1>9, Zenon

LEMMA ShapeInit == Init => Shape
<1> SUFFICES ASSUME Init PROVE Shape
  OBVIOUS
<1>1. Typed(Debouncer)
  <2>1. pending = Empty /\ renames = Empty /\ shown \subseteq Path
    BY DEF Init
  <2>2. Empty = [p \in DOMAIN Empty |-> Empty[p]] /\ DOMAIN Empty = {}
    BY DEF Empty
  <2> HIDE DEF Empty
  <2> QED BY <2>1, <2>2, DebouncerIs DEF Typed
<1>2. raw \in Seq(Messages) /\ due \subseteq Seconds /\ disk \subseteq Path /\ guessed \subseteq Path
  BY DEF Init
<1>3. {rescan, stopping, running} \subseteq BOOLEAN
  BY DEF Init
<1> QED BY <1>1, <1>2, <1>3, Zenon DEF Shape

\* What the actions of the system ask of their notifications.
LEMMA ChangesShape ==
  ASSUME Shape, NEW files \in SUBSET Path, NEW messages \in Seq(Messages), Changes(files, messages),
         due' \subseteq Seconds
  PROVE  Shape'
<1>1. raw' \in Seq(Messages) /\ rescan' \in BOOLEAN
  BY Forwarded, Zenon DEF Shape, Changes
<1>2. Debouncer' = Debouncer
  BY DEF Changes, Debouncer
<1>3. Typed(Debouncer')
  BY <1>2, Zenon DEF Shape
<1>4. disk' \subseteq Path /\ stopping' = stopping /\ running' = running
  BY DEF Changes
<1>5. {stopping', running'} \subseteq BOOLEAN
  BY <1>4 DEF Shape
<1>6. guessed' \subseteq Path
  <2>1. ASSUME NEW i \in DOMAIN messages, messages[i].kind = "OnlyFrom" PROVE messages[i].path \in Path
    <3>1. messages[i] \in Messages
      OBVIOUS
    <3> QED BY <2>1, <3>1, MessageIs DEF Kind
  <2>2. guessed' = guessed \cup Unclear(messages)
    BY DEF Changes
  <2> QED BY <2>1, <2>2 DEF Unclear, Shape
<1> QED BY <1>1, <1>3, <1>4, <1>5, <1>6 DEF Shape

LEMMA AboutIs ==
  ASSUME NEW kind \in Kind, NEW p \in Path, NEW id \in Tracker \cup {None}
  PROVE  /\ About(kind, p, id) \in Messages
         /\ About(kind, p, id).kind = kind /\ About(kind, p, id).path = p /\ About(kind, p, id).tracker = id
BY DEF About, Messages

LEMMA BothIs ==
  ASSUME NEW p \in Path, NEW q \in Path
  PROVE  Both(p, q) \in Messages /\ Both(p, q).kind = "RenamedBoth" /\ Both(p, q).from = p /\ Both(p, q).to = q
BY DEF Both, Messages

LEMMA LostIs == [kind |-> "Lost"] \in Messages /\ [kind |-> "Lost"].kind = "Lost"
BY DEF Messages

LEMMA KindIs == Kind = {"Created", "Modified", "Removed", "RenamedFrom", "RenamedTo", "OnlyFrom", "OnlyTo"}
BY DEF Kind, Change

\* Whatever happens to the tree is reported by notifications.
LEMMA SystemChanges ==
  ASSUME Shape, System
  PROVE  due' \subseteq Seconds /\ \E files \in SUBSET Path, messages \in Seq(Messages) : Changes(files, messages)
<1> DEFINE Reported == \E files \in SUBSET Path, messages \in Seq(Messages) : Changes(files, messages)
<1>1. /\ disk \in SUBSET Path /\ due \subseteq Seconds /\ None \in Tracker \cup {None}
      /\ \A p \in Path : disk \cup {p} \in SUBSET Path /\ disk \ {p} \in SUBSET Path
      /\ \A p, q \in Path : (disk \ {p}) \cup {q} \in SUBSET Path
  BY DEF Shape
<1>2. \A m, l \in Messages : <<m>> \in Seq(Messages) /\ <<m, l>> \in Seq(Messages)
  OBVIOUS
<1>3. /\ \A p \in Path, id \in Tracker \cup {None} :
           /\ About("Created", p, id) \in Messages /\ About("Modified", p, id) \in Messages
           /\ About("Removed", p, id) \in Messages /\ About("RenamedFrom", p, id) \in Messages
           /\ About("RenamedTo", p, id) \in Messages /\ About("OnlyFrom", p, id) \in Messages
           /\ About("OnlyTo", p, id) \in Messages
      /\ \A p, q \in Path : Both(p, q) \in Messages
      /\ [kind |-> "Lost"] \in Messages
  BY AboutIs, BothIs, LostIs, KindIs
<1>4. \A files \in SUBSET Path, m \in Messages : Changes(files, <<m>>) => Reported
  BY <1>2, Zenon
<1>5. \A files \in SUBSET Path, m, l \in Messages : Changes(files, <<m, l>>) => Reported
  BY <1>2, Zenon
<1> HIDE DEF Reported
<1> SUFFICES due' \subseteq Seconds /\ Reported
  BY DEF Reported
<1>6. CASE \E p \in Path : Create(p) \/ Write(p) \/ Delete(p)
  <2>1. PICK p \in Path : Create(p) \/ Write(p) \/ Delete(p)
    BY <1>6
  <2>2. due' = due
    BY <2>1, Zenon DEF Create, Write, Delete
  <2>3. Reported
    BY <1>1, <1>3, <1>4, <2>1, Zenon DEF Create, Write, Delete
  <2> QED BY <1>1, <2>2, <2>3
<1>7. ASSUME NEW p \in Path, NEW form \in Forms, NEW id \in Tracker, MoveOut(p, form, id)
      PROVE  due' \subseteq Seconds /\ Reported
  <2>1. form \in {"both", "any", "tracked", "untracked"} /\ id \in Tracker \cup {None}
    BY FormsAssumption
  <2>2. /\ due' = due
        /\ \/ Changes(disk \ {p}, <<About("OnlyFrom", p, None)>>)
           \/ Changes(disk \ {p}, <<About("RenamedFrom", p, None)>>)
           \/ Changes(disk \ {p}, <<About("RenamedFrom", p, id)>>)
           \/ Changes(disk \ {p}, <<About("RenamedFrom", p, id), About("OnlyFrom", p, None)>>)
    BY <1>7, <2>1 DEF MoveOut
  <2>3. Reported
    BY <1>1, <1>3, <1>4, <1>5, <2>1, <2>2
  <2> QED BY <1>1, <2>2, <2>3
<1>8. ASSUME NEW p \in Path, NEW form \in Forms, NEW id \in Tracker, MoveIn(p, form, id)
      PROVE  due' \subseteq Seconds /\ Reported
  <2>1. form \in {"both", "any", "tracked", "untracked"} /\ id \in Tracker \cup {None}
    BY FormsAssumption
  <2>2. /\ due' = due
        /\ \/ Changes(disk \cup {p}, <<About("OnlyTo", p, None)>>)
           \/ Changes(disk \cup {p}, <<About("RenamedTo", p, None)>>)
           \/ Changes(disk \cup {p}, <<About("RenamedTo", p, id)>>)
           \/ Changes(disk \cup {p}, <<About("RenamedTo", p, id), About("OnlyTo", p, None)>>)
    BY <1>8, <2>1 DEF MoveIn
  <2>3. Reported
    BY <1>1, <1>3, <1>4, <1>5, <2>1, <2>2
  <2> QED BY <1>1, <2>2, <2>3
<1>9. ASSUME NEW p \in Path, NEW q \in Path, NEW form \in Forms, NEW id \in Tracker, Rename(p, q, form, id)
      PROVE  due' \subseteq Seconds /\ Reported
  <2> DEFINE files == (disk \ {p}) \cup {q}
             half == [from |-> p, path |-> q, tracker |-> id]
  <2>1. form \in {"both", "any", "tracked", "untracked"} /\ id \in Tracker \cup {None}
    BY FormsAssumption
  <2>2. half \in Seconds
    BY DEF Seconds
  <2> HIDE DEF half
  <2>3. /\ due' = due \/ due' = due \cup {half}
        /\ \/ Changes(files, <<Both(p, q)>>)
           \/ Changes(files, <<About("OnlyFrom", p, None), About("OnlyTo", q, None)>>)
           \/ Changes(files, <<About("RenamedFrom", p, None), About("RenamedTo", q, None)>>)
           \/ Changes(files, <<About("RenamedFrom", p, id)>>)
    BY <1>9, <2>1 DEF Rename, half
  <2>4. files \in SUBSET Path
    BY <1>1
  <2> HIDE DEF files
  <2>5. Reported
    BY <1>1, <1>3, <1>4, <1>5, <2>1, <2>3, <2>4
  <2> QED BY <1>1, <2>2, <2>3, <2>5
<1>10. ASSUME NEW half \in due, SecondHalf(half) PROVE due' \subseteq Seconds /\ Reported
  <2>1. half.from \in Path /\ half.path \in Path /\ half.tracker \in Tracker \cup {None}
    BY <1>1 DEF Seconds
  <2>2. /\ due' = due \ {half}
        /\ \/ Changes(disk, <<About("RenamedTo", half.path, half.tracker)>>)
           \/ Changes(disk, <<About("RenamedTo", half.path, half.tracker), Both(half.from, half.path)>>)
    BY <1>10 DEF SecondHalf
  <2>3. Reported
    BY <1>1, <1>3, <1>4, <1>5, <2>1, <2>2
  <2> QED BY <1>1, <2>2, <2>3
<1>11. ASSUME SystemLoses PROVE due' \subseteq Seconds /\ Reported
  <2>1. due' = due /\ Changes(disk, <<[kind |-> "Lost"]>>)
    BY <1>11 DEF SystemLoses
  <2>2. Reported
    BY <1>1, <1>3, <1>4, <2>1, Zenon
  <2> QED BY <1>1, <2>1, <2>2
<1> QED BY <1>6, <1>7, <1>8, <1>9, <1>10, <1>11, Zenon DEF System

-----------------------------------------------------------------------------
\* Time passes.

Aged(s) == [pending |-> [p \in DOMAIN s.pending |-> Older(s.pending[p])],
            renames |-> [id \in DOMAIN s.renames |-> Older(s.renames[id])],
            shown   |-> s.shown]

LEMMA OlderIs ==
  /\ \A e \in [change : Change, age : 0..Window] :
       /\ Older(e) \in [change : Change, age : 0..Window]
       /\ Older(e).change = e.change /\ Older(e).age = IF e.age < Window THEN e.age + 1 ELSE e.age
  /\ \A e \in [from : Path, age : 0..Window] :
       /\ Older(e) \in [from : Path, age : 0..Window]
       /\ Older(e).from = e.from /\ Older(e).age = IF e.age < Window THEN e.age + 1 ELSE e.age
BY WatchAssumption DEF Older

LEMMA AgedIs ==
  ASSUME NEW s, Typed(s)
  PROVE  LET r == Aged(s)
         IN  /\ Typed(r) /\ r.shown = s.shown
             /\ DOMAIN r.pending = DOMAIN s.pending /\ DOMAIN r.renames = DOMAIN s.renames
             /\ \A p \in DOMAIN s.pending : r.pending[p] = Older(s.pending[p])
             /\ \A id \in DOMAIN s.renames : r.renames[id] = Older(s.renames[id])
<1> DEFINE held == [p \in DOMAIN s.pending |-> Older(s.pending[p])]
           halves == [id \in DOMAIN s.renames |-> Older(s.renames[id])]
           r == Aged(s)
<1>1. r = [pending |-> held, renames |-> halves, shown |-> s.shown]
  BY Zenon DEF Aged
<1>2. /\ held = [x \in DOMAIN held |-> held[x]] /\ DOMAIN held = DOMAIN s.pending
      /\ \A x \in DOMAIN s.pending : held[x] = Older(s.pending[x])
      /\ halves = [x \in DOMAIN halves |-> halves[x]] /\ DOMAIN halves = DOMAIN s.renames
      /\ \A x \in DOMAIN s.renames : halves[x] = Older(s.renames[x])
  OBVIOUS
<1> HIDE DEF held, halves, r
<1>3. r.pending = held /\ r.renames = halves /\ r.shown = s.shown
  BY <1>1
<1>4. /\ \A x \in DOMAIN held : held[x] \in [change : Change, age : 0..Window]
      /\ \A x \in DOMAIN halves : halves[x] \in [from : Path, age : 0..Window]
  BY <1>2, OlderIs, Zenon DEF Typed
<1>5. DOMAIN held \subseteq Path /\ DOMAIN halves \subseteq Tracker /\ s.shown \subseteq Path
  BY <1>2 DEF Typed
<1>6. Typed(r)
  BY <1>1, <1>2, <1>3, <1>4, <1>5, Zenon DEF Typed
<1> QED BY <1>2, <1>3, <1>6, Zenon DEF r

\* Growing older changes nothing that is to be shown, nor what is emitted first.
LEMMA AgedViews ==
  ASSUME NEW G, NEW s, Typed(s), Ready(s, G)
  PROVE  LET r == Aged(s)
         IN  /\ Ready(r, G) /\ View(r) = View(s)
             /\ \A id \in DOMAIN r.renames : id \in DOMAIN s.renames /\ r.renames[id].from = s.renames[id].from
<1> DEFINE r == Aged(s)
<1>1. /\ r.shown = s.shown
      /\ DOMAIN r.pending = DOMAIN s.pending /\ DOMAIN r.renames = DOMAIN s.renames
      /\ \A p \in DOMAIN s.pending : r.pending[p] = Older(s.pending[p])
      /\ \A id \in DOMAIN s.renames : r.renames[id] = Older(s.renames[id])
  BY AgedIs, Zenon
<1> HIDE DEF r
<1>2. /\ \A p \in DOMAIN s.pending :
           /\ r.pending[p].change = s.pending[p].change
           /\ r.pending[p].age = IF s.pending[p].age < Window THEN s.pending[p].age + 1 ELSE s.pending[p].age
           /\ s.pending[p].age \in 0..Window
      /\ \A id \in DOMAIN s.renames :
           /\ r.renames[id].from = s.renames[id].from
           /\ r.renames[id].age = IF s.renames[id].age < Window THEN s.renames[id].age + 1 ELSE s.renames[id].age
           /\ s.renames[id].age \in 0..Window
  BY <1>1, OlderIs DEF Typed
<1>3. ASSUME NEW x PROVE x \in View(r) <=> x \in View(s)
  <2>1. /\ x \in View(s) <=> /\ IF x \in DOMAIN s.pending THEN Present(s.pending[x].change) ELSE x \in s.shown
                             /\ \A id \in DOMAIN s.renames : s.renames[id].from # x
        /\ x \in View(r) <=> /\ IF x \in DOMAIN r.pending THEN Present(r.pending[x].change) ELSE x \in r.shown
                             /\ \A id \in DOMAIN r.renames : r.renames[id].from # x
    BY Seen
  <2> QED BY <1>1, <1>2, <2>1
<1>4. Ready(r, G)
  <2>1. ASSUME NEW p \in DOMAIN r.pending, r.pending[p].change = "Created" PROVE p \notin r.shown \/ p \in G
    BY <1>1, <1>2, <2>1 DEF Ready
  <2>2. ASSUME NEW id \in DOMAIN r.renames, r.renames[id].from \in DOMAIN r.pending
        PROVE  r.renames[id].age <= r.pending[r.renames[id].from].age \/ r.renames[id].from \in G
    <3> DEFINE p == s.renames[id].from
    <3>1. id \in DOMAIN s.renames /\ p \in DOMAIN s.pending /\ r.renames[id].from = p
      BY <1>1, <1>2, <2>2
    <3>2. s.renames[id].age <= s.pending[p].age \/ p \in G
      BY <3>1 DEF Ready
    <3>3. r.renames[id].age = IF s.renames[id].age < Window THEN s.renames[id].age + 1 ELSE s.renames[id].age
      BY <1>2, <3>1
    <3>4. r.pending[p].age = IF s.pending[p].age < Window THEN s.pending[p].age + 1 ELSE s.pending[p].age
      BY <1>2, <3>1
    <3>5. s.renames[id].age \in 0..Window /\ s.pending[p].age \in 0..Window
      BY <1>2, <3>1
    <3> QED BY <3>1, <3>2, <3>3, <3>4, <3>5, WatchAssumption
  <2> QED BY <2>1, <2>2 DEF Ready
<1>5. View(r) = View(s)
  BY <1>3
<1> QED BY <1>1, <1>2, <1>4, <1>5 DEF r

LEMMA AgesIs ==
  ASSUME Shape, Ages
  PROVE  Debouncer' = Aged(Debouncer)
<1>1. Debouncer' = [pending |-> pending', renames |-> renames', shown |-> shown']
  BY DEF Debouncer
<1>2. /\ pending' = [p \in DOMAIN pending |-> Older(pending[p])]
      /\ renames' = [id \in DOMAIN renames |-> Older(renames[id])]
      /\ shown' = shown
  BY DEF Ages
<1> QED BY <1>1, <1>2, DebouncerIs, Zenon DEF Aged

-----------------------------------------------------------------------------
\* The iterations of the debounce thread.

Emitted(s) == IF stopping THEN FlushAll(Flush(s)) ELSE Flush(s)

LEMMA EmittedTyped ==
  ASSUME NEW s, Typed(s)
  PROVE  Typed(Emitted(s))
BY FlushTyped, Zenon DEF Emitted

LEMMA EmittedViews ==
  ASSUME NEW G, NEW s, Typed(s), Ready(s, G)
  PROVE  LET r == Emitted(s)
         IN  /\ Ready(r, G) /\ Near(View(r), View(s), G)
             /\ \A id \in DOMAIN r.renames : id \in DOMAIN s.renames /\ r.renames[id] = s.renames[id]
<1> DEFINE f == Flush(s)
           g == FlushAll(f)
<1>1. Typed(f) /\ Ready(f, G) /\ Near(View(f), View(s), G) /\ DOMAIN f.renames \subseteq DOMAIN s.renames
      /\ \A id \in DOMAIN f.renames : f.renames[id] = s.renames[id]
  BY FlushViews, Zenon
<1> HIDE DEF f
<1>2. Ready(g, G) /\ Near(View(g), View(f), G) /\ DOMAIN g.renames = {}
  BY <1>1, FlushAllViews, Zenon
<1> HIDE DEF g
<1>3. CASE stopping
  <2>1. Emitted(s) = g
    BY <1>3 DEF Emitted, f, g
  <2>2. Near(View(g), View(s), G)
    BY <1>1, <1>2 DEF Near
  <2> QED BY <1>2, <2>1, <2>2
<1>4. CASE ~stopping
  <2>1. Emitted(s) = f
    BY <1>4 DEF Emitted, f
  <2> QED BY <1>1, <2>1
<1> QED BY <1>3, <1>4

LEMMA BecomesIs ==
  ASSUME NEW s, Typed(s), Becomes(s)
  PROVE  Debouncer' = s
<1>1. s = [pending |-> s.pending, renames |-> s.renames, shown |-> s.shown]
  BY DEF Typed
<1>2. pending' = s.pending /\ renames' = s.renames /\ shown' = s.shown
  BY DEF Becomes
<1> QED BY <1>1, <1>2, Zenon DEF Debouncer

LEMMA IteratedIs ==
  ASSUME NEW s, Typed(s), Iterated(s), Shape
  PROVE  /\ Debouncer' = Emitted(s) /\ Typed(Debouncer')
         /\ disk' = disk /\ due' = due /\ stopping' = stopping /\ {stopping', running'} \subseteq BOOLEAN
<1>1. Becomes(Emitted(s)) /\ disk' = disk /\ due' = due /\ stopping' = stopping /\ running' = ~stopping
  BY DEF Iterated, Emitted
<1>2. Typed(Emitted(s))
  BY EmittedTyped
<1>3. Debouncer' = Emitted(s)
  BY <1>1, <1>2, BecomesIs
<1>4. stopping \in BOOLEAN /\ running' \in BOOLEAN
  BY <1>1, Zenon DEF Shape
<1>5. {stopping', running'} \subseteq BOOLEAN
  BY <1>1, <1>4
<1> QED BY <1>1, <1>2, <1>3, <1>5

\* What folding a notification does, with the notification and the records
\* it leaves named.
LEMMA FoldIs ==
  ASSUME Fold
  PROVE  /\ raw # <<>> /\ raw' = Tail(raw) /\ rescan' = (rescan \/ Head(raw).kind = "Lost")
         /\ guessed' = guessed \cup Mistaken(Debouncer, Head(raw))
         /\ Iterated(Record(Debouncer, Head(raw)))
<1>1. PICK s \in {Record(Debouncer, Head(raw))} : Iterated(s)
  BY Zenon DEF Fold
<1>2. Iterated(Record(Debouncer, Head(raw)))
  BY <1>1, Zenon
<1> QED BY <1>2, Zenon DEF Fold

LEMMA ShapeNext == Shape /\ [Next]_vars => Shape'
<1> SUFFICES ASSUME Shape, [Next]_vars PROVE Shape'
  OBVIOUS
<1>1. ASSUME System PROVE Shape'
  <2>1. PICK files \in SUBSET Path, messages \in Seq(Messages) : Changes(files, messages)
    BY <1>1, SystemChanges
  <2>2. due' \subseteq Seconds
    BY <1>1, SystemChanges
  <2> QED BY <2>1, <2>2, ChangesShape
<1>2. ASSUME Ages PROVE Shape'
  <2>1. Typed(Debouncer')
    BY <1>2, AgesIs, AgedIs, Zenon DEF Shape
  <2> QED BY <1>2, <2>1 DEF Shape, Ages, queues, flags
<1>3. ASSUME Fold PROVE Shape'
  <2> DEFINE m == Head(raw)
  <2>1. raw # <<>> /\ raw \in Seq(Messages) /\ Typed(Debouncer)
    BY <1>3 DEF Fold, Shape
  <2>2. m \in Messages /\ Tail(raw) \in Seq(Messages)
    BY <2>1
  <2>3. /\ raw' = Tail(raw) /\ rescan' = (rescan \/ m.kind = "Lost")
        /\ guessed' = guessed \cup Mistaken(Debouncer, m) /\ Iterated(Record(Debouncer, m))
    BY <1>3, FoldIs, Zenon
  <2> HIDE DEF m
  <2>4. rescan' \in BOOLEAN
    BY <2>3, Zenon
  <2>5. Typed(Record(Debouncer, m))
    BY <2>1, <2>2, RecordTyped
  <2>6. Typed(Debouncer') /\ disk' = disk /\ due' = due /\ {stopping', running'} \subseteq BOOLEAN
    BY <2>3, <2>5, IteratedIs, Zenon
  <2>7. guessed' \subseteq Path
    <3>1. m.kind = "RenamedTo" => m.path \in Path
      BY <2>2, MessageIs DEF Kind
    <3> QED BY <2>3, <3>1 DEF Mistaken, Shape
  <2> QED BY <2>2, <2>3, <2>4, <2>6, <2>7 DEF Shape
<1>4. ASSUME Idle PROVE Shape'
  <2>1. Iterated(Debouncer) /\ raw' = raw /\ guessed' = guessed /\ rescan' = rescan /\ Typed(Debouncer)
    BY <1>4 DEF Idle, Shape
  <2>2. Typed(Debouncer') /\ disk' = disk /\ due' = due /\ {stopping', running'} \subseteq BOOLEAN
    BY <2>1, IteratedIs, Zenon
  <2> QED BY <2>1, <2>2 DEF Shape
<1>5. ASSUME Stop PROVE Shape'
  <2>1. Debouncer' = Debouncer /\ disk' = disk /\ due' = due /\ raw' = raw /\ guessed' = guessed
    BY <1>5 DEF Stop, queues, Debouncer
  <2>2. {rescan', stopping', running'} \subseteq BOOLEAN
    BY <1>5 DEF Stop, Shape
  <2> QED BY <2>1, <2>2 DEF Shape
<1>6. ASSUME UNCHANGED vars PROVE Shape'
  <2>1. Debouncer' = Debouncer /\ disk' = disk /\ due' = due /\ raw' = raw /\ guessed' = guessed
    BY <1>6 DEF vars, Debouncer
  <2>2. {rescan', stopping', running'} \subseteq BOOLEAN
    BY <1>6 DEF vars, Shape
  <2> QED BY <2>1, <2>2 DEF Shape
<1> QED BY <1>1, <1>2, <1>3, <1>4, <1>5, <1>6 DEF Next

\* What is held of a path, and what is shown, is of the watched files, whatever the
\* operating system reports (Debouncer::record, flush).
THEOREM TypeCorrect == Spec => []TypeOK
<1>1. Shape => TypeOK
  <2> SUFFICES ASSUME Shape PROVE TypeOK
    OBVIOUS
  <2>1. Typed(Debouncer) /\ disk \subseteq Path /\ guessed \subseteq Path /\ {rescan, stopping, running} \subseteq BOOLEAN
    BY DEF Shape
  <2> QED BY <2>1, DebouncerIs, Zenon DEF Typed, TypeOK
<1> QED BY <1>1, ShapeInit, ShapeNext, PTL DEF Spec

-----------------------------------------------------------------------------
\* The notifications of the system continue the story.

\* Where nothing is locked, and no lone half left, a file may appear.
LEMMA SafeNow ==
  ASSUME Shape, NEW last, NEW G, Account(Debouncer, raw, last, G, disk, due),
         NEW p \in Path, Unlocked(p), ~MovedOut(p)
  PROVE  Safe(Debouncer.renames, raw, p, Len(raw) + 1)
<1> SUFFICES ASSUME NEW id \in Tracker, Left(Debouncer.renames, raw, id, p, Len(raw) + 1)
             PROVE  \E j \in 1..(Len(raw) + 1) - 1 : Half(raw[j], "RenamedTo", id)
  BY DEF Safe
<1>1. raw \in Seq(Messages) /\ Len(raw) \in Nat /\ DOMAIN raw = 1..Len(raw) /\ (Len(raw) + 1) - 1 = Len(raw)
  BY DEF Shape
<1>2. Debouncer.renames = renames
  BY DebouncerIs
<1>3. Answered(id)
  <2>1. CASE id \in DOMAIN renames /\ renames[id].from = p
    BY <2>1, Zenon DEF MovedOut
  <2>2. CASE \E k \in 1..(Len(raw) + 1) - 1 : Half(raw[k], "RenamedFrom", id) /\ raw[k].path = p
    <3>1. PICK k \in DOMAIN raw : Half(raw[k], "RenamedFrom", id) /\ raw[k].path = p
      BY <1>1, <2>2
    <3>2. raw[k].kind = "RenamedFrom" /\ raw[k].tracker = id /\ id # None /\ raw[k] \in Range(raw)
      BY <3>1, TrackerAssumption DEF Half, None, Range
    <3> QED BY <3>1, <3>2 DEF MovedOut
  <2> QED BY <1>2, <2>1, <2>2, Zenon DEF Left
<1>4. ~\E half \in due : half.tracker = id
  BY DEF Account, Unlocked
<1>5. PICK j \in DOMAIN raw : raw[j].kind = "RenamedTo" /\ raw[j].tracker = id
  BY <1>3, <1>4 DEF Answered, Range
<1> QED BY <1>1, <1>5 DEF Half

LEMMA FreshIs ==
  ASSUME Shape, NEW id, Fresh(id)
  PROVE  Unused(Debouncer.renames, raw, id) /\ \A half \in due : half.tracker # id
<1>1. \A j \in 1..Len(raw) : raw[j] \in Range(raw)
  BY DEF Shape, Range
<1> QED BY <1>1, DebouncerIs DEF Fresh, Answered, Unused, Half

\* One notification, or two, are in the queue; their guesses are known.
LEMMA ChangesIs ==
  ASSUME Shape, NEW files, NEW messages \in Seq(Messages), Changes(files, messages), ~rescan'
  PROVE  /\ Debouncer' = Debouncer /\ disk' = files /\ raw' = raw \o messages
         /\ guessed \subseteq guessed'
         /\ \A i \in DOMAIN messages : messages[i].kind = "OnlyFrom" => messages[i].path \in guessed'
<1>1. raw \in Seq(Messages) /\ Forward(messages)
  BY DEF Shape, Changes
<1>2. raw' = raw \o messages
  BY <1>1, Forwarded, Zenon
<1> QED BY <1>2 DEF Changes, Debouncer, Unclear

LEMMA OneMore ==
  ASSUME Shape, NEW files, NEW m \in Messages, Changes(files, <<m>>), ~rescan'
  PROVE  /\ Debouncer' = Debouncer /\ disk' = files /\ raw' = Append(raw, m)
         /\ m.kind = "OnlyFrom" => m.path \in guessed'
<1> DEFINE messages == <<m>>
<1>1. messages \in Seq(Messages) /\ 1 \in DOMAIN messages /\ messages[1] = m
  OBVIOUS
<1>2. raw \o messages = Append(raw, m)
  BY DEF Shape
<1> HIDE DEF messages
<1>3. Changes(files, messages)
  BY DEF messages
<1> QED BY <1>1, <1>2, <1>3, ChangesIs

LEMMA TwoMore ==
  ASSUME Shape, NEW files, NEW m \in Messages, NEW l \in Messages, Changes(files, <<m, l>>), ~rescan'
  PROVE  /\ Debouncer' = Debouncer /\ disk' = files /\ raw' = Append(Append(raw, m), l)
         /\ m.kind = "OnlyFrom" => m.path \in guessed'
         /\ l.kind = "OnlyFrom" => l.path \in guessed'
<1> DEFINE messages == <<m, l>>
<1>1. messages \in Seq(Messages) /\ {1, 2} \subseteq DOMAIN messages /\ messages[1] = m /\ messages[2] = l
  OBVIOUS
<1>2. raw \o messages = Append(Append(raw, m), l)
  BY DEF Shape
<1> HIDE DEF messages
<1>3. Changes(files, messages)
  BY DEF messages
<1> QED BY <1>1, <1>2, <1>3, ChangesIs

LEMMA FaithfulNow ==
  ASSUME NEW last \in SUBSET Path, Debouncer' = Debouncer, Account(Debouncer, raw', last, guessed', disk', due')
  PROVE  Faithful'
BY DEF Faithful

\* The changes of one path.
LEMMA PathFaithful ==
  ASSUME Shape, ~Backups, ~rescan', NEW last \in SUBSET Path,
         Account(Debouncer, raw, last, guessed', disk, due),
         NEW p \in Path, Create(p) \/ Write(p) \/ Delete(p)
  PROVE  Faithful'
<1>1. raw \in Seq(Messages) /\ disk \in SUBSET Path /\ due \in SUBSET Seconds /\ None \in Tracker \cup {None}
  BY DEF Shape
<1>2. \A id \in Tracker : id # None
  BY TrackerAssumption DEF None
<1>3. CASE Create(p)
  <2> DEFINE m == About("Created", p, None)
  <2>1. m \in Messages /\ m.kind = "Created" /\ m.path = p
    BY <1>1, AboutIs, KindIs
  <2>2. p \notin disk /\ Unlocked(p) /\ ~MovedOut(p) /\ due' = due /\ Changes(disk \cup {p}, <<m>>)
    BY <1>3 DEF Create, Appears
  <2> HIDE DEF m
  <2>3. Debouncer' = Debouncer /\ disk' = disk \cup {p} /\ raw' = Append(raw, m)
    BY <2>1, <2>2, OneMore
  <2>4. Safe(Debouncer.renames, raw, p, Len(raw) + 1)
    BY <2>2, SafeNow
  <2>5. \A half \in due : half.from # p
    BY <2>2 DEF Unlocked
  <2>6. Account(Debouncer, Append(raw, m), After(last, m), guessed', disk \cup {m.path}, due)
    BY <1>1, <2>1, <2>2, <2>4, <2>5, Appeared
  <2>7. After(last, m) \in SUBSET Path
    BY <2>1, AfterIn
  <2> QED BY <2>1, <2>2, <2>3, <2>6, <2>7, FaithfulNow
<1>4. CASE Write(p)
  <2> DEFINE m == About("Modified", p, None)
  <2>1. m \in Messages /\ m.kind = "Modified" /\ m.path = p
    BY <1>1, AboutIs, KindIs
  <2>2. p \in disk /\ disk = disk \cup {p} /\ due' = due /\ Changes(disk, <<m>>)
    BY <1>4 DEF Write
  <2> HIDE DEF m
  <2>3. Debouncer' = Debouncer /\ disk' = disk /\ raw' = Append(raw, m)
    BY <2>1, <2>2, OneMore
  <2>4. Safe(Debouncer.renames, raw, p, Len(raw) + 1) /\ \A half \in due : half.from # p
    BY <2>2 DEF Account
  <2>5. Account(Debouncer, Append(raw, m), After(last, m), guessed', disk \cup {m.path}, due)
    BY <1>1, <2>1, <2>4, Appeared
  <2>6. After(last, m) \in SUBSET Path
    BY <2>1, AfterIn
  <2> QED BY <2>1, <2>2, <2>3, <2>5, <2>6, FaithfulNow
<1>5. CASE Delete(p)
  <2> DEFINE m == About("Removed", p, None)
  <2>1. m \in Messages /\ m.kind = "Removed" /\ m.path = p
    BY <1>1, AboutIs, KindIs
  <2>2. p \in disk /\ Unlocked(p) /\ due' = due /\ Changes(disk \ {p}, <<m>>)
    BY <1>5 DEF Delete
  <2> HIDE DEF m
  <2>3. Debouncer' = Debouncer /\ disk' = disk \ {p} /\ raw' = Append(raw, m)
    BY <2>1, <2>2, OneMore
  <2>4. (\A half \in due : half.path # p) /\ \A id \in Tracker : ~Half(m, "RenamedFrom", id)
    BY <2>1, <2>2 DEF Unlocked, Half
  <2>5. Account(Debouncer, Append(raw, m), After(last, m), guessed', disk \ {m.path}, due)
    BY <1>1, <2>1, <2>2, <2>4, Vanished
  <2>6. After(last, m) \in SUBSET Path
    BY <2>1, AfterIn
  <2> QED BY <2>1, <2>2, <2>3, <2>5, <2>6, FaithfulNow
<1> QED BY <1>3, <1>4, <1>5

\* A file is moved out of the tree.
LEMMA OutFaithful ==
  ASSUME Shape, ~rescan', NEW last \in SUBSET Path, Account(Debouncer, raw, last, guessed', disk, due),
         NEW p \in Path, NEW form \in Forms, NEW id \in Tracker, MoveOut(p, form, id)
  PROVE  Faithful'
<1>1. raw \in Seq(Messages) /\ disk \in SUBSET Path /\ due \in SUBSET Seconds /\ {id, None} \subseteq Tracker \cup {None}
  BY DEF Shape
<1>2. \A x \in Tracker : x # None
  BY TrackerAssumption DEF None
<1> DEFINE bare == About("RenamedFrom", p, None)
           first == About("RenamedFrom", p, id)
           left == About("OnlyFrom", p, None)
<1>3. /\ bare \in Messages /\ bare.kind = "RenamedFrom" /\ bare.path = p /\ bare.tracker = None
      /\ first \in Messages /\ first.kind = "RenamedFrom" /\ first.path = p /\ first.tracker = id
      /\ left \in Messages /\ left.kind = "OnlyFrom" /\ left.path = p
  BY <1>1, AboutIs, KindIs
<1>4. /\ p \in disk /\ Unlocked(p) /\ due' = due
      /\ \/ Changes(disk \ {p}, <<left>>)
         \/ Changes(disk \ {p}, <<bare>>)
         \/ Fresh(id) /\ Changes(disk \ {p}, <<first>>)
         \/ Fresh(id) /\ Changes(disk \ {p}, <<first, left>>)
  <2>1. form \in {"both", "any", "tracked", "untracked"}
    BY FormsAssumption
  <2> QED BY <2>1 DEF MoveOut
<1> HIDE DEF bare, first, left
<1>5. \A half \in due : half.path # p
  BY <1>4 DEF Unlocked
\* One half, or one event.
<1>6. ASSUME NEW m \in {bare, first, left}, m = first => Fresh(id), m.kind = "OnlyFrom" => p \in guessed'
      PROVE  Account(Debouncer, Append(raw, m), After(last, m), guessed', disk \ {p}, due)
  <2>1. m \in Messages /\ m.path = p /\ m.kind \in {"RenamedFrom", "OnlyFrom"}
    BY <1>3
  <2>2. ASSUME NEW x \in Tracker, Half(m, "RenamedFrom", x)
        PROVE  Unused(Debouncer.renames, raw, x) /\ \A half \in due : half.tracker # x
    <3>1. m = first /\ x = id
      BY <1>2, <1>3, <2>2 DEF Half
    <3> QED BY <1>6, <3>1, FreshIs
  <2> QED BY <1>1, <1>4, <1>5, <1>6, <2>1, <2>2, Vanished
<1>7. ASSUME NEW m \in {bare, first, left}, m = first => Fresh(id), Changes(disk \ {p}, <<m>>)
      PROVE  Faithful'
  <2>1. m \in Messages /\ m.path = p
    BY <1>3
  <2>2. /\ Debouncer' = Debouncer /\ disk' = disk \ {p} /\ raw' = Append(raw, m)
        /\ m.kind = "OnlyFrom" => p \in guessed'
    BY <1>7, <2>1, OneMore
  <2>3. Account(Debouncer, raw', After(last, m), guessed', disk', due')
    BY <1>4, <1>6, <1>7, <2>2
  <2>4. After(last, m) \in SUBSET Path
    BY <2>1, AfterIn
  <2> QED BY <2>2, <2>3, <2>4, FaithfulNow
\* A half that is confirmed by an event of its own.
<1>8. ASSUME Fresh(id), Changes(disk \ {p}, <<first, left>>) PROVE Faithful'
  <2>1. Debouncer' = Debouncer /\ disk' = disk \ {p} /\ raw' = Append(Append(raw, first), left) /\ p \in guessed'
    BY <1>3, <1>8, TwoMore
  <2> DEFINE q == Append(raw, first)
             then == After(last, first)
  <2>2. Account(Debouncer, q, then, guessed', disk \ {p}, due)
    BY <1>3, <1>6, <1>8
  <2>3. q \in Seq(Messages) /\ then \in SUBSET Path
    BY <1>1, <1>3, AfterIn
  <2> HIDE DEF q, then
  <2>4. \A x \in Tracker : ~Half(left, "RenamedFrom", x)
    BY <1>3 DEF Half
  <2>5. Account(Debouncer, Append(q, left), After(then, left), guessed', (disk \ {p}) \ {left.path}, due)
    BY <1>1, <1>3, <1>5, <2>1, <2>2, <2>3, <2>4, Vanished
  <2>6. After(then, left) \in SUBSET Path
    BY <1>3, <2>3, AfterIn
  <2>7. (disk \ {p}) \ {left.path} = disk'
    BY <1>3, <2>1
  <2> QED BY <1>4, <2>1, <2>5, <2>6, <2>7, FaithfulNow DEF q
<1>9. left # first /\ bare # first
  BY <1>2, <1>3
<1> QED BY <1>4, <1>7, <1>8, <1>9

\* A file is moved into the tree.
LEMMA InFaithful ==
  ASSUME Shape, ~Backups, ~rescan', NEW last \in SUBSET Path,
         Account(Debouncer, raw, last, guessed', disk, due),
         NEW p \in Path, NEW form \in Forms, NEW id \in Tracker, MoveIn(p, form, id)
  PROVE  Faithful'
<1>1. raw \in Seq(Messages) /\ disk \in SUBSET Path /\ due \in SUBSET Seconds /\ {id, None} \subseteq Tracker \cup {None}
  BY DEF Shape
<1> DEFINE bare == About("RenamedTo", p, None)
           second == About("RenamedTo", p, id)
           come == About("OnlyTo", p, None)
<1>2. /\ bare \in Messages /\ bare.kind = "RenamedTo" /\ bare.path = p
      /\ second \in Messages /\ second.kind = "RenamedTo" /\ second.path = p
      /\ come \in Messages /\ come.kind = "OnlyTo" /\ come.path = p
  BY <1>1, AboutIs, KindIs
<1>3. /\ Unlocked(p) /\ ~MovedOut(p) /\ due' = due
      /\ \/ Changes(disk \cup {p}, <<come>>)
         \/ Changes(disk \cup {p}, <<bare>>)
         \/ Changes(disk \cup {p}, <<second>>)
         \/ Changes(disk \cup {p}, <<second, come>>)
  <2>1. form \in {"both", "any", "tracked", "untracked"}
    BY FormsAssumption
  <2> QED BY <2>1 DEF MoveIn, Appears
<1> HIDE DEF bare, second, come
<1>4. \A half \in due : half.from # p
  BY <1>3 DEF Unlocked
<1>5. Safe(Debouncer.renames, raw, p, Len(raw) + 1)
  BY <1>3, SafeNow
<1>6. ASSUME NEW m \in {bare, second, come}
      PROVE  Account(Debouncer, Append(raw, m), After(last, m), guessed', disk \cup {p}, due)
  <2>1. m \in Messages /\ m.path = p /\ m.kind \in {"RenamedTo", "OnlyTo"}
    BY <1>2
  <2> QED BY <1>1, <1>4, <1>5, <2>1, Appeared
<1>7. ASSUME NEW m \in {bare, second, come}, Changes(disk \cup {p}, <<m>>) PROVE Faithful'
  <2>1. m \in Messages
    BY <1>2
  <2>2. Debouncer' = Debouncer /\ disk' = disk \cup {p} /\ raw' = Append(raw, m)
    BY <1>7, <2>1, OneMore
  <2>3. Account(Debouncer, raw', After(last, m), guessed', disk', due')
    BY <1>3, <1>6, <2>2
  <2>4. After(last, m) \in SUBSET Path
    BY <2>1, AfterIn
  <2> QED BY <2>2, <2>3, <2>4, FaithfulNow
<1>8. ASSUME Changes(disk \cup {p}, <<second, come>>) PROVE Faithful'
  <2>1. Debouncer' = Debouncer /\ disk' = disk \cup {p} /\ raw' = Append(Append(raw, second), come)
    BY <1>2, <1>8, TwoMore
  <2> DEFINE q == Append(raw, second)
             then == After(last, second)
             files == disk \cup {p}
  <2>2. Account(Debouncer, q, then, guessed', files, due)
    BY <1>6
  <2>3. q \in Seq(Messages) /\ then \in SUBSET Path /\ files \in SUBSET Path /\ p \in files
    BY <1>1, <1>2, AfterIn
  <2> HIDE DEF q, then, files
  <2>4. Safe(Debouncer.renames, q, p, Len(q) + 1)
    BY <2>2, <2>3 DEF Account
  <2>5. Account(Debouncer, Append(q, come), After(then, come), guessed', files \cup {come.path}, due)
    BY <1>1, <1>2, <1>4, <2>2, <2>3, <2>4, Appeared
  <2>6. After(then, come) \in SUBSET Path
    BY <1>2, <2>3, AfterIn
  <2>7. files \cup {come.path} = disk'
    BY <1>2, <2>1 DEF files
  <2> QED BY <1>3, <2>1, <2>5, <2>6, <2>7, FaithfulNow DEF q
<1> QED BY <1>3, <1>7, <1>8

\* The halves of a rename that are reported apart.
LEMMA TrackedFaithful ==
  ASSUME Shape, ~rescan', NEW last \in SUBSET Path, Account(Debouncer, raw, last, guessed', disk, due),
         NEW p \in Path, NEW q \in Path, NEW id \in Tracker, p # q,
         p \in disk, Unlocked(p), Unlocked(q), ~MovedOut(q), Fresh(id),
         due' = due \cup {[from |-> p, path |-> q, tracker |-> id]},
         Changes((disk \ {p}) \cup {q}, <<About("RenamedFrom", p, id)>>)
  PROVE  Faithful'
<1> DEFINE m == About("RenamedFrom", p, id)
           files == (disk \ {p}) \cup {q}
           half == [from |-> p, path |-> q, tracker |-> id]
<1>1. raw \in Seq(Messages) /\ disk \in SUBSET Path /\ due \in SUBSET Seconds /\ id \in Tracker \cup {None}
  BY DEF Shape
<1>2. m \in Messages /\ m.kind = "RenamedFrom" /\ m.path = p /\ m.tracker = id
  BY <1>1, AboutIs, KindIs
<1>3. half \in Seconds /\ half.from = p /\ half.path = q /\ half.tracker = id
  BY DEF Seconds
<1>4. due' = due \cup {half} /\ Changes(files, <<m>>)
  OBVIOUS
<1> HIDE DEF m, half
<1>5. Debouncer' = Debouncer /\ disk' = files /\ raw' = Append(raw, m)
  BY <1>2, <1>4, OneMore
<1>6. Unused(Debouncer.renames, raw, id) /\ \A h \in due : h.tracker # id
  BY FreshIs
<1>7. p \in last
  BY DEF Account, Arrivals, Unlocked
<1>8. Legal(last, m, guessed') /\ After(last, m) = last \ {p}
  BY <1>2, <1>7 DEF Legal, After
<1>9. After(last, m) \subseteq files /\ files \ Arrivals(due') \subseteq After(last, m)
  BY <1>3, <1>4, <1>8 DEF Account, Arrivals
<1>10. \A x \in Tracker : Half(m, "RenamedFrom", x)
         => Unused(Debouncer.renames, raw, x) /\ m.path \notin files /\ \A h \in due : h.tracker # x
  BY <1>2, <1>6 DEF Half
<1>11. \A x \in Path : ~Appearing(m, x)
  BY <1>2 DEF Appearing
<1>12. \A x \in files : x \in disk \/ Safe(Debouncer.renames, raw, x, Len(raw) + 1)
  BY SafeNow
<1>13. ASSUME NEW h \in due'
       PROVE  /\ h.from \notin files /\ h.path \in files
              /\ h \in due \/ (Half(m, "RenamedFrom", h.tracker) /\ m.path = h.from)
  <2>1. CASE h \in due
    BY <2>1 DEF Account, Unlocked
  <2>2. CASE h = half
    BY <1>2, <1>3, <2>2 DEF Half
  <2> QED BY <1>4, <2>1, <2>2
<1>14. due' \in SUBSET Seconds
  BY <1>1, <1>3, <1>4
<1> HIDE DEF files
<1>15. Account(Debouncer, Append(raw, m), After(last, m), guessed', files, due')
  BY <1>1, <1>2, <1>8, <1>9, <1>10, <1>11, <1>12, <1>13, <1>14, AccountAppend
<1>16. After(last, m) \in SUBSET Path
  BY <1>2, AfterIn
<1> QED BY <1>5, <1>15, <1>16, FaithfulNow

LEMMA SecondFaithful ==
  ASSUME Shape, ~rescan', NEW last \in SUBSET Path, Account(Debouncer, raw, last, guessed', disk, due),
         NEW half \in due, SecondHalf(half)
  PROVE  Faithful'
<1> DEFINE to == About("RenamedTo", half.path, half.tracker)
           both == Both(half.from, half.path)
<1>1. raw \in Seq(Messages) /\ disk \in SUBSET Path /\ due \in SUBSET Seconds
  BY DEF Shape
<1>2. half.from \in Path /\ half.path \in Path /\ half.tracker \in Tracker \cup {None}
  BY <1>1 DEF Seconds
<1>3. /\ to \in Messages /\ to.kind = "RenamedTo" /\ to.path = half.path
      /\ both \in Messages /\ both.kind = "RenamedBoth" /\ both.from = half.from /\ both.to = half.path
  BY <1>2, AboutIs, BothIs, KindIs
<1>4. due' = due \ {half} /\ (Changes(disk, <<to>>) \/ Changes(disk, <<to, both>>))
  BY DEF SecondHalf
<1> HIDE DEF to, both
<1> DEFINE q == Append(raw, to)
           then == After(last, to)
<1>5. half.from \notin disk /\ half.path \in disk /\ Safe(Debouncer.renames, raw, half.path, Len(raw) + 1)
  BY DEF Account
<1>6. Account(Debouncer, q, then, guessed', disk, due')
  <2>1. Legal(last, to, guessed') /\ then = last \cup {half.path}
    BY <1>3 DEF Legal, After
  <2>2. then \subseteq disk /\ disk \ Arrivals(due') \subseteq then
    BY <1>4, <1>5, <2>1 DEF Account, Arrivals
  <2>3. /\ \A x \in Tracker : ~Half(to, "RenamedFrom", x)
        /\ \A x \in Path : Appearing(to, x) => x = half.path
    BY <1>3 DEF Half, Appearing
  <2>4. (\A h \in due' : h \in due /\ h.from \notin disk /\ h.path \in disk) /\ due' \in SUBSET Seconds
    BY <1>1, <1>4 DEF Account
  <2>5. \A x \in Path : Appearing(to, x) => Safe(Debouncer.renames, raw, x, Len(raw) + 1)
    BY <1>5, <2>3
  <2> QED BY <1>1, <1>3, <2>1, <2>2, <2>3, <2>4, <2>5, AccountAppend
<1>7. q \in Seq(Messages) /\ then \in SUBSET Path /\ due' \in SUBSET Seconds
  BY <1>1, <1>3, <1>4, AfterIn
<1> HIDE DEF q, then
<1>8. CASE Changes(disk, <<to>>)
  <2>1. Debouncer' = Debouncer /\ disk' = disk /\ raw' = q
    BY <1>3, <1>8, OneMore DEF q
  <2> QED BY <1>6, <1>7, <2>1, FaithfulNow
<1>9. CASE Changes(disk, <<to, both>>)
  <2>1. Debouncer' = Debouncer /\ disk' = disk /\ raw' = Append(q, both)
    BY <1>3, <1>9, TwoMore DEF q
  <2>2. Legal(then, both, guessed') /\ After(then, both) = (then \ {half.from}) \cup {half.path}
    BY <1>3 DEF Legal, After
  <2>3. After(then, both) \subseteq disk /\ disk \ Arrivals(due') \subseteq After(then, both)
    BY <1>5, <1>6, <2>2 DEF Account
  <2>4. /\ \A x \in Tracker : ~Half(both, "RenamedFrom", x)
        /\ \A x \in Path : Appearing(both, x) => x = half.path
    BY <1>3 DEF Half, Appearing
  <2>5. Safe(Debouncer.renames, q, half.path, Len(q) + 1)
    BY <1>5, <1>6 DEF Account
  <2>6. \A h \in due' : h.from \notin disk /\ h.path \in disk
    BY <1>6 DEF Account
  <2>7. Account(Debouncer, Append(q, both), After(then, both), guessed', disk, due')
    BY <1>1, <1>3, <1>6, <1>7, <2>2, <2>3, <2>4, <2>5, <2>6, AccountAppend
  <2>8. After(then, both) \in SUBSET Path
    BY <1>3, <1>7, AfterIn
  <2> QED BY <2>1, <2>7, <2>8, FaithfulNow
<1> QED BY <1>4, <1>8, <1>9

\* The renames that are reported at once.
LEMMA RenameFaithful ==
  ASSUME Shape, ~Backups, ~rescan', NEW last \in SUBSET Path,
         Account(Debouncer, raw, last, guessed', disk, due),
         NEW p \in Path, NEW q \in Path, NEW form \in Forms, NEW id \in Tracker, Rename(p, q, form, id)
  PROVE  Faithful'
<1> DEFINE both == Both(p, q)
           left == About("OnlyFrom", p, None)
           come == About("OnlyTo", q, None)
           from == About("RenamedFrom", p, None)
           to == About("RenamedTo", q, None)
           files == (disk \ {p}) \cup {q}
<1>1. /\ raw \in Seq(Messages) /\ disk \in SUBSET Path /\ due \in SUBSET Seconds /\ None \in Tracker \cup {None}
      /\ files \in SUBSET Path
  BY DEF Shape
<1>2. /\ both \in Messages /\ both.kind = "RenamedBoth" /\ both.from = p /\ both.to = q
      /\ left \in Messages /\ left.kind = "OnlyFrom" /\ left.path = p
      /\ come \in Messages /\ come.kind = "OnlyTo" /\ come.path = q
      /\ from \in Messages /\ from.kind = "RenamedFrom" /\ from.path = p /\ from.tracker = None
      /\ to \in Messages /\ to.kind = "RenamedTo" /\ to.path = q
  BY <1>1, AboutIs, BothIs, KindIs
<1>3. /\ p \in disk /\ p # q /\ Unlocked(p) /\ Unlocked(q) /\ ~MovedOut(q)
      /\ \/ due' = due /\ \/ Changes(files, <<both>>)
                          \/ Changes(files, <<left, come>>)
                          \/ Changes(files, <<from, to>>)
         \/ /\ Fresh(id) /\ due' = due \cup {[from |-> p, path |-> q, tracker |-> id]}
            /\ Changes(files, <<About("RenamedFrom", p, id)>>)
  <2>1. form \in {"both", "any", "tracked", "untracked"}
    BY FormsAssumption
  <2> QED BY <2>1 DEF Rename, Appears
<1> HIDE DEF both, left, come, from, to
<1>4. \A half \in due : half.from # p /\ half.path # p /\ half.from # q /\ half.path # q
  BY <1>3 DEF Unlocked
<1>5. Safe(Debouncer.renames, raw, q, Len(raw) + 1)
  BY <1>3, SafeNow
\* One event with both ends.
<1>6. ASSUME due' = due, Changes(files, <<both>>) PROVE Faithful'
  <2>1. Debouncer' = Debouncer /\ disk' = files /\ raw' = Append(raw, both)
    BY <1>2, <1>6, OneMore
  <2>2. Legal(last, both, guessed') /\ After(last, both) = (last \ {p}) \cup {q}
    BY <1>2 DEF Legal, After
  <2>3. After(last, both) \subseteq files /\ files \ Arrivals(due) \subseteq After(last, both)
    BY <2>2 DEF Account
  <2>4. /\ \A x \in Tracker : ~Half(both, "RenamedFrom", x)
        /\ \A x \in Path : Appearing(both, x) => x = q
    BY <1>2 DEF Half, Appearing
  <2>5. \A half \in due : half.from \notin files /\ half.path \in files
    BY <1>4 DEF Account
  <2>6. \A x \in files : x \in disk \/ x = q
    OBVIOUS
  <2> HIDE DEF files
  <2>7. Account(Debouncer, Append(raw, both), After(last, both), guessed', files, due)
    BY <1>1, <1>2, <1>5, <2>2, <2>3, <2>4, <2>5, <2>6, AccountAppend
  <2>8. After(last, both) \in SUBSET Path
    BY <1>2, AfterIn
  <2> QED BY <1>6, <2>1, <2>7, <2>8, FaithfulNow
\* An event for each end, or two halves without a tracker.
<1>7. ASSUME NEW m \in {left, from}, NEW l \in {come, to}, due' = due, Changes(files, <<m, l>>)
      PROVE  Faithful'
  <2>1. /\ m \in Messages /\ m.path = p /\ m.kind \in {"OnlyFrom", "RenamedFrom"}
        /\ l \in Messages /\ l.path = q /\ l.kind \in {"OnlyTo", "RenamedTo"}
    BY <1>2
  <2>2. /\ Debouncer' = Debouncer /\ disk' = files /\ raw' = Append(Append(raw, m), l)
        /\ m.kind = "OnlyFrom" => p \in guessed'
    BY <1>7, <2>1, TwoMore
  <2>3. \A x \in Tracker : ~Half(m, "RenamedFrom", x)
    BY <1>2, TrackerAssumption DEF Half, None
  <2> DEFINE t == Append(raw, m)
             then == After(last, m)
             mid == disk \ {p}
  <2>4. Account(Debouncer, t, then, guessed', disk \ {m.path}, due)
    BY <1>1, <1>3, <1>4, <2>1, <2>2, <2>3, Vanished
  <2>5. Account(Debouncer, t, then, guessed', mid, due)
    BY <2>1, <2>4
  <2>6. t \in Seq(Messages) /\ then \in SUBSET Path /\ mid \in SUBSET Path /\ q # p
        /\ Len(t) + 1 = Len(raw) + 2
    BY <1>1, <1>3, <2>1, AfterIn
  <2>7. Safe(Debouncer.renames, t, q, Len(t) + 1)
    BY <1>1, <1>5, <2>1, <2>3, <2>6, SafeAppend
  <2>8. files = mid \cup {q}
    OBVIOUS
  <2> HIDE DEF t, then, mid, files
  <2>9. Account(Debouncer, Append(t, l), After(then, l), guessed', mid \cup {l.path}, due)
    BY <1>1, <1>4, <2>1, <2>5, <2>6, <2>7, Appeared
  <2>10. After(then, l) \in SUBSET Path
    BY <2>1, <2>6, AfterIn
  <2>11. mid \cup {l.path} = disk' /\ raw' = Append(t, l)
    BY <2>1, <2>2, <2>8 DEF t
  <2> QED BY <1>7, <2>2, <2>9, <2>10, <2>11, FaithfulNow
<1>8. ASSUME Fresh(id), due' = due \cup {[from |-> p, path |-> q, tracker |-> id]},
             Changes(files, <<About("RenamedFrom", p, id)>>)
      PROVE  Faithful'
  BY <1>3, <1>8, TrackedFaithful
<1> HIDE DEF files
<1> QED BY <1>3, <1>6, <1>7, <1>8

LEMMA SystemFaithful ==
  ASSUME Shape, Faithful, ~Backups, ~rescan', System
  PROVE  Faithful'
<1>1. PICK last \in SUBSET Path : Account(Debouncer, raw, last, guessed, disk, due)
  BY DEF Faithful
<1>2. Account(Debouncer, raw, last, guessed', disk, due)
  <2>1. PICK files \in SUBSET Path, messages \in Seq(Messages) : Changes(files, messages)
    BY SystemChanges
  <2>2. guessed \subseteq guessed'
    BY <2>1, ChangesIs
  <2> QED BY <1>1, <2>2, AccountGrows
<1>3. CASE SystemLoses
  <2> DEFINE m == [kind |-> "Lost"]
  <2>1. due' = due /\ Changes(disk, <<m>>)
    BY <1>3 DEF SystemLoses
  <2>2. m \in Messages /\ m.kind = "Lost"
    BY LostIs
  <2> HIDE DEF m
  <2>3. Debouncer' = Debouncer /\ disk' = disk /\ raw' = Append(raw, m)
    BY <2>1, <2>2, OneMore
  <2>4. Legal(last, m, guessed') /\ After(last, m) = last
    BY <2>2 DEF Legal, After
  <2>5. /\ \A x \in Tracker : ~Half(m, "RenamedFrom", x)
        /\ \A x \in Path : ~Appearing(m, x)
    BY <2>2 DEF Half, Appearing
  <2>6. raw \in Seq(Messages) /\ disk \in SUBSET Path /\ due \in SUBSET Seconds
    BY DEF Shape
  <2>7. last \subseteq disk /\ disk \ Arrivals(due) \subseteq last
        /\ \A half \in due : half.from \notin disk /\ half.path \in disk
    BY <1>2 DEF Account
  <2>8. Account(Debouncer, Append(raw, m), After(last, m), guessed', disk, due)
    BY <1>2, <2>2, <2>4, <2>5, <2>6, <2>7, AccountAppend
  <2>9. After(last, m) \in SUBSET Path
    BY <2>4
  <2> QED BY <2>1, <2>3, <2>8, <2>9, FaithfulNow
<1> QED BY <1>2, <1>3, PathFaithful, OutFaithful, InFaithful, RenameFaithful, SecondFaithful, Zenon DEF System

-----------------------------------------------------------------------------
\* The other steps.

LEMMA Kept ==
  ASSUME Faithful, disk' = disk, due' = due, raw' = raw, guessed' = guessed,
         Ready(Debouncer', guessed), Near(View(Debouncer'), View(Debouncer), guessed),
         \A id \in DOMAIN Debouncer'.renames :
           id \in DOMAIN Debouncer.renames /\ Debouncer'.renames[id].from = Debouncer.renames[id].from
  PROVE  Faithful'
<1>1. PICK last \in SUBSET Path : Account(Debouncer, raw, last, guessed, disk, due)
  BY DEF Faithful
<1>2. Account(Debouncer', raw, last, guessed, disk, due)
  BY <1>1, AccountEmits
<1> QED BY <1>2 DEF Faithful

LEMMA FaithfulReady == Faithful => Ready(Debouncer, guessed)
BY DEF Faithful, Account, Fits

LEMMA AgesFaithful ==
  ASSUME Shape, Faithful, Ages
  PROVE  Faithful'
<1>1. Debouncer' = Aged(Debouncer)
  BY AgesIs
<1>2. Typed(Debouncer) /\ Ready(Debouncer, guessed)
  BY FaithfulReady DEF Shape
<1>3. /\ Ready(Debouncer', guessed) /\ View(Debouncer') = View(Debouncer)
      /\ \A id \in DOMAIN Debouncer'.renames :
           id \in DOMAIN Debouncer.renames /\ Debouncer'.renames[id].from = Debouncer.renames[id].from
  BY <1>1, <1>2, AgedViews
<1>4. Near(View(Debouncer'), View(Debouncer), guessed)
  BY <1>3 DEF Near
<1>5. disk' = disk /\ due' = due /\ raw' = raw /\ guessed' = guessed
  BY DEF Ages, queues
<1> QED BY <1>3, <1>4, <1>5, Kept

LEMMA IdleFaithful ==
  ASSUME Shape, Faithful, Idle
  PROVE  Faithful'
<1>1. /\ Typed(Debouncer) /\ Ready(Debouncer, guessed) /\ Iterated(Debouncer)
      /\ raw' = raw /\ guessed' = guessed
  BY FaithfulReady DEF Shape, Idle
<1>2. Debouncer' = Emitted(Debouncer) /\ disk' = disk /\ due' = due
  BY <1>1, IteratedIs, Zenon
<1>3. /\ Ready(Debouncer', guessed) /\ Near(View(Debouncer'), View(Debouncer), guessed)
      /\ \A id \in DOMAIN Debouncer'.renames :
           id \in DOMAIN Debouncer.renames /\ Debouncer'.renames[id] = Debouncer.renames[id]
  BY <1>1, <1>2, EmittedViews
<1> QED BY <1>1, <1>2, <1>3, Kept

\* Folding a notification moves the beginning of the story along.
LEMMA FoldFaithful ==
  ASSUME Shape, Faithful, Fold
  PROVE  Faithful'
<1> DEFINE s == Debouncer
           m == Head(raw)
           r == Record(s, m)
           e == Emitted(r)
           H == guessed \cup Mistaken(s, m)
<1>1. PICK last \in SUBSET Path : Account(s, raw, last, guessed, disk, due)
  BY DEF Faithful
<1>2. PICK first \in SUBSET Path : Fits(s, first, guessed) /\ Story(first, raw, last, guessed)
  BY <1>1 DEF Account
<1>3. /\ Typed(s) /\ raw \in Seq(Messages) /\ raw # <<>> /\ raw' = Tail(raw) /\ Iterated(r)
      /\ guessed' = H /\ due \subseteq Seconds
  BY FoldIs DEF Shape
<1>4. m \in Messages /\ raw[1] = m /\ Len(raw) >= 1 /\ Len(raw) \in Nat
  BY <1>3
<1>5. Legal(first, m, guessed) /\ Story(After(first, m), Tail(raw), last, guessed)
  BY <1>2, <1>3, StoryTail
<1> HIDE DEF s, m
<1>6. Halves(s.renames, raw)
  BY <1>1 DEF Account
<1>7. ASSUME NEW q \in Path, Appearing(m, q), NEW id \in DOMAIN s.renames PROVE s.renames[id].from # q
  <2>1. id \in Tracker
    BY <1>3, Zenon DEF Typed
  <2>2. Safe(s.renames, raw, q, 1)
    <3>1. 1 \in 1..Len(raw)
      BY <1>4
    <3> QED BY <1>4, <1>6, <1>7, <3>1 DEF Halves
  <2>3. ~\E j \in 1..1 - 1 : Half(raw[j], "RenamedTo", id)
    OBVIOUS
  <2>4. ~Left(s.renames, raw, id, q, 1)
    BY <2>1, <2>2, <2>3, Zenon DEF Safe
  <2> QED BY <2>4, Zenon DEF Left
<1>8. ASSUME NEW id \in DOMAIN s.renames PROVE ~Half(m, "RenamedFrom", id)
  <2>1. id \in Tracker /\ 1 \in 1..Len(raw)
    BY <1>3, <1>4 DEF Typed
  <2> QED BY <1>4, <1>6, <2>1 DEF Halves, InOrder
<1>9. /\ Typed(r) /\ Fits(r, After(first, m), H)
      /\ \A id \in DOMAIN r.renames :
           \/ id \in DOMAIN s.renames /\ ~Half(m, "RenamedTo", id) /\ r.renames[id] = s.renames[id]
           \/ Half(m, "RenamedFrom", id) /\ r.renames[id].from = m.path
  BY <1>2, <1>3, <1>4, <1>5, <1>7, <1>8, RecordFits
<1> HIDE DEF r
<1>10. Debouncer' = e /\ disk' = disk /\ due' = due
  BY <1>3, <1>9, IteratedIs, Zenon
<1>11. /\ Ready(e, H) /\ Near(View(e), View(r), H)
       /\ \A id \in DOMAIN e.renames : id \in DOMAIN r.renames /\ e.renames[id] = r.renames[id]
  <2>1. Typed(r) /\ Ready(r, H)
    BY <1>9 DEF Fits
  <2> HIDE DEF H
  <2> QED BY <2>1, EmittedViews, Zenon
<1>12. Fits(e, After(first, m), H)
  BY <1>9, <1>11 DEF Fits, Near
<1>13. guessed \subseteq H
  OBVIOUS
<1> HIDE DEF e, H
<1>14. After(first, m) \in SUBSET Path /\ Story(After(first, m), Tail(raw), last, H)
  BY <1>4, <1>5, <1>13, AfterIn, StoryGrows
<1>15. Folded(s.renames, e.renames, raw)
  BY <1>9, <1>11 DEF Folded, m
<1>16. Halves(e.renames, Tail(raw))
  BY <1>3, <1>6, <1>15, HalvesTail
<1> DEFINE n == Len(Tail(raw)) + 1
<1>17. n \in 1..Len(Tail(raw)) + 1 /\ n + 1 = Len(raw) + 1
  BY <1>3, <1>4
<1>18. InOrder(s.renames, raw)
  BY <1>6 DEF Halves
<1>19. ASSUME NEW p \in disk PROVE Safe(e.renames, Tail(raw), p, n)
  <2>1. Safe(s.renames, raw, p, n + 1)
    BY <1>1, <1>17 DEF Account
  <2> HIDE DEF n
  <2> QED BY <1>3, <1>15, <1>17, <1>18, <2>1, SafeTail
<1>20. ASSUME NEW half \in due
       PROVE  /\ half.from \notin disk /\ half.path \in disk
              /\ \A p \in Path : Left(e.renames, Tail(raw), half.tracker, p, n) => p = half.from
  <2>1. half.tracker \in Tracker
    BY <1>3 DEF Seconds
  <2>2. ASSUME NEW p \in Path, Left(e.renames, Tail(raw), half.tracker, p, n) PROVE p = half.from
    <3> HIDE DEF n
    <3>1. Left(s.renames, raw, half.tracker, p, n + 1)
      BY <1>3, <1>15, <1>17, <1>18, <2>1, <2>2, LeftTail
    <3> QED BY <1>1, <1>17, <3>1 DEF Account
  <2> QED BY <1>1, <2>2 DEF Account
<1>21. Account(e, Tail(raw), last, H, disk, due)
  BY <1>1, <1>12, <1>14, <1>16, <1>19, <1>20 DEF Account
<1> QED BY <1>3, <1>10, <1>21 DEF Faithful

LEMMA FaithfulInit == Init => Faithful
<1> SUFFICES ASSUME Init PROVE Faithful
  OBVIOUS
<1>1. disk \in SUBSET Path /\ shown = disk /\ due = {} /\ raw = <<>> /\ pending = Empty /\ renames = Empty
  BY DEF Init
<1>2. DOMAIN Empty = {}
  BY DEF Empty
<1> HIDE DEF Empty
<1>3. View(Debouncer) = disk
  BY <1>1, <1>2, DebouncerIs DEF View, LeftBehind
<1>4. Ready(Debouncer, guessed)
  BY <1>1, <1>2, DebouncerIs DEF Ready
<1>5. Fits(Debouncer, disk, guessed) /\ Story(disk, raw, disk, guessed)
  BY <1>1, <1>3, <1>4, StoryEmpty DEF Fits
<1>6. DOMAIN Debouncer.renames = {} /\ Len(raw) = 0
  BY <1>1, <1>2, DebouncerIs
<1>7. Halves(Debouncer.renames, raw)
  BY <1>6 DEF Halves, InOrder
<1>8. \A p \in disk : Safe(Debouncer.renames, raw, p, Len(raw) + 1)
  BY <1>6 DEF Safe, Left
<1>9. Account(Debouncer, raw, disk, guessed, disk, due)
  BY <1>1, <1>5, <1>7, <1>8 DEF Account
<1> QED BY <1>1, <1>9 DEF Faithful

\* A loss stays known.
LEMMA LossIsKept ==
  ASSUME Shape, rescan, [Next]_vars
  PROVE  rescan'
<1>1. \A files, messages : ~Changes(files, messages)
  BY DEF Changes
<1>2. ~System
  BY <1>1, SystemChanges
<1> QED BY <1>2, Zenon DEF Next, Ages, Fold, Idle, Stop, flags, vars

LEMMA FaithfulNext ==
  ASSUME ~Backups, Shape, rescan \/ Faithful, [Next]_vars
  PROVE  (rescan \/ Faithful)'
<1> SUFFICES ASSUME ~rescan, ~rescan', Faithful PROVE Faithful'
  BY LossIsKept, Zenon
<1>1. ASSUME System PROVE Faithful'
  BY <1>1, SystemFaithful
<1>2. ASSUME Ages PROVE Faithful'
  BY <1>2, AgesFaithful
<1>3. ASSUME Fold PROVE Faithful'
  BY <1>3, FoldFaithful
<1>4. ASSUME Idle PROVE Faithful'
  BY <1>4, IdleFaithful
<1>5. ASSUME Stop \/ UNCHANGED vars PROVE Faithful'
  <2>1. Debouncer' = Debouncer /\ disk' = disk /\ due' = due /\ raw' = raw /\ guessed' = guessed
    BY <1>5 DEF Stop, queues, vars, Debouncer
  <2> QED BY <2>1, Zenon DEF Faithful
<1> QED BY <1>1, <1>2, <1>3, <1>4, <1>5 DEF Next

\* Once nothing is under way the consumer shows every file that exists, and beside
\* them only files the debouncer had to guess about, or the watcher has reported a
\* loss (ingest_raw, record, merge, coalesce, flush, flush_all): for any number of
\* files and of renames in flight, any queue and window, and every form in which a
\* rename is reported, as long as no file appears where one was moved away and that
\* move is not yet given up.
THEOREM SettledShowsTruth ==
  ASSUME ~Backups
  PROVE  Spec => []SettledIsTruth
<1> DEFINE Inv == Shape /\ (rescan \/ Faithful)
<1>1. Init => Inv
  BY ShapeInit, FaithfulInit
<1>2. Inv /\ [Next]_vars => Inv'
  <2> SUFFICES ASSUME Inv, [Next]_vars PROVE Inv'
    OBVIOUS
  <2>1. Shape'
    BY ShapeNext
  <2>2. (rescan \/ Faithful)'
    BY FaithfulNext
  <2> QED BY <2>1, <2>2
<1>3. Inv => SettledIsTruth
  <2> SUFFICES ASSUME Faithful, Settled PROVE disk \subseteq shown /\ shown \ disk \subseteq guessed
    BY DEF SettledIsTruth
  <2>1. due = {} /\ raw = <<>> /\ pending = Empty /\ renames = Empty
    BY DEF Settled
  <2>2. PICK last \in SUBSET Path : Account(Debouncer, raw, last, guessed, disk, due)
    BY DEF Faithful
  <2>3. last = disk
    BY <2>1, <2>2 DEF Account, Arrivals
  <2>4. PICK first \in SUBSET Path : Fits(Debouncer, first, guessed) /\ Story(first, raw, disk, guessed)
    BY <2>2, <2>3 DEF Account
  <2>5. first = disk
    BY <2>1, <2>4, StoryEmpty
  <2>6. DOMAIN Empty = {}
    BY DEF Empty
  <2> HIDE DEF Empty
  <2>7. View(Debouncer) = shown
    BY <2>1, <2>6, DebouncerIs DEF View, LeftBehind
  <2> QED BY <2>4, <2>5, <2>7 DEF Fits
<1> HIDE DEF Inv
<1> QED BY <1>1, <1>2, <1>3, PTL DEF Spec
=============================================================================
