---------------------------- MODULE CorpusProofs ----------------------------
(***************************************************************************)
(* Theorems about Corpus for every set of processes, sessions and paths    *)
(* and every window.  The argument: the rows of a file are always the last *)
(* ones that were given an ordinal, at least a window of them; and no      *)
(* process counts more sessions than there were ordinals.  So a count that *)
(* reaches the threshold is backed by rows nobody may drop, however stale  *)
(* the count is.                                                           *)
(***************************************************************************)
EXTENDS Corpus, TLAPS, FiniteSetTheorems

Holding == Live \cup {"version", "count0", "freqs0"}

-----------------------------------------------------------------------------
\* Types.

LEMMA FileFacts ==
  /\ File = 0..(2 * Cardinality(Instance))
  /\ Cardinality(Instance) \in Nat
  /\ 0 \in File
  /\ File \subseteq Nat
  /\ None \notin File
<1>1. Cardinality(Instance) \in Nat
  BY FS_CardinalityType, CorpusAssumption
<1> QED BY <1>1, CorpusAssumption DEF File

LEMMA FreqType ==
  ASSUME NEW f \in File, TypeOK
  PROVE  /\ IsFiniteSet(DOMAIN rows[f])
         /\ Count(f) \in Nat
         /\ Freq(f) \in [Path -> Nat]
<1>1. DOMAIN rows[f] \subseteq 1..last[f] /\ last[f] \in Nat
  BY DEF TypeOK
<1>a. IsFiniteSet(1..last[f])
  BY <1>1, FS_Interval
<1>2. IsFiniteSet(DOMAIN rows[f])
  BY <1>1, <1>a, FS_Subset
<1>3. \A p : IsFiniteSet({o \in DOMAIN rows[f] : p \in rows[f][o].paths})
  BY <1>2, FS_Subset
<1>4. \A p : Cardinality({o \in DOMAIN rows[f] : p \in rows[f][o].paths}) \in Nat
  BY <1>3, FS_CardinalityType
<1>5. Count(f) \in Nat
  BY <1>2, FS_CardinalityType DEF Count
<1> QED BY <1>2, <1>4, <1>5 DEF Freq

LEMMA TypeInit == Init => TypeOK
<1> SUFFICES ASSUME Init PROVE TypeOK
  OBVIOUS
<1>1. \A f \in File : rows[f] = [o \in {} |-> {}] /\ DOMAIN rows[f] = {} /\ DOMAIN rows = File
  BY DEF Init
<1>2. \A f \in File : rows[f] \in [DOMAIN rows[f] -> Row]
  BY <1>1
<1>3. NoPath \in [Path -> Nat]
  BY DEF NoPath
<1>4. here \in File \cup {None} /\ state \in [File -> {"fresh", "current", "newer", "corrupt"}]
  BY FileFacts DEF Init
<1> QED BY <1>1, <1>2, <1>3, <1>4, FileFacts, CorpusAssumption DEF Init, TypeOK, Live, Dead

\* What a process does to the rows, in full.
LEMMA RecordRows ==
  ASSUME TypeOK, NEW i \in Instance, NEW s \in Session, NEW paths \in SUBSET Path,
         RecordSession(i, s, paths)
  PROVE  LET f == file[i]
             o == IF Recorded(f, s) THEN OrdinalOf(f, s) ELSE last[f] + 1
         IN  /\ f \in File
             /\ o \in 1..last'[f]
             /\ o \in DOMAIN rows[f] <=> Recorded(f, s)
             /\ last' = [last EXCEPT ![f] = IF Recorded(f, s) THEN @ ELSE o]
             /\ last'[f] = IF Recorded(f, s) THEN last[f] ELSE last[f] + 1
             /\ DOMAIN rows' = File
             /\ DOMAIN rows'[f] = DOMAIN rows[f] \cup {o}
             /\ \A q \in DOMAIN rows[f] \ {o} : rows'[f][q] = rows[f][q]
             /\ rows'[f] \in [DOMAIN rows'[f] -> Row]
             /\ Recorded(f, s) => rows'[f][o].paths = rows[f][o].paths \cup paths
             /\ Recorded(f, s) => rows[f][o].session = s /\ rows[f][o].paths \subseteq Path
             /\ ~Recorded(f, s) => rows'[f][o].paths = paths
             /\ rows'[f][o].session = s
             /\ \A g \in File \ {f} : rows'[g] = rows[g]
<1> DEFINE f == file[i]
           o == IF Recorded(f, s) THEN OrdinalOf(f, s) ELSE last[f] + 1
           was == IF ~Recorded(f, s) THEN {} ELSE rows[f][o].paths
           new == [q \in DOMAIN rows[f] \cup {o} |->
                     IF q = o THEN [session |-> s, paths |-> was \cup paths] ELSE rows[f][q]]
<1>1. f \in File
  BY DEF RecordSession, TypeOK, Live
<1>2. /\ DOMAIN rows[f] \subseteq 1..last[f] /\ last[f] \in Nat /\ last \in [File -> Nat]
      /\ rows[f] \in [DOMAIN rows[f] -> Row] /\ DOMAIN rows = File
  BY <1>1 DEF TypeOK
<1>3. Recorded(f, s) => o \in DOMAIN rows[f] /\ rows[f][o].session = s
  BY DEF Recorded, OrdinalOf
<1>4. ~Recorded(f, s) => o = last[f] + 1 /\ o \notin DOMAIN rows[f]
  BY <1>2
<1>5. was \subseteq Path
  BY <1>2, <1>3 DEF Row
<1>6. /\ rows' = [rows EXCEPT ![f] = new]
      /\ last' = [last EXCEPT ![f] = IF Recorded(f, s) THEN @ ELSE o]
  BY DEF RecordSession
<1>7. rows'[f] = new /\ DOMAIN rows' = File /\ \A g \in File \ {f} : rows'[g] = rows[g]
  BY <1>1, <1>2, <1>6
<1>8. DOMAIN new = DOMAIN rows[f] \cup {o} /\ new[o] = [session |-> s, paths |-> was \cup paths]
  OBVIOUS
<1>9. \A q \in DOMAIN rows[f] \ {o} : new[q] = rows[f][q] /\ new[q] \in Row
  BY <1>2
<1>10. new[o] \in Row
  BY <1>5, <1>8 DEF Row
<1>11. new \in [DOMAIN new -> Row]
  BY <1>8, <1>9, <1>10
<1>12. last'[f] = IF Recorded(f, s) THEN last[f] ELSE last[f] + 1
  BY <1>1, <1>2, <1>6
<1>13. o \in 1..last'[f]
  BY <1>2, <1>3, <1>4, <1>12
<1> HIDE DEF new
<1>14. rows'[f] \in [DOMAIN rows'[f] -> Row]
  BY <1>7, <1>11
<1>15. new[o].paths = was \cup paths /\ new[o].session = s
  BY <1>8
<1>16. \A q \in DOMAIN rows[f] \ {o} : rows'[f][q] = rows[f][q]
  BY <1>7, <1>9
<1>17. Recorded(f, s) => rows'[f][o].paths = rows[f][o].paths \cup paths /\ rows[f][o].paths \subseteq Path
  BY <1>5, <1>7, <1>15
<1>18. ~Recorded(f, s) => rows'[f][o].paths = paths
  BY <1>7, <1>15
<1>19. DOMAIN rows'[f] = DOMAIN rows[f] \cup {o} /\ rows'[f][o].session = s
  BY <1>7, <1>8, <1>15
<1> QED BY <1>1, <1>3, <1>4, <1>6, <1>7, <1>12, <1>13, <1>14, <1>16, <1>17, <1>18, <1>19

LEMMA PruneRows ==
  ASSUME TypeOK, NEW i \in Instance, Prune(i)
  PROVE  LET f == file[i]
         IN  /\ f \in File
             /\ DOMAIN rows' = File
             /\ DOMAIN rows'[f] = Newest(f)
             /\ Newest(f) \subseteq DOMAIN rows[f]
             /\ \A o \in Newest(f) : rows'[f][o] = rows[f][o]
             /\ rows'[f] \in [DOMAIN rows'[f] -> Row]
             /\ \A g \in File \ {f} : rows'[g] = rows[g]
<1> DEFINE f == file[i]
           new == [o \in Newest(f) |-> rows[f][o]]
<1>1. f \in File
  BY DEF Prune, TypeOK, Live
<1>2. rows[f] \in [DOMAIN rows[f] -> Row] /\ DOMAIN rows = File
  BY <1>1 DEF TypeOK
<1>3. rows' = [rows EXCEPT ![f] = new]
  BY DEF Prune
<1>4. Newest(f) \subseteq DOMAIN rows[f]
  BY DEF Newest
<1>5. \A o \in Newest(f) : rows[f][o] \in Row
  BY <1>2, <1>4
<1>6. new \in [Newest(f) -> Row] /\ DOMAIN new = Newest(f)
  BY <1>5
<1>7. rows'[f] = new /\ DOMAIN rows' = File /\ \A g \in File \ {f} : rows'[g] = rows[g]
  BY <1>1, <1>2, <1>3
<1> QED BY <1>1, <1>4, <1>6, <1>7

\* Every other step leaves the rows alone.
Others(i) ==
  \/ Start(i) \/ Reload(i) \/ Stop(i) \/ Connect(i) \/ SchemaVersion(i) \/ FindsCorrupt(i)
  \/ MoveAside(i) \/ MoveSidecars(i)
  \/ OpenFails(i) \/ LoadCount(i) \/ LoadFreqs(i) \/ LoadFails(i) \/ PruneFails(i)

LEMMA NextShape ==
  ASSUME [Next]_vars
  PROVE  \/ \E i \in Instance :
              \/ \E s \in Session, paths \in SUBSET Path : RecordSession(i, s, paths)
              \/ Prune(i)
              \/ Others(i)
         \/ UNCHANGED vars
BY DEF Next, Steps, Others

LEMMA OthersKeepRows == \A i \in Instance : Others(i) => UNCHANGED <<rows, last>>
BY DEF Others, Start, Reload, Stop, Connect, SchemaVersion, FindsCorrupt, MoveAside, MoveSidecars,
       OpenFails, LoadCount, LoadFreqs, LoadFails, PruneFails, store

-----------------------------------------------------------------------------
\* The type invariant, the rows apart.

RowsType ==
  /\ DOMAIN rows = File
  /\ \A f \in File : rows[f] \in [DOMAIN rows[f] -> Row] /\ DOMAIN rows[f] \subseteq 1..last[f]
  /\ last \in [File -> Nat]

StoreType ==
  /\ state \in [File -> {"fresh", "current", "newer", "corrupt"}]
  /\ here \in File \cup {None}
  /\ files \in File
  /\ faults \in 0..MaxFaults

ProcessType ==
  /\ pc \in [Instance -> Dead \cup Live \cup Opening]
  /\ file \in [Instance -> File \cup {None}]
  /\ \A i \in Instance : pc[i] \in Holding => file[i] \in File
  /\ second \in [Instance -> BOOLEAN]
  /\ behind \in [Instance -> BOOLEAN]

MemoryType ==
  /\ sessions \in [Instance -> Nat]
  /\ df \in [Instance -> [Path -> Nat]]
  /\ counted \in [Instance -> Nat]

LEMMA TypeParts == TypeOK <=> RowsType /\ StoreType /\ ProcessType /\ MemoryType
BY DEF TypeOK, RowsType, StoreType, ProcessType, MemoryType, Holding

LEMMA RowsTypeStep == TypeOK /\ [Next]_vars => RowsType'
<1> SUFFICES ASSUME TypeOK, [Next]_vars PROVE RowsType'
  OBVIOUS
<1>a. RowsType
  BY TypeParts
<1>1. CASE \E i \in Instance, s \in Session, paths \in SUBSET Path : RecordSession(i, s, paths)
  <2> PICK i \in Instance, s \in Session, paths \in SUBSET Path : RecordSession(i, s, paths)
    BY <1>1
  <2> DEFINE f == file[i]
  <2>1. /\ f \in File /\ DOMAIN rows' = File /\ rows'[f] \in [DOMAIN rows'[f] -> Row]
        /\ \A g \in File \ {f} : rows'[g] = rows[g]
    BY RecordRows
  <2>2. /\ last'[f] \in Nat /\ last' \in [File -> Nat] /\ last[f] <= last'[f]
        /\ \A g \in File \ {f} : last'[g] = last[g]
    BY RecordRows, <1>a DEF RowsType
  <2>3. DOMAIN rows'[f] \subseteq 1..last'[f]
    BY RecordRows, <2>2, <1>a DEF RowsType
  <2> QED BY <2>1, <2>2, <2>3, <1>a DEF RowsType
<1>2. CASE \E i \in Instance : Prune(i)
  <2> PICK i \in Instance : Prune(i)
    BY <1>2
  <2>1. UNCHANGED last
    BY DEF Prune
  <2> QED BY <2>1, PruneRows, <1>a DEF RowsType
<1>3. CASE UNCHANGED <<rows, last>>
  BY <1>3, <1>a DEF RowsType
<1> QED BY <1>1, <1>2, <1>3, NextShape, OthersKeepRows DEF vars, store

LEMMA StoreTypeStep == TypeOK /\ [Next]_vars => StoreType'
<1> SUFFICES ASSUME TypeOK, [Next]_vars PROVE StoreType'
  OBVIOUS
<1>a. StoreType
  BY TypeParts
<1>1. ASSUME NEW i \in Instance, \/ Start(i) \/ Reload(i) \/ LoadCount(i) \/ LoadFreqs(i) \/ Prune(i)
                                 \/ \E s \in Session, paths \in SUBSET Path : RecordSession(i, s, paths)
      PROVE  StoreType'
  BY <1>1, <1>a DEF StoreType, Start, Reload, LoadCount, LoadFreqs, Prune, RecordSession, store
<1>2. ASSUME NEW i \in Instance, OpenFails(i) \/ LoadFails(i) \/ PruneFails(i) \/ Stop(i)
      PROVE  StoreType'
  BY <1>2, <1>a, CorpusAssumption DEF StoreType, OpenFails, LoadFails, PruneFails, Stop, Fails, store
<1>3. ASSUME NEW i \in Instance, Connect(i) \/ MoveAside(i) \/ MoveSidecars(i)
      PROVE  StoreType'
  BY <1>3, <1>a DEF StoreType, Connect, MoveAside, MoveSidecars, store
<1>4. ASSUME NEW i \in Instance, SchemaVersion(i)
      PROVE  StoreType'
  <2>1. \E v \in {state[file[i]], "current"} : state' = [state EXCEPT ![file[i]] = v]
    BY <1>4, <1>a DEF SchemaVersion, StoreType
  <2>2. file[i] \in File
    BY <1>4, TypeParts DEF SchemaVersion, ProcessType, Holding
  <2> QED BY <2>1, <2>2, <1>4, <1>a DEF StoreType, SchemaVersion
<1>5. ASSUME NEW i \in Instance, FindsCorrupt(i)
      PROVE  StoreType'
  BY <1>5, <1>a DEF StoreType, FindsCorrupt, store
<1> QED BY <1>1, <1>2, <1>3, <1>4, <1>5, <1>a, NextShape DEF Others, StoreType, vars, store

LEMMA ProcessTypeStep == TypeOK /\ [Next]_vars => ProcessType'
<1> SUFFICES ASSUME TypeOK, [Next]_vars PROVE ProcessType'
  OBVIOUS
<1>a. ProcessType /\ StoreType
  BY TypeParts
<1>1. ASSUME NEW i \in Instance, \/ Start(i) \/ Reload(i) \/ LoadCount(i) \/ LoadFreqs(i)
                                 \/ LoadFails(i) \/ PruneFails(i) \/ MoveAside(i) \/ MoveSidecars(i)
      PROVE  ProcessType'
  BY <1>1, <1>a DEF ProcessType, Start, Reload, LoadCount, LoadFreqs, LoadFails, PruneFails,
                    MoveAside, MoveSidecars, Dead, Live, Opening, Holding
<1>2. ASSUME NEW i \in Instance, OpenFails(i) \/ Stop(i)
      PROVE  ProcessType'
  BY <1>2, <1>a DEF ProcessType, OpenFails, Stop, Degrade, Dead, Live, Opening, Holding
<1>3. ASSUME NEW i \in Instance, Connect(i)
      PROVE  ProcessType'
  BY <1>3, <1>a DEF ProcessType, StoreType, Connect, Dead, Live, Opening, Holding
<1>4. ASSUME NEW i \in Instance, SchemaVersion(i)
      PROVE  ProcessType'
  BY <1>4, <1>a DEF ProcessType, SchemaVersion, Degrade, Dead, Live, Opening, Holding
<1>5. ASSUME NEW i \in Instance, Prune(i)
      PROVE  ProcessType'
  <2>1. behind' \in [Instance -> BOOLEAN]
    BY <1>5, <1>a DEF ProcessType, Prune, Behind
  <2>2. /\ pc' \in [Instance -> Dead \cup Live \cup Opening]
        /\ \A j \in Instance : pc'[j] \in Holding => pc[j] \in Holding
    BY <1>5, <1>a DEF ProcessType, Prune, Live, Holding
  <2> QED BY <2>1, <2>2, <1>5, <1>a DEF ProcessType, Prune
<1>6. ASSUME NEW i \in Instance, NEW s \in Session, NEW paths \in SUBSET Path, RecordSession(i, s, paths)
      PROVE  ProcessType'
  <2>1. behind' \in [Instance -> BOOLEAN]
    BY <1>6, <1>a DEF ProcessType, RecordSession, Behind
  <2>2. /\ pc' \in [Instance -> Dead \cup Live \cup Opening]
        /\ \A j \in Instance : pc'[j] \in Holding => pc[j] \in Holding
    BY <1>6, <1>a DEF ProcessType, RecordSession, Live, Holding
  <2> QED BY <2>1, <2>2, <1>6, <1>a DEF ProcessType, RecordSession
<1>7. ASSUME NEW i \in Instance, FindsCorrupt(i)
      PROVE  ProcessType'
  BY <1>7, <1>a DEF ProcessType, FindsCorrupt, Degrade, Dead, Live, Opening, Holding
<1> QED BY <1>1, <1>2, <1>3, <1>4, <1>5, <1>6, <1>7, <1>a, NextShape DEF Others, ProcessType, vars, process

LEMMA MemoryTypeStep == TypeOK /\ [Next]_vars => MemoryType'
<1> SUFFICES ASSUME TypeOK, [Next]_vars PROVE MemoryType'
  OBVIOUS
<1>a. MemoryType /\ ProcessType
  BY TypeParts
<1>b. NoPath \in [Path -> Nat]
  BY DEF NoPath
<1>1. ASSUME NEW i \in Instance, \/ Start(i) \/ Reload(i) \/ Connect(i) \/ MoveAside(i)
                                 \/ MoveSidecars(i) \/ PruneFails(i) \/ Prune(i)
      PROVE  MemoryType'
  <2>1. UNCHANGED memory
    BY <1>1 DEF memory, Start, Reload, Connect, MoveAside, MoveSidecars, PruneFails, Prune
  <2> QED BY <2>1, <1>a DEF memory, MemoryType
<1>2. ASSUME NEW i \in Instance,
             LoadFails(i) \/ OpenFails(i) \/ Stop(i) \/ SchemaVersion(i) \/ FindsCorrupt(i)
      PROVE  MemoryType'
  <2>1. /\ sessions' = sessions \/ sessions' = [sessions EXCEPT ![i] = 0]
        /\ df' = df \/ df' = [df EXCEPT ![i] = NoPath]
        /\ counted' = counted \/ counted' = [counted EXCEPT ![i] = 0]
    BY <1>2 DEF LoadFails, OpenFails, Stop, SchemaVersion, FindsCorrupt, Degrade
  <2> QED BY <2>1, <1>a, <1>b DEF MemoryType
<1>3. ASSUME NEW i \in Instance, LoadCount(i) \/ LoadFreqs(i)
      PROVE  MemoryType'
  <2>1. file[i] \in File
    BY <1>3, <1>a DEF ProcessType, LoadCount, LoadFreqs, Live, Holding
  <2>2. Count(file[i]) \in Nat /\ Freq(file[i]) \in [Path -> Nat]
    BY <2>1, FreqType
  <2>3. CASE LoadCount(i)
    BY <2>2, <2>3, <1>a DEF MemoryType, LoadCount
  <2>4. CASE LoadFreqs(i)
    BY <2>2, <2>4, <1>a DEF MemoryType, LoadFreqs
  <2> QED BY <1>3, <2>3, <2>4
<1>4. ASSUME NEW i \in Instance, NEW s \in Session, NEW paths \in SUBSET Path, RecordSession(i, s, paths)
      PROVE  MemoryType'
  <2>1. /\ \E n \in {sessions[i], sessions[i] + 1} : sessions' = [sessions EXCEPT ![i] = n]
        /\ \E S : df' = [df EXCEPT ![i] = [p \in Path |-> IF p \in S THEN df[i][p] + 1 ELSE df[i][p]]]
        /\ UNCHANGED counted
    BY <1>4, <1>a DEF RecordSession, MemoryType
  <2> QED BY <2>1, <1>a DEF MemoryType
<1> QED BY <1>1, <1>2, <1>3, <1>4, <1>a, NextShape DEF Others, MemoryType, vars, memory

\* Every variable keeps its type, and a process that works on a file has one.
THEOREM TypeCorrect == Spec => []TypeOK
<1>1. TypeOK /\ [Next]_vars => TypeOK'
  <2> SUFFICES ASSUME TypeOK, [Next]_vars PROVE TypeOK'
    OBVIOUS
  <2>1. RowsType' /\ StoreType' /\ ProcessType' /\ MemoryType'
    BY RowsTypeStep, StoreTypeStep, ProcessTypeStep, MemoryTypeStep
  <2> QED BY <2>1 DEF TypeOK, RowsType, StoreType, ProcessType, MemoryType, Holding
<1> QED BY <1>1, TypeInit, PTL DEF Spec

-----------------------------------------------------------------------------
\* The rows of a file are the last ones that were given an ordinal.

LEMMA NewestStep == TypeOK /\ KeepsTheNewest /\ [Next]_vars => KeepsTheNewest'
<1> SUFFICES ASSUME TypeOK, KeepsTheNewest, [Next]_vars PROVE KeepsTheNewest'
  OBVIOUS
<1>a. RowsType /\ Window \in Nat
  BY TypeParts, CorpusAssumption
<1>1. CASE \E i \in Instance, s \in Session, paths \in SUBSET Path : RecordSession(i, s, paths)
  <2> PICK i \in Instance, s \in Session, paths \in SUBSET Path : RecordSession(i, s, paths)
    BY <1>1
  <2> DEFINE f == file[i]
  <2>1. f \in File /\ last[f] \in Nat /\ DOMAIN rows[f] \subseteq 1..last[f]
    BY RecordRows, <1>a DEF RowsType
  <2>2. \/ last'[f] = last[f] /\ DOMAIN rows'[f] = DOMAIN rows[f]
        \/ last'[f] = last[f] + 1 /\ DOMAIN rows'[f] = DOMAIN rows[f] \cup {last[f] + 1}
    <3>1. CASE Recorded(f, s)
      <4>1. OrdinalOf(f, s) \in DOMAIN rows[f] /\ DOMAIN rows'[f] = DOMAIN rows[f] \cup {OrdinalOf(f, s)}
        BY <3>1, RecordRows
      <4> QED BY <3>1, <4>1, RecordRows
    <3>2. CASE ~Recorded(f, s)
      BY <3>2, RecordRows
    <3> QED BY <3>1, <3>2
  <2>3. \A g \in File \ {f} : rows'[g] = rows[g] /\ last'[g] = last[g]
    BY RecordRows, <1>a DEF RowsType
  <2>4. \A o \in DOMAIN rows'[f] : o..last'[f] \subseteq DOMAIN rows'[f]
    BY <2>1, <2>2 DEF KeepsTheNewest
  <2>5. \A q \in 1..last'[f] : last'[f] < q + Window => q \in DOMAIN rows'[f]
    BY <2>1, <2>2, <1>a DEF KeepsTheNewest
  <2> QED BY <2>3, <2>4, <2>5 DEF KeepsTheNewest
<1>2. CASE \E i \in Instance : Prune(i)
  <2> PICK i \in Instance : Prune(i)
    BY <1>2
  <2> DEFINE f == file[i]
             above(o) == {q \in DOMAIN rows[f] : q > o}
  <2>1. /\ f \in File /\ last[f] \in Nat /\ DOMAIN rows[f] \subseteq 1..last[f]
        /\ DOMAIN rows'[f] = Newest(f) /\ UNCHANGED last
        /\ \A g \in File \ {f} : rows'[g] = rows[g]
    BY PruneRows, <1>a DEF RowsType, Prune
  <2>2. IsFiniteSet(DOMAIN rows[f])
    BY <2>1, FreqType
  <2>3. \A o : IsFiniteSet(above(o)) /\ Cardinality(above(o)) \in Nat
    BY <2>2, FS_Subset, FS_CardinalityType
  <2>4. \A o \in Newest(f) : o..last[f] \subseteq Newest(f)
    <3> SUFFICES ASSUME NEW o \in Newest(f), NEW q \in o..last[f] PROVE q \in Newest(f)
      OBVIOUS
    <3>1. o \in DOMAIN rows[f] /\ Cardinality(above(o)) < Window
      BY DEF Newest
    <3>2. q \in DOMAIN rows[f] /\ o \in Nat /\ q \in Nat
      BY <3>1, <2>1 DEF KeepsTheNewest
    <3>3. above(q) \subseteq above(o)
      BY <3>1, <3>2, <2>1
    <3>4. Cardinality(above(q)) <= Cardinality(above(o))
      BY <3>3, <2>3, FS_Subset
    <3> QED BY <3>1, <3>2, <3>4, <2>3, <1>a DEF Newest
  <2>5. \A q \in 1..last[f] : last[f] < q + Window => q \in Newest(f)
    <3> SUFFICES ASSUME NEW q \in 1..last[f], last[f] < q + Window PROVE q \in Newest(f)
      OBVIOUS
    <3>1. q \in DOMAIN rows[f]
      BY <2>1 DEF KeepsTheNewest
    <3>2. above(q) \subseteq (q + 1)..last[f]
      BY <2>1
    <3>a. q + 1 \in Int /\ last[f] \in Int /\ q <= last[f]
      BY <2>1
    <3>3. IsFiniteSet((q + 1)..last[f]) /\ Cardinality((q + 1)..last[f]) = last[f] - q
      BY <3>a, FS_Interval
    <3>4. Cardinality(above(q)) <= Cardinality((q + 1)..last[f])
      BY <3>2, <3>3, FS_Subset
    <3> DEFINE c == Cardinality(above(q))
    <3>5. c \in Nat /\ c <= last[f] - q
      BY <3>3, <3>4, <2>3
    <3> HIDE DEF c
    <3>6. c < Window
      BY <3>5, <2>1, <1>a
    <3> QED BY <3>1, <3>6 DEF Newest, c
  <2> QED BY <2>1, <2>4, <2>5 DEF KeepsTheNewest
<1>3. CASE UNCHANGED <<rows, last>>
  BY <1>3 DEF KeepsTheNewest
<1> QED BY <1>1, <1>2, <1>3, NextShape, OthersKeepRows DEF vars, store

LEMMA NewestInit == Init => KeepsTheNewest
<1> SUFFICES ASSUME Init PROVE KeepsTheNewest
  OBVIOUS
<1>1. \A f \in File : DOMAIN rows[f] = {} /\ last[f] = 0
  BY DEF Init
<1> QED BY <1>1 DEF KeepsTheNewest

\* Only sessions that the window has left behind are ever dropped, by whichever
\* process prunes and however stale its count is.
THEOREM NewestKept == Spec => []KeepsTheNewest
BY NewestInit, NewestStep, TypeCorrect, PTL DEF Spec

LEMMA EnoughRows ==
  ASSUME TypeOK, KeepsTheNewest, NEW f \in File, NEW n \in Nat, n <= Window, n <= last[f]
  PROVE  n <= Count(f)
<1>1. last[f] \in Nat /\ Window \in Nat /\ DOMAIN rows[f] \subseteq 1..last[f]
  BY CorpusAssumption DEF TypeOK
<1> DEFINE newest == (last[f] - n + 1)..last[f]
<1>2. newest \in SUBSET DOMAIN rows[f]
  BY <1>1 DEF KeepsTheNewest
<1>a. last[f] - n + 1 \in Int /\ last[f] \in Int
  BY <1>1
<1>b. Cardinality(newest) = IF last[f] - n + 1 > last[f] THEN 0 ELSE last[f] - (last[f] - n + 1) + 1
  BY <1>a, FS_Interval
<1>3. Cardinality(newest) = n
  BY <1>1, <1>b
<1>4. IsFiniteSet(DOMAIN rows[f])
  BY FreqType
<1> HIDE DEF newest
<1>5. Cardinality(newest) <= Cardinality(DOMAIN rows[f])
  BY <1>2, <1>4, FS_Subset
<1> QED BY <1>3, <1>5 DEF Count

-----------------------------------------------------------------------------
\* No process counts more sessions than were given an ordinal in its file.

Backed ==
  \A i \in Instance :
    /\ pc[i] \in Live => sessions[i] <= last[file[i]]
    /\ pc[i] \in {"freqs0", "freqs"} => counted[i] <= last[file[i]]
    /\ pc[i] = "freqs" /\ sessions[i] >= ColdStart => counted[i] >= ColdStart

Acts(i) ==
  \/ \E s \in Session, paths \in SUBSET Path : RecordSession(i, s, paths)
  \/ Prune(i)
  \/ Others(i)

LEMMA OwnOnly ==
  ASSUME TypeOK, NEW i \in Instance, Acts(i), NEW j \in Instance \ {i}
  PROVE  /\ pc'[j] = pc[j] /\ file'[j] = file[j]
         /\ sessions'[j] = sessions[j] /\ counted'[j] = counted[j] /\ df'[j] = df[j]
<1>a. ProcessType /\ MemoryType
  BY TypeParts
<1>1. CASE \E s \in Session, paths \in SUBSET Path : RecordSession(i, s, paths)
  BY <1>1, <1>a DEF RecordSession, ProcessType, MemoryType
<1>2. CASE Prune(i)
  BY <1>2, <1>a DEF Prune, memory, ProcessType
<1>3. CASE \/ Start(i) \/ Reload(i) \/ LoadFails(i) \/ PruneFails(i) \/ MoveAside(i) \/ MoveSidecars(i)
           \/ Connect(i) \/ LoadCount(i) \/ LoadFreqs(i)
  BY <1>3, <1>a DEF Start, Reload, LoadFails, PruneFails, MoveAside, MoveSidecars,
                    Connect, LoadCount, LoadFreqs, memory, ProcessType, MemoryType
<1>4. CASE Stop(i) \/ OpenFails(i) \/ SchemaVersion(i) \/ FindsCorrupt(i)
  BY <1>4, <1>a DEF Stop, OpenFails, SchemaVersion, FindsCorrupt, Degrade, ProcessType, MemoryType
<1> QED BY <1>1, <1>2, <1>3, <1>4 DEF Acts, Others

LEMMA LastGrows ==
  ASSUME TypeOK, NEW i \in Instance, Acts(i), NEW f \in File
  PROVE  last[f] \in Nat /\ last'[f] \in Nat /\ last[f] <= last'[f]
<1>a. RowsType
  BY TypeParts
<1>1. CASE \E s \in Session, paths \in SUBSET Path : RecordSession(i, s, paths)
  <2> PICK s \in Session, paths \in SUBSET Path : RecordSession(i, s, paths)
    BY <1>1
  <2> QED BY RecordRows, <1>a DEF RowsType
<1>2. CASE Prune(i) \/ Others(i)
  BY <1>2, <1>a, OthersKeepRows DEF Prune, RowsType
<1> QED BY <1>1, <1>2 DEF Acts

LEMMA CountBelowLast ==
  ASSUME TypeOK, NEW f \in File
  PROVE  Count(f) <= last[f] /\ Count(f) \in Nat
<1>1. last[f] \in Nat /\ DOMAIN rows[f] \subseteq 1..last[f]
  BY DEF TypeOK
<1>2. IsFiniteSet(1..last[f]) /\ Cardinality(1..last[f]) = last[f]
  BY <1>1, FS_Interval
<1> QED BY <1>1, <1>2, FS_Subset, FreqType DEF Count

\* What a step does to the process that takes it.
LEMMA OwnBacked ==
  ASSUME TypeOK, KeepsTheNewest, Backed, NEW i \in Instance, Acts(i)
  PROVE  /\ pc'[i] \in Live => sessions'[i] <= last'[file'[i]]
         /\ pc'[i] \in {"freqs0", "freqs"} => counted'[i] <= last'[file'[i]]
         /\ pc'[i] = "freqs" /\ sessions'[i] >= ColdStart => counted'[i] >= ColdStart
<1>a. RowsType /\ ProcessType /\ MemoryType
  BY TypeParts
<1>1. CASE \E s \in Session, paths \in SUBSET Path : RecordSession(i, s, paths)
  <2> PICK s \in Session, paths \in SUBSET Path : RecordSession(i, s, paths)
    BY <1>1
  <2>1. pc[i] \in Live /\ file[i] \in File /\ UNCHANGED file /\ pc'[i] \notin {"freqs0", "freqs"}
    BY <1>a DEF RecordSession, ProcessType, Live, Holding
  <2>2. sessions'[i] = IF Recorded(file[i], s) THEN sessions[i] ELSE sessions[i] + 1
    BY <1>a DEF RecordSession, MemoryType
  <2>3. last'[file[i]] = IF Recorded(file[i], s) THEN last[file[i]] ELSE last[file[i]] + 1
    BY RecordRows
  <2>4. sessions[i] <= last[file[i]] /\ sessions[i] \in Nat /\ last[file[i]] \in Nat
    BY <2>1, <1>a DEF Backed, MemoryType, RowsType
  <2> QED BY <2>1, <2>2, <2>3, <2>4
<1>2. CASE Prune(i) \/ Reload(i) \/ LoadFails(i) \/ PruneFails(i)
  BY <1>2, <1>a DEF Prune, Reload, LoadFails, PruneFails, memory, store, Backed, ProcessType, Live
<1>3. CASE \/ Start(i) \/ MoveAside(i) \/ MoveSidecars(i) \/ Connect(i) \/ Stop(i)
           \/ OpenFails(i) \/ SchemaVersion(i) \/ FindsCorrupt(i)
  <2>1. pc'[i] \notin Live \cup {"freqs0", "freqs"}
    BY <1>3, <1>a DEF Start, MoveAside, MoveSidecars, Connect, Stop, OpenFails, SchemaVersion,
                      FindsCorrupt, Degrade, ProcessType, Live
  <2> QED BY <2>1 DEF Live
<1>4. CASE LoadCount(i)
  <2>1. file[i] \in File /\ UNCHANGED <<file, last, sessions>>
    BY <1>4, <1>a DEF LoadCount, store, ProcessType, Live, Holding
  <2>2. counted'[i] = Count(file[i])
    BY <1>4, <1>a DEF LoadCount, MemoryType
  <2>3. counted'[i] <= last[file[i]] /\ counted'[i] \in Nat /\ last[file[i]] \in Nat
    BY <2>1, <2>2, CountBelowLast, <1>a DEF RowsType
  <2>4. pc'[i] \in {"freqs0", "freqs"} /\ (pc'[i] = "freqs" => pc[i] = "count")
    BY <1>4, <1>a DEF LoadCount, ProcessType
  <2>5. pc[i] = "count" => sessions[i] <= last[file[i]] /\ sessions[i] \in Nat
    BY <1>a DEF Backed, Live, MemoryType
  <2>6. pc[i] = "count" /\ sessions[i] >= ColdStart => counted'[i] >= ColdStart
    BY <2>1, <2>2, <2>3, <2>5, EnoughRows, CorpusAssumption
  <2>7. pc'[i] \notin Live \/ pc'[i] = "freqs"
    BY <2>4 DEF Live
  <2>8. pc'[i] = "freqs" => sessions'[i] <= last'[file'[i]]
    BY <2>1, <2>4, <2>5
  <2>9. pc'[i] = "freqs" /\ sessions'[i] >= ColdStart => counted'[i] >= ColdStart
    BY <2>1, <2>4, <2>6
  <2> QED BY <2>1, <2>3, <2>7, <2>8, <2>9
<1>5. CASE LoadFreqs(i)
  BY <1>5, <1>a DEF LoadFreqs, store, Backed, ProcessType, MemoryType
<1> QED BY <1>1, <1>2, <1>3, <1>4, <1>5 DEF Acts, Others

LEMMA BackedStep == TypeOK /\ KeepsTheNewest /\ Backed /\ [Next]_vars => Backed'
<1> SUFFICES ASSUME TypeOK, KeepsTheNewest, Backed, [Next]_vars PROVE Backed'
  OBVIOUS
<1>a. ProcessType /\ MemoryType
  BY TypeParts
<1>1. ASSUME NEW i \in Instance, Acts(i) PROVE Backed'
  <2> SUFFICES ASSUME NEW j \in Instance
               PROVE  /\ pc'[j] \in Live => sessions'[j] <= last'[file'[j]]
                      /\ pc'[j] \in {"freqs0", "freqs"} => counted'[j] <= last'[file'[j]]
                      /\ pc'[j] = "freqs" /\ sessions'[j] >= ColdStart => counted'[j] >= ColdStart
    BY DEF Backed
  <2>1. CASE j = i
    BY <1>1, <2>1, OwnBacked
  <2>2. CASE j # i
    <3>1. /\ pc'[j] = pc[j] /\ file'[j] = file[j]
          /\ sessions'[j] = sessions[j] /\ counted'[j] = counted[j]
      BY <1>1, <2>2, OwnOnly
    <3>2. pc[j] \in Live \cup {"freqs0", "freqs"} => file[j] \in File
      BY <1>a DEF ProcessType, Holding, Live
    <3>3. sessions[j] \in Nat /\ counted[j] \in Nat
      BY <1>a DEF MemoryType
    <3> QED BY <1>1, <3>1, <3>2, <3>3, LastGrows DEF Backed
  <2> QED BY <2>1, <2>2
<1>2. CASE UNCHANGED vars
  BY <1>2 DEF Backed, vars, store, memory, process
<1> QED BY <1>1, <1>2, NextShape DEF Acts

LEMMA BackedInit == Init => Backed
BY DEF Init, Backed, Live

LEMMA SwitchStep ==
  ASSUME TypeOK, Backed, [Next]_vars, NEW i \in Instance, Learned(i), pc'[i] \in Live
  PROVE  Learned(i)'
<1>a. ProcessType /\ MemoryType /\ ColdStart \in Nat
  BY TypeParts, CorpusAssumption
<1>1. ASSUME NEW k \in Instance, Acts(k), k # i PROVE Learned(i)'
  BY <1>1, OwnOnly DEF Learned
<1>2. CASE \E s \in Session, paths \in SUBSET Path : RecordSession(i, s, paths)
  BY <1>2, <1>a DEF RecordSession, Learned, MemoryType
<1>3. CASE LoadFreqs(i)
  BY <1>3, <1>a DEF LoadFreqs, Learned, Backed, Live, ProcessType, MemoryType
<1>4. CASE \/ Prune(i) \/ Start(i) \/ Reload(i) \/ MoveAside(i) \/ MoveSidecars(i)
           \/ Connect(i) \/ LoadFails(i) \/ PruneFails(i) \/ LoadCount(i)
  BY <1>4 DEF Prune, Start, Reload, MoveAside, MoveSidecars, Connect, LoadFails, PruneFails, LoadCount,
              memory, Learned
<1>5. CASE Stop(i) \/ OpenFails(i) \/ SchemaVersion(i) \/ FindsCorrupt(i)
  <2>1. pc[i] \notin Live \/ pc'[i] \notin Live
    BY <1>5, <1>a DEF Stop, OpenFails, SchemaVersion, FindsCorrupt, Opening, Live, ProcessType
  <2> QED BY <2>1 DEF Learned
<1>6. CASE UNCHANGED vars
  BY <1>6 DEF vars, memory, process, Learned
<1> QED BY <1>1, <1>2, <1>3, <1>4, <1>5, <1>6, NextShape DEF Acts, Others

\* A process that answers from the corpus goes on doing so, whoever prunes the
\* file and whatever it reloads (Regime: "the switch happens once").
THEOREM SwitchesOnce == Spec => SwitchOnce
<1>1. TypeOK /\ Backed /\ [Next]_vars => [\A i \in Instance : Learned(i) /\ pc'[i] \in Live => Learned(i)']_vars
  BY SwitchStep
<1> QED BY <1>1, BackedInit, BackedStep, NewestInit, NewestStep, TypeCorrect, PTL DEF Spec, SwitchOnce

-----------------------------------------------------------------------------
\* What a process holds in memory is what the file says, unless it is behind.

Exact(i) == sessions[i] = Count(file[i]) /\ df[i] = Freq(file[i])

UpToDate(i) ==
  /\ pc[i] \in {"idle", "prune", "count"} => Exact(i)
  /\ pc[i] \in {"freqs0", "freqs"} => counted[i] = Count(file[i])

ExactInv == \A i \in Instance : ~behind[i] => UpToDate(i)

\* A transaction that inserts nothing changes nothing; one that does puts
\* every other process on the file behind.
LEMMA RecordVisible ==
  ASSUME TypeOK, NEW i \in Instance, NEW s \in Session, NEW paths \in SUBSET Path,
         RecordSession(i, s, paths), NEW j \in Instance \ {i}, ~behind'[j], file[j] \in File
  PROVE  ~behind[j] /\ rows'[file[j]] = rows[file[j]]
<1>a. RowsType /\ ProcessType
  BY TypeParts
<1> DEFINE f == file[i]
           o == IF Recorded(f, s) THEN OrdinalOf(f, s) ELSE last[f] + 1
           changes == ~Recorded(f, s) \/ FirstTime(f, s, paths) # {}
<1>1. behind' = IF changes THEN Behind(i) ELSE behind
  BY DEF RecordSession
<1>2. Behind(i)[j] = (behind[j] \/ (j # i /\ file[j] = file[i]))
  BY DEF Behind
<1>3. ~behind[j] /\ (changes => file[j] # file[i])
  <2>1. CASE changes
    <3>1. ~Behind(i)[j]
      BY <1>1, <2>1
    <3> QED BY <3>1, <1>2
  <2>2. CASE ~changes
    BY <1>1, <2>2
  <2> QED BY <2>1, <2>2
<1>4. CASE file[j] # f
  BY <1>3, <1>4, RecordRows
<1>5. CASE file[j] = f
  <2>1. ~changes
    BY <1>3, <1>5
  <2>2. Recorded(f, s) /\ paths \subseteq rows[f][o].paths
    BY <2>1 DEF FirstTime
  <2> HIDE DEF o
  <2>3. /\ o \in DOMAIN rows[f] /\ DOMAIN rows'[f] = DOMAIN rows[f] \cup {o}
        /\ rows'[f][o].paths = rows[f][o].paths \cup paths
        /\ rows'[f][o].session = s /\ rows[f][o].session = s
        /\ rows'[f] \in [DOMAIN rows'[f] -> Row] /\ f \in File
        /\ \A q \in DOMAIN rows[f] \ {o} : rows'[f][q] = rows[f][q]
    BY <2>2, RecordRows DEF o
  <2>4. rows[f] \in [DOMAIN rows[f] -> Row]
    BY <2>3, <1>a DEF RowsType
  <2>5. rows'[f][o] \in Row /\ rows[f][o] \in Row /\ DOMAIN rows'[f] = DOMAIN rows[f]
    BY <2>3, <2>4
  <2>6. rows'[f][o].paths = rows[f][o].paths
    BY <2>2, <2>3 DEF o
  <2>7. rows'[f][o] = rows[f][o]
    BY <2>3, <2>5, <2>6 DEF Row
  <2>8. rows'[f] = rows[f]
    BY <2>3, <2>4, <2>5, <2>7
  <2> QED BY <1>3, <1>5, <2>8
<1> QED BY <1>4, <1>5

LEMMA PruneVisible ==
  ASSUME TypeOK, NEW i \in Instance, Prune(i), NEW j \in Instance, ~behind'[j], file[j] \in File
  PROVE  ~behind[j] /\ rows'[file[j]] = rows[file[j]] /\ (j = i => pc'[i] = "idle")
<1>a. RowsType /\ ProcessType
  BY TypeParts
<1> DEFINE f == file[i]
           drops == DOMAIN rows[f] \ Newest(f) # {}
<1>1. /\ behind' = IF drops THEN [Behind(i) EXCEPT ![i] = TRUE] ELSE behind
      /\ pc' = [pc EXCEPT ![i] = IF drops THEN "count" ELSE "idle"]
  BY DEF Prune
<1>2. Behind(i) \in [Instance -> BOOLEAN] /\ Behind(i)[j] = (behind[j] \/ (j # i /\ file[j] = file[i]))
  BY <1>a DEF Behind, ProcessType
<1>3. drops => j # i /\ ~Behind(i)[j]
  BY <1>1, <1>2
<1>4. ~behind[j] /\ (drops => file[j] # f)
  <2>1. CASE drops
    BY <1>2, <1>3, <2>1
  <2>2. CASE ~drops
    BY <1>1, <2>2
  <2> QED BY <2>1, <2>2
<1>5. j = i => pc'[i] = "idle"
  BY <1>1, <1>3, <1>a DEF ProcessType
<1>6. CASE file[j] # f
  BY <1>4, <1>5, <1>6, PruneRows
<1>7. CASE file[j] = f
  <2>1. Newest(f) = DOMAIN rows[f]
    BY <1>4, <1>7, PruneRows
  <2>2. rows'[f] = rows[f]
    BY <2>1, PruneRows, <1>a DEF RowsType
  <2> QED BY <1>4, <1>5, <1>7, <2>2
<1> QED BY <1>6, <1>7

\* The process that records keeps its own index in step.
LEMMA RecordExact ==
  ASSUME TypeOK, NEW i \in Instance, NEW s \in Session, NEW paths \in SUBSET Path,
         RecordSession(i, s, paths), Exact(i)
  PROVE  sessions'[i] = Cardinality(DOMAIN rows'[file[i]])
         /\ df'[i] = [p \in Path |-> Cardinality({q \in DOMAIN rows'[file[i]] : p \in rows'[file[i]][q].paths})]
<1>a. RowsType /\ ProcessType /\ MemoryType
  BY TypeParts
<1> DEFINE f == file[i]
           o == IF Recorded(f, s) THEN OrdinalOf(f, s) ELSE last[f] + 1
           first == FirstTime(f, s, paths)
           of(p) == {q \in DOMAIN rows[f] : p \in rows[f][q].paths}
           then(p) == {q \in DOMAIN rows'[f] : p \in rows'[f][q].paths}
<1>1. /\ f \in File
      /\ o \in DOMAIN rows[f] <=> Recorded(f, s)
      /\ DOMAIN rows'[f] = DOMAIN rows[f] \cup {o}
      /\ \A q \in DOMAIN rows[f] \ {o} : rows'[f][q] = rows[f][q]
      /\ Recorded(f, s) => rows'[f][o].paths = rows[f][o].paths \cup paths
      /\ ~Recorded(f, s) => rows'[f][o].paths = paths
  BY RecordRows
<1>2. IsFiniteSet(DOMAIN rows[f])
  BY <1>1, FreqType
<1>3. /\ sessions'[i] = IF ~Recorded(f, s) THEN sessions[i] + 1 ELSE sessions[i]
      /\ df'[i] = [p \in Path |-> IF p \in first THEN df[i][p] + 1 ELSE df[i][p]]
  BY <1>a DEF RecordSession, MemoryType
<1>4. Recorded(f, s) => first = paths \ rows[f][o].paths
  BY DEF FirstTime
<1>5. ~Recorded(f, s) => first = paths
  BY DEF FirstTime
<1> HIDE DEF o, first
<1>6. sessions'[i] = Cardinality(DOMAIN rows'[f])
  <2>1. sessions[i] = Cardinality(DOMAIN rows[f])
    BY DEF Exact, Count
  <2>2. CASE Recorded(f, s)
    <3>1. DOMAIN rows'[f] = DOMAIN rows[f]
      BY <1>1, <2>2
    <3> QED BY <3>1, <2>1, <2>2, <1>3
  <2>3. CASE ~Recorded(f, s)
    <3>1. Cardinality(DOMAIN rows[f] \cup {o}) = Cardinality(DOMAIN rows[f]) + 1
      BY <1>1, <1>2, <2>3, FS_AddElement
    <3> QED BY <3>1, <2>1, <2>3, <1>1, <1>3
  <2> QED BY <2>2, <2>3
<1>7. ASSUME NEW p \in Path
      PROVE  Cardinality(then(p)) = IF p \in first THEN df[i][p] + 1 ELSE df[i][p]
  <2>1. df[i][p] = Cardinality(of(p))
    BY DEF Exact, Freq
  <2>2. IsFiniteSet(of(p))
    BY <1>2, FS_Subset
  <2>3. CASE p \in first
    <3>1. o \notin of(p)
      BY <2>3, <1>1, <1>4
    <3>2. then(p) = of(p) \cup {o}
      BY <2>3, <1>1, <1>4, <1>5
    <3>3. Cardinality(of(p) \cup {o}) = Cardinality(of(p)) + 1
      BY <2>2, <3>1, FS_AddElement
    <3> QED BY <2>1, <2>3, <3>2, <3>3
  <2>4. CASE p \notin first
    <3>1. then(p) = of(p)
      BY <2>4, <1>1, <1>4, <1>5
    <3> QED BY <2>1, <2>4, <3>1
  <2> QED BY <2>3, <2>4
<1>8. df'[i] = [p \in Path |-> Cardinality(then(p))]
  BY <1>3, <1>7
<1> QED BY <1>6, <1>8

LEMMA UpToDateKept ==
  ASSUME NEW j \in Instance, UpToDate(j), pc'[j] = pc[j], file'[j] = file[j],
         sessions'[j] = sessions[j], counted'[j] = counted[j], df'[j] = df[j],
         pc[j] \in Live \cup {"freqs0"} => rows'[file[j]] = rows[file[j]]
  PROVE  UpToDate(j)'
<1>1. CASE pc[j] \in Live \cup {"freqs0"}
  BY <1>1 DEF UpToDate, Exact, Count, Freq
<1>2. CASE pc[j] \notin Live \cup {"freqs0"}
  BY <1>2 DEF UpToDate, Live
<1> QED BY <1>1, <1>2

\* What a step does to the process that takes it.
LEMMA OwnExact ==
  ASSUME TypeOK, ExactInv, NEW i \in Instance, Acts(i), ~behind'[i]
  PROVE  UpToDate(i)'
<1>a. ProcessType /\ MemoryType
  BY TypeParts
<1>1. CASE \E s \in Session, paths \in SUBSET Path : RecordSession(i, s, paths)
  <2> PICK s \in Session, paths \in SUBSET Path : RecordSession(i, s, paths)
    BY <1>1
  <2>1. pc[i] = "idle" /\ UNCHANGED file /\ pc'[i] \in {"prune", "idle"}
    BY <1>a DEF RecordSession, ProcessType
  <2>2. behind' \in {behind, Behind(i)} /\ Behind(i)[i] = behind[i]
    BY <1>a DEF RecordSession, Behind, ProcessType
  <2>3. ~behind[i]
    BY <2>2
  <2>4. Exact(i)
    BY <2>1, <2>3 DEF ExactInv, UpToDate
  <2>5. /\ sessions'[i] = Cardinality(DOMAIN rows'[file[i]])
        /\ df'[i] = [p \in Path |-> Cardinality({q \in DOMAIN rows'[file[i]] : p \in rows'[file[i]][q].paths})]
    BY <2>4, RecordExact
  <2>6. Exact(i)'
    BY <2>1, <2>5 DEF Exact, Count, Freq
  <2> QED BY <2>1, <2>6 DEF UpToDate
<1>2. CASE Prune(i)
  <2>1. pc[i] = "prune" /\ UNCHANGED <<file, sessions, df>> /\ file[i] \in File
    BY <1>2, <1>a DEF Prune, memory, ProcessType, Live, Holding
  <2>2. ~behind[i] /\ rows'[file[i]] = rows[file[i]] /\ pc'[i] = "idle"
    BY <1>2, <2>1, PruneVisible
  <2>3. Exact(i)
    BY <2>1, <2>2 DEF ExactInv, UpToDate
  <2> QED BY <2>1, <2>2, <2>3 DEF UpToDate, Exact, Count, Freq
<1>3. CASE LoadCount(i)
  <2>1. UNCHANGED <<rows, file>> /\ counted'[i] = Count(file[i]) /\ pc'[i] \in {"freqs0", "freqs"}
    BY <1>3, <1>a DEF LoadCount, store, ProcessType, MemoryType
  <2> QED BY <2>1 DEF UpToDate, Count
<1>4. CASE LoadFreqs(i)
  <2>1. /\ UNCHANGED <<rows, file, behind>> /\ pc[i] \in {"freqs0", "freqs"} /\ pc'[i] = "idle"
        /\ sessions'[i] = counted[i] /\ df'[i] = Freq(file[i])
    BY <1>4, <1>a DEF LoadFreqs, store, ProcessType, MemoryType
  <2>2. counted[i] = Count(file[i])
    BY <2>1 DEF ExactInv, UpToDate
  <2> QED BY <2>1, <2>2 DEF UpToDate, Exact, Count, Freq
<1>5. CASE LoadFails(i)
  BY <1>5, <1>a DEF LoadFails, ProcessType
<1>6. CASE Reload(i) \/ PruneFails(i)
  <2>1. /\ UNCHANGED <<rows, file, behind, sessions, df>> /\ pc[i] \in {"idle", "prune"}
        /\ pc'[i] \in {"idle", "count"}
    BY <1>6, <1>a DEF Reload, PruneFails, store, memory, ProcessType
  <2> QED BY <2>1 DEF ExactInv, UpToDate, Exact, Count, Freq
<1>7. CASE \/ Start(i) \/ MoveAside(i) \/ MoveSidecars(i) \/ Connect(i) \/ Stop(i)
           \/ OpenFails(i) \/ SchemaVersion(i) \/ FindsCorrupt(i)
  <2>1. pc'[i] \in Dead \cup {"connect", "version", "corrupt", "sidecars", "count0"}
    BY <1>7, <1>a DEF Start, MoveAside, MoveSidecars, Connect, Stop, OpenFails, SchemaVersion,
                      FindsCorrupt, Degrade, ProcessType, Dead
  <2> QED BY <2>1 DEF UpToDate, Dead
<1> QED BY <1>1, <1>2, <1>3, <1>4, <1>5, <1>6, <1>7 DEF Acts, Others

LEMMA OthersBehind ==
  ASSUME TypeOK, NEW i \in Instance, Others(i), NEW j \in Instance \ {i}
  PROVE  behind'[j] = behind[j]
BY TypeParts DEF ProcessType, Others, Start, Reload, Stop, Connect, SchemaVersion, FindsCorrupt, MoveAside,
                 MoveSidecars, OpenFails, LoadCount, LoadFreqs, LoadFails, PruneFails

LEMMA ExactStep == TypeOK /\ ExactInv /\ [Next]_vars => ExactInv'
<1> SUFFICES ASSUME TypeOK, ExactInv, [Next]_vars PROVE ExactInv'
  OBVIOUS
<1>a. ProcessType
  BY TypeParts
<1>1. ASSUME NEW i \in Instance, Acts(i), NEW j \in Instance, ~behind'[j] PROVE UpToDate(j)'
  <2>1. CASE j = i
    BY <1>1, <2>1, OwnExact
  <2>2. CASE j # i
    <3>1. /\ pc'[j] = pc[j] /\ file'[j] = file[j]
          /\ sessions'[j] = sessions[j] /\ counted'[j] = counted[j] /\ df'[j] = df[j]
      BY <1>1, <2>2, OwnOnly
    <3>2. pc[j] \in Live \cup {"freqs0"} => file[j] \in File
      BY <1>a DEF ProcessType, Holding
    <3>3. ASSUME pc[j] \in Live \cup {"freqs0"}
          PROVE  ~behind[j] /\ rows'[file[j]] = rows[file[j]]
      BY <1>1, <2>2, <3>2, <3>3, RecordVisible, PruneVisible, OthersBehind, OthersKeepRows DEF Acts
    <3>4. CASE pc[j] \in Live \cup {"freqs0"}
      <4>1. UpToDate(j)
        BY <3>3, <3>4 DEF ExactInv
      <4> QED BY <3>1, <3>3, <4>1, UpToDateKept
    <3>5. CASE pc[j] \notin Live \cup {"freqs0"}
      BY <3>1, <3>5 DEF UpToDate, Live
    <3> QED BY <3>4, <3>5
  <2> QED BY <2>1, <2>2
<1>2. CASE UNCHANGED vars
  BY <1>2 DEF ExactInv, UpToDate, Exact, Count, Freq, vars, store, memory, process
<1> QED BY <1>1, <1>2, NextShape DEF Acts, ExactInv

LEMMA ExactInit == Init => ExactInv
BY DEF Init, ExactInv, UpToDate

\* Between two calls the index in memory is what load_index would read from
\* the file, unless another process wrote to it or a load failed.
THEOREM IndexExact == Spec => []IndexIsExact
<1>1. ExactInv => IndexIsExact
  BY DEF ExactInv, UpToDate, Exact, IndexIsExact
<1> QED BY <1>1, ExactInit, ExactStep, TypeCorrect, PTL DEF Spec
=============================================================================
