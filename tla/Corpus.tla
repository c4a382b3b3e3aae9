------------------------------- MODULE Corpus -------------------------------
(***************************************************************************)
(* The corpus (polis-repo/src/corpus.rs): which sessions read which paths, *)
(* in an SQLite file several Polis processes share, and the index over it  *)
(* each process keeps in memory.  A transaction is one step; what lies     *)
(* between two of them - the commit of a session and its pruning, the two  *)
(* queries of load_index, a failed open and the renames of move_aside - is *)
(* not.                                                                    *)
(*                                                                         *)
(* Abstracted: a path is its store key; busy, disk and I/O errors are one  *)
(* failure that a step may meet; a corrupt file is one that an open does   *)
(* not get through, wherever the damage is.  The -wal and -shm files have  *)
(* no state: SQLite discards a log it finds beside an empty database, so   *)
(* one left behind by move_aside is not read.                              *)
(***************************************************************************)
EXTENDS Naturals, FiniteSets

CONSTANTS
  Instance,      \* Polis processes
  Session,       \* session ids
  Path,          \* paths sessions read, up to ASCII case
  Window,        \* ROLLING_WINDOW_SESSIONS
  ColdStart,     \* COLD_START_SESSIONS
  None,          \* no file
  MaxSessions,   \* bound: ordinals given out, in all files
  MaxFaults      \* bound: crashes and failed transactions, together

\* A file is named by the order it was created in; file 0 may be found.
File == 0..(2 * Cardinality(Instance))

ASSUME CorpusAssumption ==
  /\ Window \in Nat /\ ColdStart \in Nat
  /\ 0 < ColdStart /\ ColdStart <= Window
  /\ IsFiniteSet(Instance) /\ None \notin File
  /\ MaxSessions \in Nat /\ MaxFaults \in Nat

VARIABLES
  \* @file: what SQLite holds
  rows,       \* [File -> ordinal -> [session, paths]]: session joined with observation
  last,       \* [File -> Nat]: the highest ordinal given out (AUTOINCREMENT)
  state,      \* [File -> {"fresh", "current", "newer", "corrupt"}]: user_version, or unreadable
  here,       \* the file at corpus.db, or None
  files,      \* files created
  \* @process
  pc,         \* [Instance -> what the process does next]
  file,       \* [Instance -> File or None]: the connection
  sessions,   \* [Instance -> Nat]
  df,         \* [Instance -> Path -> Nat]
  counted,    \* [Instance -> Nat]: load_index's first result
  second,     \* [Instance -> BOOLEAN]: the open that follows move_aside
  \* @history
  behind,     \* [Instance -> BOOLEAN]: its file changed since its index was read
  faults

store   == <<rows, last, state, here, files>>
memory  == <<sessions, df, counted>>
process == <<pc, file, second>>
vars    == <<store, memory, process, behind, faults>>

Dead == {"off", "degraded"}
Live == {"idle", "prune", "count", "freqs"}   \* a Corpus exists and its store is Live
Opening == {"connect", "version", "count0", "freqs0", "corrupt", "sidecars"}

Count(f)  == Cardinality(DOMAIN rows[f])
Freq(f)   == [p \in Path |-> Cardinality({o \in DOMAIN rows[f] : p \in rows[f][o].paths})]
Issued    == Cardinality({fo \in File \X (1..MaxSessions) : fo[2] <= last[fo[1]]})
NoPath    == [p \in Path |-> 0]

Init ==
  /\ \E s \in {"current", "newer", "corrupt"}, found \in BOOLEAN :
       /\ state = [f \in File |-> IF f = 0 /\ found THEN s ELSE "fresh"]
       /\ here = IF found THEN 0 ELSE None
  /\ files = 0
  /\ rows = [f \in File |-> [o \in {} |-> {}]]
  /\ last = [f \in File |-> 0]
  /\ pc = [i \in Instance |-> "off"]
  /\ file = [i \in Instance |-> None]
  /\ sessions = [i \in Instance |-> 0]
  /\ df = [i \in Instance |-> NoPath]
  /\ counted = [i \in Instance |-> 0]
  /\ second = [i \in Instance |-> FALSE]
  /\ behind = [i \in Instance |-> FALSE]
  /\ faults = 0

Fails == /\ faults < MaxFaults
         /\ faults' = faults + 1

-----------------------------------------------------------------------------
(* Opening: open_or_degraded. *)

Start(i) ==
  /\ pc[i] = "off"
  /\ pc' = [pc EXCEPT ![i] = "connect"]
  /\ UNCHANGED <<store, memory, file, second, behind, faults>>

\* Connection::open takes the file at the path and creates it if there is none.
Connect(i) ==
  /\ pc[i] = "connect"
  /\ IF here # None
     THEN /\ file' = [file EXCEPT ![i] = here]
          /\ UNCHANGED <<here, files>>
     ELSE /\ files + 1 \in File
          /\ files' = files + 1
          /\ here' = files + 1
          /\ file' = [file EXCEPT ![i] = files + 1]
  /\ pc' = [pc EXCEPT ![i] = "version"]
  /\ UNCHANGED <<rows, last, state, memory, second, behind, faults>>

Degrade(i) ==
  /\ pc' = [pc EXCEPT ![i] = "degraded"]
  /\ file' = [file EXCEPT ![i] = None]
  /\ sessions' = [sessions EXCEPT ![i] = 0]
  /\ df' = [df EXCEPT ![i] = NoPath]

\* schema_version and migrate: a newer schema, or a store to load - one that is
\* damaged where they do not read included.
SchemaVersion(i) ==
  /\ pc[i] = "version"
  /\ \/ /\ state[file[i]] # "newer"
        /\ state' = [state EXCEPT ![file[i]] = IF @ = "fresh" THEN "current" ELSE @]
        /\ pc' = [pc EXCEPT ![i] = "count0"]
        /\ UNCHANGED <<file, sessions, df, second>>
     \/ /\ state[file[i]] = "newer"
        /\ Degrade(i)
        /\ second' = [second EXCEPT ![i] = FALSE]
        /\ UNCHANGED state
  /\ UNCHANGED <<rows, last, here, files, counted, behind, faults>>

\* Any read of open_raw may come upon the damage: those of migrate and those of
\* load_index.
FindsCorrupt(i) ==
  /\ pc[i] \in {"version", "count0", "freqs0"}
  /\ state[file[i]] = "corrupt"
  /\ IF second[i]
     THEN Degrade(i)
     ELSE /\ pc' = [pc EXCEPT ![i] = "corrupt"]
          /\ file' = [file EXCEPT ![i] = None]
          /\ UNCHANGED <<sessions, df>>
  /\ counted' = [counted EXCEPT ![i] = 0]
  /\ second' = [second EXCEPT ![i] = FALSE]
  /\ behind' = [behind EXCEPT ![i] = FALSE]
  /\ UNCHANGED <<store, faults>>

\* move_aside renames the database - whatever is at the path by now - and then
\* its sidecars; another process may open the path in between.
MoveAside(i) ==
  /\ pc[i] = "corrupt"
  /\ here' = None
  /\ pc' = [pc EXCEPT ![i] = "sidecars"]
  /\ UNCHANGED <<rows, last, state, files, file, memory, second, behind, faults>>

MoveSidecars(i) ==
  /\ pc[i] = "sidecars"
  /\ pc' = [pc EXCEPT ![i] = "connect"]
  /\ second' = [second EXCEPT ![i] = TRUE]
  /\ UNCHANGED <<store, file, memory, behind, faults>>

\* A locked file, an unwritable directory, a rename refused: of the database,
\* which then stays, or of a sidecar when the database has gone.
OpenFails(i) ==
  /\ pc[i] \in Opening
  /\ Fails
  /\ Degrade(i)
  /\ counted' = [counted EXCEPT ![i] = 0]
  /\ second' = [second EXCEPT ![i] = FALSE]
  /\ behind' = [behind EXCEPT ![i] = FALSE]
  /\ UNCHANGED store

-----------------------------------------------------------------------------
(* load_index: two queries, each of the file as it is then. *)

LoadCount(i) ==
  /\ pc[i] \in {"count0", "count"}
  /\ counted' = [counted EXCEPT ![i] = Count(file[i])]
  /\ behind' = [behind EXCEPT ![i] = FALSE]
  /\ pc' = [pc EXCEPT ![i] = IF @ = "count0" THEN "freqs0" ELSE "freqs"]
  /\ UNCHANGED <<store, sessions, df, file, second, faults>>

LoadFreqs(i) ==
  /\ pc[i] \in {"freqs0", "freqs"}
  /\ state[file[i]] # "corrupt"
  /\ sessions' = [sessions EXCEPT ![i] = counted[i]]
  /\ df' = [df EXCEPT ![i] = Freq(file[i])]
  /\ counted' = [counted EXCEPT ![i] = 0]
  /\ second' = [second EXCEPT ![i] = FALSE]
  /\ pc' = [pc EXCEPT ![i] = "idle"]
  /\ UNCHANGED <<store, file, behind, faults>>

\* An index that was being replaced stays as it was.
LoadFails(i) ==
  /\ pc[i] \in {"count", "freqs"}
  /\ Fails
  /\ behind' = [behind EXCEPT ![i] = TRUE]
  /\ counted' = [counted EXCEPT ![i] = 0]
  /\ pc' = [pc EXCEPT ![i] = "idle"]
  /\ UNCHANGED <<store, sessions, df, file, second>>

Reload(i) ==
  /\ pc[i] = "idle"
  /\ pc' = [pc EXCEPT ![i] = "count"]
  /\ UNCHANGED <<store, memory, file, second, behind, faults>>

-----------------------------------------------------------------------------
(* record_session and prune. *)

OrdinalOf(f, s) == CHOOSE o \in DOMAIN rows[f] : rows[f][o].session = s
Recorded(f, s)  == \E o \in DOMAIN rows[f] : rows[f][o].session = s

\* The paths INSERT OR IGNORE does insert.
CountsEvery(f, s, paths) == paths
FirstTime(f, s, paths) ==
  IF Recorded(f, s) THEN paths \ rows[f][OrdinalOf(f, s)].paths ELSE paths

\* The others on the file do not see the change until they load.
Behind(i) == [j \in Instance |-> behind[j] \/ (j # i /\ file[j] = file[i])]

\* The transaction, and the index brought in step with what it inserted.  One
\* that fails is rolled back and changes nothing.
RecordSession(i, s, paths) ==
  LET f     == file[i]
      isNew == ~Recorded(f, s)
      o     == IF isNew THEN last[f] + 1 ELSE OrdinalOf(f, s)
      first == FirstTime(f, s, paths)
      was   == IF isNew THEN {} ELSE rows[f][o].paths
  IN
  /\ pc[i] = "idle"
  /\ isNew => Issued < MaxSessions
  /\ rows' = [rows EXCEPT ![f] =
       [q \in DOMAIN @ \cup {o} |-> IF q = o THEN [session |-> s, paths |-> was \cup paths] ELSE @[q]]]
  /\ last' = [last EXCEPT ![f] = IF isNew THEN o ELSE @]
  /\ sessions' = [sessions EXCEPT ![i] = IF isNew THEN @ + 1 ELSE @]
  /\ df' = [df EXCEPT ![i] = [p \in Path |-> IF p \in first THEN @[p] + 1 ELSE @[p]]]
  /\ pc' = [pc EXCEPT ![i] = IF sessions'[i] > Window THEN "prune" ELSE "idle"]
  /\ behind' = IF isNew \/ first # {} THEN Behind(i) ELSE behind
  /\ UNCHANGED <<state, here, files, counted, file, second, faults>>

\* The sessions a prune keeps: the newest keep_sessions.
KeepsOneLess(f) == {o \in DOMAIN rows[f] : Cardinality({q \in DOMAIN rows[f] : q > o}) + 1 < Window}
Newest(f) == {o \in DOMAIN rows[f] : Cardinality({q \in DOMAIN rows[f] : q > o}) < Window}

Prune(i) ==
  LET f == file[i]
      dropped == DOMAIN rows[f] \ Newest(f)
  IN
  /\ pc[i] = "prune"
  /\ rows' = [rows EXCEPT ![f] = [o \in Newest(f) |-> @[o]]]
  /\ pc' = [pc EXCEPT ![i] = IF dropped # {} THEN "count" ELSE "idle"]
  /\ behind' = IF dropped # {} THEN [Behind(i) EXCEPT ![i] = TRUE] ELSE behind
  /\ UNCHANGED <<last, state, here, files, memory, file, second, faults>>

\* Another writer got in between its SELECT and its DELETE: record_session
\* returns the error, the session stays recorded.
PruneFails(i) ==
  /\ pc[i] = "prune"
  /\ Fails
  /\ pc' = [pc EXCEPT ![i] = "idle"]
  /\ UNCHANGED <<store, memory, file, second, behind>>

-----------------------------------------------------------------------------
\* A process ends, or dies anywhere; committed transactions stay.
Stop(i) ==
  /\ pc[i] # "off"
  /\ IF pc[i] \in {"idle", "degraded"} THEN UNCHANGED faults ELSE Fails
  /\ pc' = [pc EXCEPT ![i] = "off"]
  /\ file' = [file EXCEPT ![i] = None]
  /\ sessions' = [sessions EXCEPT ![i] = 0]
  /\ df' = [df EXCEPT ![i] = NoPath]
  /\ counted' = [counted EXCEPT ![i] = 0]
  /\ behind' = [behind EXCEPT ![i] = FALSE]
  /\ second' = [second EXCEPT ![i] = FALSE]
  /\ UNCHANGED store

Steps(i) ==
  \/ Connect(i) \/ SchemaVersion(i) \/ FindsCorrupt(i) \/ OpenFails(i)
  \/ MoveAside(i) \/ MoveSidecars(i)
  \/ LoadCount(i) \/ LoadFreqs(i) \/ LoadFails(i)
  \/ Prune(i) \/ PruneFails(i)

Next ==
  \E i \in Instance :
    \/ Start(i) \/ Reload(i) \/ Stop(i)
    \/ \E s \in Session, paths \in SUBSET Path : RecordSession(i, s, paths)
    \/ Steps(i)

Spec == Init /\ [][Next]_vars

-----------------------------------------------------------------------------
(* Properties. *)

Row == [session : Session, paths : SUBSET Path]

TypeOK ==
  /\ DOMAIN rows = File
  /\ \A f \in File : rows[f] \in [DOMAIN rows[f] -> Row] /\ DOMAIN rows[f] \subseteq 1..last[f]
  /\ last \in [File -> Nat]
  /\ state \in [File -> {"fresh", "current", "newer", "corrupt"}]
  /\ here \in File \cup {None}
  /\ files \in File
  /\ pc \in [Instance -> Dead \cup Live \cup Opening]
  /\ file \in [Instance -> File \cup {None}]
  /\ \A i \in Instance : pc[i] \in Live \cup {"version", "count0", "freqs0"} => file[i] \in File
  /\ sessions \in [Instance -> Nat]
  /\ df \in [Instance -> [Path -> Nat]]
  /\ counted \in [Instance -> Nat]
  /\ second \in [Instance -> BOOLEAN]
  /\ behind \in [Instance -> BOOLEAN]
  /\ faults \in 0..MaxFaults

\* The index is patched, not re-read, as sessions are recorded ("mirrors
\* COUNT(*) and is maintained in step with it"): between two calls it is what
\* load_index would read, unless another process wrote in the meantime or a
\* load failed.
IndexIsExact ==
  \A i \in Instance : pc[i] = "idle" /\ ~behind[i] =>
    /\ sessions[i] = Count(file[i])
    /\ df[i] = Freq(file[i])

\* The store keeps the last sessions recorded and never fewer than the window:
\* whichever process prunes, on a count however stale, drops only sessions the
\* window has left behind.
KeepsTheNewest ==
  \A f \in File :
    /\ \A o \in DOMAIN rows[f] : o..last[f] \subseteq DOMAIN rows[f]
    /\ \A q \in 1..last[f] : last[f] < q + Window => q \in DOMAIN rows[f]

Learned(i) == pc[i] \in Live /\ sessions[i] >= ColdStart

\* "The switch happens once" (Regime): a process that answers from the corpus
\* does not fall back to the denylist, whoever prunes and whatever it reloads.
SwitchOnce ==
  [][\A i \in Instance : Learned(i) /\ pc'[i] \in Live => Learned(i)']_vars
=============================================================================
