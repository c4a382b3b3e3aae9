--------------------------- MODULE TranscriptTail ---------------------------
(***************************************************************************)
(* Channel D, the transcript tailer of polis-ingest: a session appends     *)
(* lines to its main transcript and to the transcripts of its subagents,   *)
(* a piece at a time; the tailer discovers the files and polls them in     *)
(* turn, measuring a file first and reading it afterwards, and gives every *)
(* complete line to the bus.  A cell of a file stands for a piece of a     *)
(* line; the last piece of a line holds its newline.                       *)
(***************************************************************************)
EXTENDS Integers, Sequences, Functions

CONSTANTS
  Order,       \* the files of the session in emission order: rank, then path
  Lines,       \* how many lines are written to one file
  Pieces,      \* how many pieces a line is written in
  SpawnLine,   \* the line of the main transcript that spawns the subagents
  MaxPoll,     \* MAX_POLL_BYTES, in pieces
  Rewrites,    \* how often one file may be truncated, or deleted, and written anew
  Starts       \* where an existing file may be followed from: StartAt

ASSUME TailAssumption == /\ {Lines, Pieces, SpawnLine, MaxPoll} \subseteq Nat \ {0}
                         /\ Rewrites \in Nat /\ SpawnLine <= Lines
                         /\ Starts \subseteq {"Beginning", "End"}
                         /\ Order \in Seq(Range(Order)) /\ Order # <<>>

VARIABLES
  text,      \* the content of each file that exists
  edition,   \* how often each file has been written anew
  start,     \* ProjectsTailer::initial_start
  tails,     \* the files followed, and FileTail::consumed of each
  known,     \* history: the edition each tail has read of
  todo,      \* the files the poll under way has yet to read
  measured,  \* the length read from the metadata of the file it is at
  held,      \* the content of that file, if it was deleted since: it is still open
  out,       \* history: the lines given to the bus
  behind     \* history: a poll left the main transcript with lines it had

tailVars == <<text, edition, start, tails, known, todo, measured, held, out, behind>>

File == Range(Order)
MainFile == Order[1]
Unmeasured == -1
Longest == Lines * Pieces

\* The cell at a place of an edition of a file, and the line that ends there.
Cell(version, i) ==
  [edition |-> version, line |-> 1 + (i - 1) \div Pieces, part |-> 1 + ((i - 1) % Pieces)]
EndsLine(cell) == cell.part = Pieces
Ends(cells) == {i \in DOMAIN cells : EndsLine(cells[i])}

Content(f) == IF f \in DOMAIN text THEN text[f] ELSE <<>>
Written(f, line) == \E i \in Ends(Content(f)) : Content(f)[i].line = line

\* ProjectsTailer::open, on a session that exists (with some of its main
\* transcript) or is yet to come.
TailInit ==
  /\ edition = [f \in File |-> 0] /\ known = edition
  /\ \/ text = [f \in {} |-> <<>>]
     \/ \E n \in 1..Longest : text = [f \in {MainFile} |-> [i \in 1..n |-> Cell(0, i)]]
  /\ start \in Starts
  /\ tails = [f \in DOMAIN text |-> IF start = "End" THEN Len(text[f]) ELSE 0]
  /\ todo = {} /\ measured = Unmeasured /\ held = {}
  /\ out = <<>> /\ behind = FALSE

-----------------------------------------------------------------------------
\* The file a poll is at: the first of those it has yet to read.
Least(set) == CHOOSE i \in set : \A j \in set : i <= j
Greatest(set) == CHOOSE i \in set : \A j \in set : j <= i

\* A mutant: a poll reads the subagents before the transcript that spawned them.
SubagentsFirst == Order[Greatest({i \in DOMAIN Order : Order[i] \in todo})]

Turn == Order[Least({i \in DOMAIN Order : Order[i] \in todo})]

\* The session writes.  A subagent's file is created once the call that spawns it
\* is in the main transcript.
Appends(f) ==
  /\ f = MainFile \/ Written(MainFile, SpawnLine)
  /\ Len(Content(f)) < Longest
  /\ text' = [g \in DOMAIN text \cup {f} |->
       IF g = f THEN Append(Content(f), Cell(edition[f], Len(Content(f)) + 1)) ELSE text[g]]
  /\ UNCHANGED <<edition, start, tails, known, todo, measured, held, out, behind>>

\* A file is truncated, and will be written anew.
Truncate(f) ==
  /\ f \in DOMAIN text /\ edition[f] < Rewrites
  /\ edition' = [edition EXCEPT ![f] = @ + 1]
  /\ text' = [text EXCEPT ![f] = <<>>]
  /\ UNCHANGED <<start, tails, known, todo, measured, held, out, behind>>

\* A file is deleted.  The tailer keeps the content of one that it has open.
Unlink(f) ==
  /\ f \in DOMAIN text /\ edition[f] < Rewrites
  /\ edition' = [edition EXCEPT ![f] = @ + 1]
  /\ text' = [g \in DOMAIN text \ {f} |-> text[g]]
  /\ held' = IF measured # Unmeasured /\ f = Turn /\ held = {} THEN {text[f]} ELSE held
  /\ UNCHANGED <<start, tails, known, todo, measured, out, behind>>

-----------------------------------------------------------------------------
\* The tailer.

\* SessionTailer::poll: a rescan adds the files that appeared, from their beginning.
StartPoll ==
  /\ todo = {}
  /\ tails' = [f \in DOMAIN tails \cup DOMAIN text |-> IF f \in DOMAIN tails THEN tails[f] ELSE 0]
  /\ known' = [f \in File |-> IF f \in DOMAIN tails THEN known[f] ELSE edition[f]]
  /\ todo' = DOMAIN tails' /\ todo' # {}
  /\ UNCHANGED <<text, edition, start, measured, held, out, behind>>

Advance(f) == todo' = todo \ {f} /\ measured' = Unmeasured /\ held' = {}

\* FileTail::poll finds the file gone: it is no longer followed.
Vanished(f) ==
  /\ f \notin DOMAIN text
  /\ tails' = [g \in DOMAIN tails \ {f} |-> tails[g]]
  /\ Advance(f)
  /\ UNCHANGED <<text, edition, start, known, out, behind>>

\* It opens the file and measures it.  One that shrank is read again from 0.
Measure(f) ==
  /\ f \in DOMAIN text
  /\ measured' = Len(text[f])
  /\ tails' = [tails EXCEPT ![f] = IF measured' < @ THEN 0 ELSE @]
  /\ known' = IF measured' < tails[f] THEN [known EXCEPT ![f] = edition[f]] ELSE known
  /\ UNCHANGED <<text, edition, start, todo, held, out, behind>>

\* A line parses whose pieces are all there, from the end of the one before it or
\* from where the chunk begins; a fragment is counted and dropped.
Parses(chunk, i) ==
  /\ EndsLine(chunk[i]) /\ i >= Pieces
  /\ \A part \in 1..Pieces : chunk[i - Pieces + part] = [chunk[i] EXCEPT !.part = part]
  /\ i > Pieces => EndsLine(chunk[i - Pieces])

Record(f, cell) == [file |-> f, edition |-> cell.edition, line |-> cell.line]

\* The records of a chunk, in the order of its lines.
Records(f, chunk) ==
  LET upTo[i \in 0..Len(chunk)] ==
        IF i = 0 THEN <<>>
        ELSE IF Parses(chunk, i) THEN Append(upTo[i - 1], Record(f, chunk[i]))
        ELSE upTo[i - 1]
  IN  upTo[Len(chunk)]

\* A mutant: the cursor goes past a line that is still being written.
NextCursorPast(base, chunk) == base + Len(chunk)

\* A mutant: the newline is counted twice.
NextCursorBeyond(base, chunk) ==
  IF Ends(chunk) # {} THEN base + Greatest(Ends(chunk)) + 1 ELSE base

\* The cursor stops at the last newline; a line that fills a whole poll is skipped.
NextCursor(base, chunk) ==
  IF Ends(chunk) # {} THEN base + Greatest(Ends(chunk))
  ELSE IF Len(chunk) >= MaxPoll THEN base + Len(chunk) ELSE base

\* It reads what was measured, as far as the file still goes and MAX_POLL_BYTES
\* allow, and emits the complete lines.
Opened(f) == IF held = {} THEN {Content(f)} ELSE held

Read(f) == \E content \in Opened(f) :
  LET base == tails[f]
      chunk == SubSeq(content, base + 1, Least({measured, base + MaxPoll, Len(content)}))
  IN  /\ out' = out \o Records(f, chunk)
      /\ tails' = [tails EXCEPT ![f] = NextCursor(base, chunk)]
      /\ behind' = (behind \/ (f = MainFile /\ \E i \in Ends(content) : i > tails'[f] /\ i <= measured))
      /\ Advance(f)
      /\ UNCHANGED <<text, edition, start, known>>

PollFile ==
  /\ todo # {}
  /\ \/ measured = Unmeasured /\ (Vanished(Turn) \/ Measure(Turn))
     \/ measured # Unmeasured /\ Read(Turn)

Session == \E f \in File : Appends(f) \/ Truncate(f) \/ Unlink(f)
Tailer == StartPoll \/ PollFile

TailNext == Session \/ Tailer

\* The tailer thread polls for ever; the session need not write.
TailSpec == TailInit /\ [][TailNext]_tailVars /\ WF_tailVars(Tailer)

-----------------------------------------------------------------------------
TailTypes ==
  /\ DOMAIN text \subseteq File /\ DOMAIN tails \subseteq File
  /\ edition \in [File -> 0..Rewrites] /\ known \in [File -> 0..Rewrites]
  /\ \A f \in DOMAIN tails : tails[f] \in 0..Longest
  /\ todo \subseteq DOMAIN tails /\ measured \in {Unmeasured} \cup 0..Longest
  /\ behind \in BOOLEAN

\* The places in out of the lines of this edition of the file.
Given(f) == {i \in DOMAIN out : out[i].file = f /\ out[i].edition = edition[f]}

\* The complete lines in the part of the file the cursor has passed.
Passed(f) == {text[f][i].line : i \in {j \in Ends(text[f]) : j <= tails[f]}}

\* Of a file followed from its beginning the bus gets exactly the lines the cursor
\* has passed: each of them once, in order.  A file that was written anew counts from
\* the moment it is found to have shrunk or vanished (FileTail::poll, rescan); one that
\* has outgrown the cursor by then is not recognised.
EveryLineOnce ==
  start = "Beginning" =>
    \A f \in DOMAIN tails \cap DOMAIN text : known[f] = edition[f] =>
      /\ {out[i].line : i \in Given(f)} = Passed(f)
      /\ \A i, j \in Given(f) : i < j => out[i].line < out[j].line

\* The call that spawns a subagent reaches the bus before the subagent's own records,
\* unless the main transcript was further behind than one poll reads (rank, rescan).
SpawnFirst ==
  start = "Beginning" /\ (\A f \in File : edition[f] = 0) =>
    \A i \in DOMAIN out : out[i].file # MainFile =>
      behind \/ \E j \in 1..i : out[j].file = MainFile /\ out[j].line = SpawnLine

\* A half-written line is never parsed and never skipped: the cursor stops at the end of
\* a line (FileTail).
NoTornLine ==
  \A f \in DOMAIN tails \cap DOMAIN text :
    known[f] = edition[f] /\ tails[f] \in DOMAIN text[f] => EndsLine(text[f][tails[f]])

\* A line that is complete is given to the bus, unless its file is written anew.
LinesArrive ==
  \A f \in File, n \in 1..Lines :
    (start = "Beginning" /\ Written(f, n) /\ edition[f] = 0)
      ~> (edition[f] > 0 \/ \E i \in DOMAIN out : out[i].file = f /\ out[i].line = n)
=============================================================================
