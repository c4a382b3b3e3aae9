------------------------------- MODULE Growth -------------------------------
(***************************************************************************)
(* The derived history of a repository (polis-repo/src/git.rs, History):   *)
(* which files were first added in which order, the order the city is      *)
(* built in, and when each was last touched.  It is read from git log,     *)
(* kept in a cache keyed on HEAD, and extended with the commits since.     *)
(*                                                                         *)
(* The repository moves while Polis reads it: commits, merges, checkouts   *)
(* and resets (an amend or a rebase is a reset and commits).  Commits are  *)
(* numbered by their committer date, so git log --date-order --reverse     *)
(* lists a set of them in the order of their numbers; clocks that disagree *)
(* are left out.  Each read of HEAD, each walk and each access to the      *)
(* cache file is a step; a process may die between any two.                *)
(***************************************************************************)
EXTENDS Naturals, Sequences, FiniteSets

CONSTANTS
  Path,        \* logical paths
  Process,     \* Polis instances that open the same repository
  MaxCommits   \* bound: commits ever made

ASSUME GrowthAssumption == MaxCommits \in Nat

VARIABLES
  commits,     \* all commits ever made: parents, the file line of git log, the tree
  head,        \* what HEAD names; 0 is UNBORN_HEAD
  cache,       \* the cache file, or NoCache
  pc,          \* what each process does next
  asked,       \* the HEAD it read, while it needs it
  hist         \* the History it holds

vars  == <<commits, head, cache, pc, asked, hist>>
world == <<commits, head>>

Commits == 1..Len(commits)
Unborn  == 0

NoHistory == [head |-> Unborn, entries |-> <<>>, touched |-> [p \in Path |-> 0]]
NoCache   == [NoHistory EXCEPT !.head = MaxCommits + 1]   \* absent, or unreadable: a miss

-----------------------------------------------------------------------------
(* What git answers. *)

Ancestors(c) ==
  LET Anc[k \in 0..c] == IF k = Unborn THEN {} ELSE {k} \cup UNION {Anc[p] : p \in commits[k].parents}
  IN Anc[c]

AlwaysAncestor(a, c) == TRUE
IsAncestor(a, c)     == a \in Ancestors(c)

Between(from, to) == Ancestors(to) \ Ancestors(from)

Tree(c) == IF c = Unborn THEN {} ELSE commits[c].tree

\* One line of the log, --name-status, with the time of the header above it
\* (commits are numbered by their time): a first addition takes the next place,
\* a path added again keeps its own, and a later line is the later touch.
Line(h, c) ==
  LET status == commits[c].status
      path   == commits[c].path
      known  == \E k \in DOMAIN h.entries : h.entries[k][1] = path
  IN IF status = "merge" THEN h
     ELSE [h EXCEPT !.entries = IF status = "A" /\ ~known THEN Append(@, <<path, c>>) ELSE @,
                    !.touched[path] = c]

\* The lines of a set of commits, in the order of the log.
Fold(h, set) ==
  LET After[c \in 0..Len(commits)] ==
        IF c = 0 THEN h ELSE IF c \in set THEN Line(After[c - 1], c) ELSE After[c - 1]
  IN After[Len(commits)]

-----------------------------------------------------------------------------
(* The repository. *)

Made(parents, status, path, tree) ==
  /\ Len(commits) < MaxCommits
  /\ commits' = Append(commits, [parents |-> parents, status |-> status, path |-> path, tree |-> tree])
  /\ head' = Len(commits) + 1
  /\ UNCHANGED <<cache, pc, asked, hist>>

Parents == IF head = Unborn THEN {} ELSE {head}

Add(p)    == p \notin Tree(head) /\ Made(Parents, "A", p, Tree(head) \cup {p})
Modify(p) == p \in Tree(head) /\ Made(Parents, "M", p, Tree(head))
Delete(p) == p \in Tree(head) /\ Made(Parents, "D", p, Tree(head) \ {p})

Merge(c) ==
  /\ head # Unborn /\ c \notin Ancestors(head) /\ head \notin Ancestors(c)
  /\ Made({head, c}, "merge", "none", Tree(head) \cup Tree(c))

Checkout(c) == c # head /\ head' = c /\ UNCHANGED <<commits, cache, pc, asked, hist>>

-----------------------------------------------------------------------------
(* History::read_cached, in one process. *)

Goto(i, label) == pc' = [pc EXCEPT ![i] = label]

\* The HEAD the history claims is the one its walk was pinned to.
HeadAtEnd(i)  == head
PinnedHead(i) == asked[i]

Launch(i) ==
  /\ pc[i] = "idle"
  /\ asked' = [asked EXCEPT ![i] = head]
  /\ Goto(i, "load_cached")
  /\ UNCHANGED <<world, cache, hist>>

LoadCached(i) ==
  /\ pc[i] = "load_cached"
  /\ IF cache # NoCache /\ cache.head = asked[i]
     THEN hist' = [hist EXCEPT ![i] = cache] /\ Goto(i, "done")
     ELSE UNCHANGED hist /\ Goto(i, "load_stale")
  /\ UNCHANGED <<world, cache, asked>>

\* The file is read again, and may be another process's by now.
LoadStale(i) ==
  /\ pc[i] = "load_stale"
  /\ IF cache # NoCache
     THEN hist' = [hist EXCEPT ![i] = cache] /\ Goto(i, "extend")
     ELSE UNCHANGED hist /\ Goto(i, "read")
  /\ asked' = [asked EXCEPT ![i] = Unborn]
  /\ UNCHANGED <<world, cache>>

Extend(i) ==
  /\ pc[i] = "extend"
  /\ asked' = [asked EXCEPT ![i] = head]
  /\ \/ head = hist[i].head /\ Goto(i, "save") /\ UNCHANGED hist
     \/ /\ head # hist[i].head /\ head = Unborn
        /\ hist' = [hist EXCEPT ![i] = NoHistory]
        /\ Goto(i, "save")
     \/ /\ head # hist[i].head /\ head # Unborn
        /\ IF hist[i].head # Unborn /\ IsAncestor(hist[i].head, head)
           THEN Goto(i, "walk") ELSE Goto(i, "read")
        /\ UNCHANGED hist
  /\ UNCHANGED <<world, cache>>

\* History::read starts over, from a HEAD of its own.
ReadHead(i) ==
  /\ pc[i] = "read"
  /\ asked' = [asked EXCEPT ![i] = head]
  /\ hist' = [hist EXCEPT ![i] = NoHistory]
  /\ Goto(i, IF head = Unborn THEN "save" ELSE "walk")
  /\ UNCHANGED <<world, cache>>

Walk(i) ==
  /\ pc[i] = "walk"
  /\ hist' = [hist EXCEPT ![i] =
       [Fold(@, Between(@.head, asked[i])) EXCEPT !.head = PinnedHead(i)]]
  /\ asked' = [asked EXCEPT ![i] = Unborn]
  /\ Goto(i, "save")
  /\ UNCHANGED <<world, cache>>

\* A temporary file and a rename; a failed write is logged and swallowed.
Save(i) ==
  /\ pc[i] = "save"
  /\ cache' \in {cache, hist[i]}
  /\ Goto(i, "done")
  /\ UNCHANGED <<world, asked, hist>>

\* The process ends, or dies on the way.
End(i) ==
  /\ pc[i] # "idle"
  /\ Goto(i, "idle")
  /\ hist' = [hist EXCEPT ![i] = NoHistory]
  /\ asked' = [asked EXCEPT ![i] = Unborn]
  /\ UNCHANGED <<world, cache>>

\* Something damages the file, or an older build wrote it.
Spoil == cache # NoCache /\ cache' = NoCache /\ UNCHANGED <<world, pc, asked, hist>>

ReadCached(i) ==
  Launch(i) \/ LoadCached(i) \/ LoadStale(i) \/ Extend(i) \/ ReadHead(i) \/ Walk(i) \/ Save(i)

Init ==
  /\ commits = <<>> /\ head = Unborn
  /\ cache = NoCache
  /\ pc = [i \in Process |-> "idle"]
  /\ asked = [i \in Process |-> Unborn]
  /\ hist = [i \in Process |-> NoHistory]

Next ==
  \/ \E p \in Path : Add(p) \/ Modify(p) \/ Delete(p)
  \/ \E c \in Commits : Merge(c)
  \/ \E c \in Commits \cup {Unborn} : Checkout(c)
  \/ \E i \in Process : ReadCached(i) \/ End(i)
  \/ Spoil

Spec == Init /\ [][Next]_vars

-----------------------------------------------------------------------------
TypeOK ==
  LET History == [head : 0..Len(commits), entries : Seq(Path \X Commits), touched : [Path -> 0..Len(commits)]]
  IN /\ head \in 0..Len(commits)
     /\ cache = NoCache \/ cache \in History
     /\ pc \in [Process -> {"idle", "load_cached", "load_stale", "extend", "read", "walk", "save", "done"}]
     /\ asked \in [Process -> 0..Len(commits)]
     /\ hist \in [Process -> History]

\* What a launch without a cache would read of a commit.
FreshHistory(c) == [Fold(NoHistory, Ancestors(c)) EXCEPT !.head = c]

\* Every history in use or on disk.
Derived ==
  {hist[i] : i \in {j \in Process : pc[j] \in {"save", "done"}}} \cup ({cache} \ {NoCache})

Addresses(h) == {h.entries[k][1] : k \in DOMAIN h.entries}

\* However the reads of HEAD, the walks and the cache interleave with commits,
\* merges, rewinds and other processes, a history covers exactly the commits of
\* the HEAD it is keyed on: no file is missing, none is there twice, and none
\* comes from commits that HEAD does not have.
CoversItsHead ==
  \A h \in Derived :
    /\ Addresses(h) = Addresses(FreshHistory(h.head))
    /\ Len(h.entries) = Cardinality(Addresses(h))
    /\ \A p \in Path : (h.touched[p] = 0) = (FreshHistory(h.head).touched[p] = 0)

\* Where no branches were merged, an incrementally kept history is the one a
\* fresh launch would read, entry for entry and time for time.
LinearIsFresh ==
  \A h \in Derived :
    (\A c \in Ancestors(h.head) : commits[c].status # "merge") => h = FreshHistory(h.head)

\* "... would make an incrementally-updated Polis and a freshly-launched Polis
\* disagree about the same repository, which is exactly what PRD 7.4 forbids"
\* (extend_to_head).
DerivedIsFresh == \A h \in Derived : h = FreshHistory(h.head)
=============================================================================
