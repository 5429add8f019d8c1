------------------------- MODULE SearchDirectory_proofs -------------------------
(***************************************************************************)
(* Whatever folders, links and queries there are, however large a batch is *)
(* and whatever the clients do: what a search folder lists is watched and  *)
(* listed once, no report comes from a search that was given up or freed,  *)
(* and a search that has finished has found all there is.                  *)
(***************************************************************************)
EXTENDS SearchDirectory, SequenceTheorems, TLAPS

Lists == [Files -> Nat]

Searches ==
  [query : Queries, cancelled : BOOLEAN, dirs : Seq(Directories), visited : SUBSET Directories,
   rest : Seq(Files), processed : Nat, found : Lists, step : {"search", "over", "freed"}]

Fields ==
  [alive : BOOLEAN, query : Queries, engine : BOOLEAN, engineQuery : Queries,
   running : BOOLEAN, finished : BOOLEAN, monitors : SUBSET Clients, active : Nat]

Answers == [state : {"none", "pending", "files"}, left : SUBSET Files]

States ==
  [directory : Fields, files : Lists, watch : [Files -> SUBSET Clients], handlers : Lists,
   call : [Calls -> Answers], thread : Seq(Searches)]

Queues == Seq([kind : {"hits", "done"}, search : Nat, uris : Lists])

(***************************************************************************)
(* The invariant. s is what Now is, q the reports to the main loop.        *)
(***************************************************************************)
\* Each client that monitors the directory watches what is listed, and the
\* directory is connected as often as a file is listed.
Watched(s) ==
  \A f \in Files :
    /\ s.watch[f] = IF s.files[f] > 0 THEN s.directory.monitors ELSE {}
    /\ s.handlers[f] = s.files[f]

\* The search of the engine goes on and is the only one that is heeded.
Underway(s) ==
  LET i == s.directory.active IN
  /\ i \in 0 .. Len(s.thread)
  /\ s.directory.running => s.directory.engine
  /\ i # 0 => /\ s.directory.alive /\ s.directory.running /\ ~s.directory.finished
              /\ ~s.thread[i].cancelled /\ s.thread[i].step # "freed"
  /\ \A j \in DOMAIN s.thread :
       ~s.thread[j].cancelled /\ s.thread[j].step # "freed" => i = j

\* A search is freed by the last of its reports.
Reporting(s, q) ==
  /\ \A k \in DOMAIN q :
       /\ q[k].search \in DOMAIN s.thread
       /\ s.thread[q[k].search].step # "freed"
       /\ q[k].kind = "done" => s.thread[q[k].search].step = "over" /\ q[k].uris = NoFiles
  /\ \A j, k \in DOMAIN q : j < k /\ q[j].search = q[k].search => q[j].kind = "hits"

Base(s, q) == s \in States /\ q \in Queues /\ Watched(s) /\ Underway(s) /\ Reporting(s, q)

\* The entries a search has read: those of the directories it has come to, except
\* what is left of the one it reads.
Entered(t) == t.visited \ ToSet(t.dirs)
HasRead(t) == {f \in Files : f \notin ToSet(t.rest) /\ \E d \in Entered(t) : f \in ToSet(Content[d])}

\* It goes where it can get, comes to every directory once, and leaves none out
\* that an entry it has read leads to.
Walks(t) ==
  /\ Root \in t.visited /\ t.visited \subseteq Reached
  /\ IsInjective(t.dirs) /\ ToSet(t.dirs) \subseteq t.visited
  /\ IsInjective(t.rest)
  /\ t.rest # << >> => \E d \in Entered(t) : ToSet(t.rest) \subseteq ToSet(Content[d])
  /\ \A f \in HasRead(t) : Leads[f] # NoDirectory => Leads[f] \in t.visited
  /\ t.step = "over" => t.rest = << >> /\ t.dirs = << >> /\ t.found = NoFiles

\* list is read by t, and names no file twice.
Reads(t, list) == \A f \in Files : list[f] <= 1 /\ (list[f] > 0 => f \in HasRead(t) /\ f \in Matches[t.query])
Apart(list, other) == \A f \in Files : list[f] = 0 \/ other[f] = 0

\* What search i has found is listed, or on its way to be, once.
Once(list, t, q, i) ==
  LET mine == {k \in DOMAIN q : q[k].search = i} IN
  /\ Reads(t, list) /\ Reads(t, t.found) /\ Apart(list, t.found)
  /\ \A k \in mine : Reads(t, q[k].uris) /\ Apart(list, q[k].uris) /\ Apart(t.found, q[k].uris)
  /\ \A j, k \in mine : j # k => Apart(q[j].uris, q[k].uris)

AllFound(list, t, q, i) ==
  \A f \in (HasRead(t) \cap Matches[t.query]) \ SavedSearches :
    \/ list[f] > 0 \/ t.found[f] > 0
    \/ \E k \in DOMAIN q : q[k].search = i /\ q[k].uris[f] > 0

HeedsSearch(list, t, q, i) == Walks(t) /\ Once(list, t, q, i) /\ AllFound(list, t, q, i)

Heeded(s, q) ==
  LET i == s.directory.active IN
  i # 0 => /\ s.thread[i].query = s.directory.engineQuery
           /\ HeedsSearch(s.files, s.thread[i], q, i)

\* What is listed is a hit, and is all that is when the search has finished.
Results(s) ==
  LET hits == Hits(s.directory.engineQuery) IN
  /\ Listed(s.files) \subseteq hits /\ \A f \in Files : s.files[f] <= 1
  /\ s.directory.alive /\ s.directory.running /\ s.directory.finished => Listed(s.files) = hits

Inv(s, q) == Base(s, q) /\ Heeded(s, q) /\ Results(s)

(***************************************************************************)
(* Sequences.                                                              *)
(***************************************************************************)
LEMMA OfTail ==
  ASSUME NEW S, NEW l \in Seq(S), l # << >>
  PROVE  /\ Head(l) \in S /\ Tail(l) \in Seq(S)
         /\ ToSet(l) = {Head(l)} \cup ToSet(Tail(l))
         /\ IsInjective(l) => IsInjective(Tail(l)) /\ Head(l) \notin ToSet(Tail(l))
<1>1. /\ Head(l) \in S /\ Tail(l) \in Seq(S)
      /\ Len(Tail(l)) = Len(l) - 1
      /\ \A n \in 1 .. Len(Tail(l)) : Tail(l)[n] = l[n + 1]
  BY HeadTailProperties
<1>2. Len(l) \in Nat /\ Len(l) > 0 /\ DOMAIN l = 1 .. Len(l) /\ Head(l) = l[1]
  BY EmptySeq
<1>3. DOMAIN Tail(l) = 1 .. Len(l) - 1
  BY <1>1, LenProperties
<1>4. ToSet(l) = {Head(l)} \cup ToSet(Tail(l))
  <2>1. ASSUME NEW n \in DOMAIN l PROVE l[n] \in {Head(l)} \cup ToSet(Tail(l))
    <3>1. CASE n = 1
      BY <1>2, <3>1
    <3>2. CASE n # 1
      <4>1. n - 1 \in DOMAIN Tail(l) /\ Tail(l)[n - 1] = l[n]
        BY <1>1, <1>2, <1>3, <3>2
      <4> QED BY <4>1 DEF ToSet
    <3> QED BY <3>1, <3>2
  <2>2. ASSUME NEW n \in DOMAIN Tail(l) PROVE Tail(l)[n] \in ToSet(l)
    <3>1. n + 1 \in DOMAIN l /\ Tail(l)[n] = l[n + 1]
      BY <1>1, <1>2, <1>3
    <3> QED BY <3>1 DEF ToSet
  <2>3. Head(l) \in ToSet(l)
    BY <1>2 DEF ToSet
  <2> QED BY <2>1, <2>2, <2>3 DEF ToSet
<1>5. ASSUME IsInjective(l)
      PROVE  IsInjective(Tail(l)) /\ Head(l) \notin ToSet(Tail(l))
  <2>1. \A n \in DOMAIN Tail(l) : n + 1 \in DOMAIN l /\ n + 1 # 1 /\ Tail(l)[n] = l[n + 1]
    BY <1>1, <1>2, <1>3
  <2>2. 1 \in DOMAIN l /\ Head(l) = l[1]
    BY <1>2
  <2>3. \A m, n \in DOMAIN Tail(l) : m + 1 = n + 1 => m = n
    BY <1>3
  <2> QED BY <1>5, <2>1, <2>2, <2>3 DEF IsInjective, ToSet
<1> QED BY <1>1, <1>4, <1>5

LEMMA OfAppend ==
  ASSUME NEW S, NEW l \in Seq(S), NEW e \in S
  PROVE  /\ Append(l, e) \in Seq(S)
         /\ ToSet(Append(l, e)) = ToSet(l) \cup {e}
         /\ IsInjective(l) /\ e \notin ToSet(l) => IsInjective(Append(l, e))
<1> DEFINE a == Append(l, e)
<1>1. /\ a \in Seq(S)
      /\ Len(a) = Len(l) + 1
      /\ \A n \in 1 .. Len(l) : a[n] = l[n]
      /\ a[Len(l) + 1] = e
  BY AppendProperties
<1>2. Len(l) \in Nat /\ DOMAIN l = 1 .. Len(l) /\ DOMAIN a = 1 .. Len(l) + 1
  BY <1>1, LenProperties
<1> HIDE DEF a
<1>3. ToSet(a) = ToSet(l) \cup {e}
  <2>1. \A n \in DOMAIN a : (n \in DOMAIN l /\ a[n] = l[n]) \/ a[n] = e
    BY <1>1, <1>2
  <2>2. \A n \in DOMAIN l : n \in DOMAIN a /\ a[n] = l[n]
    BY <1>1, <1>2
  <2>3. Len(l) + 1 \in DOMAIN a /\ a[Len(l) + 1] = e
    BY <1>1, <1>2
  <2> QED BY <2>1, <2>2, <2>3 DEF ToSet
<1>4. ASSUME IsInjective(l), e \notin ToSet(l) PROVE IsInjective(a)
  <2>1. \A n \in DOMAIN a : \/ n \in DOMAIN l /\ a[n] = l[n]
                            \/ n = Len(l) + 1 /\ a[n] = e
    BY <1>1, <1>2
  <2> QED BY <1>4, <2>1 DEF IsInjective, ToSet
<1> QED BY <1>1, <1>3, <1>4 DEF a

(***************************************************************************)
(* What can be reached.                                                    *)
(***************************************************************************)
LEMMA ReachedFollows ==
  /\ Reached \subseteq Directories
  /\ Root \in Reached
  /\ Follows(Reached)
  /\ \A dirs \in SUBSET Directories : Root \in dirs /\ Follows(dirs) => Reached \subseteq dirs
<1>1. Reached \subseteq Directories
      /\ \A dirs \in SUBSET Directories : Root \in dirs /\ Follows(dirs) => Reached \subseteq dirs
  BY DEF Reached
<1>2. Root \in Reached
  BY TreeAssumption DEF Reached
<1>3. ASSUME NEW d \in Reached, NEW f \in ToSet(Content[d]), Leads[f] # NoDirectory
      PROVE  Leads[f] \in Reached
  <2>1. f \in Files
    <3>1. Content[d] \in Seq(Files)
      BY <1>1, TreeAssumption
    <3> QED BY <3>1, ElementOfSeq, LenProperties DEF ToSet
  <2>2. Leads[f] \in Directories
    BY <1>3, <2>1, TreeAssumption
  <2>3. ASSUME NEW dirs \in SUBSET Directories, Root \in dirs, Follows(dirs)
        PROVE  Leads[f] \in dirs
    <3>1. d \in dirs
      BY <1>1, <2>3
    <3> QED BY <1>3, <2>3, <3>1 DEF Follows
  <2> QED BY <2>2, <2>3 DEF Reached
<1>4. Follows(Reached)
  BY <1>3 DEF Follows
<1> QED BY <1>1, <1>2, <1>4

LEMMA ContentFiles == \A d \in Directories : Content[d] \in Seq(Files) /\ ToSet(Content[d]) \subseteq Files
<1> SUFFICES ASSUME NEW d \in Directories
             PROVE  Content[d] \in Seq(Files) /\ ToSet(Content[d]) \subseteq Files
  OBVIOUS
<1>1. Content[d] \in Seq(Files)
  BY TreeAssumption
<1> QED BY <1>1, ElementOfSeq, LenProperties DEF ToSet

(***************************************************************************)
(* The steps of a search.                                                  *)
(***************************************************************************)
\* What visit_directory makes of a search.
Visited(t, f) ==
  LET new == Leads[f] # NoDirectory /\ Leads[f] \notin t.visited IN
  [t EXCEPT !.rest = Tail(@),
            !.visited = IF new THEN @ \cup {Leads[f]} ELSE @,
            !.dirs = IF new THEN Append(@, Leads[f]) ELSE @]

LEMMA NewWalk ==
  ASSUME NEW q \in Queries
  PROVE  /\ NewSearch(q) \in Searches
         /\ Walks(NewSearch(q))
         /\ HasRead(NewSearch(q)) = {}
<1> DEFINE t == NewSearch(q)
<1>1. Root \in Directories /\ Content[Root] \in Seq(Files) /\ IsInjective(Content[Root])
      /\ ToSet(Content[Root]) \subseteq Files
  BY TreeAssumption, ContentFiles
<1>2. t \in Searches
  BY <1>1 DEF NewSearch, Searches, NoFiles, Lists
<1>3. /\ t.query = q /\ t.dirs = << >> /\ t.visited = {Root}
      /\ t.rest = Content[Root] /\ t.step = "search"
  BY DEF NewSearch
<1> HIDE DEF t
<1>4. ToSet(t.dirs) = {} /\ IsInjective(t.dirs)
  BY <1>3 DEF ToSet, IsInjective
<1>5. Entered(t) = {Root}
  BY <1>3, <1>4 DEF Entered
<1>6. HasRead(t) = {}
  BY <1>3, <1>5 DEF HasRead
<1>7. Walks(t)
  BY <1>1, <1>3, <1>4, <1>5, <1>6, ReachedFollows DEF Walks
<1> QED BY <1>2, <1>6, <1>7 DEF t

\* A step of the search that reads an entry.
LEMMA VisitWalk ==
  ASSUME NEW t \in Searches, Walks(t), t.step = "search", t.rest # << >>,
         NEW u \in Searches,
         u.step = t.step, u.rest = Tail(t.rest),
         u.visited = Visited(t, Head(t.rest)).visited,
         u.dirs = Visited(t, Head(t.rest)).dirs
  PROVE  /\ Walks(u)
         /\ Head(t.rest) \in Files \ HasRead(t)
         /\ HasRead(u) = HasRead(t) \cup {Head(t.rest)}
<1> DEFINE f == Head(t.rest)
           new == Leads[f] # NoDirectory /\ Leads[f] \notin t.visited
<1>1. /\ t.rest \in Seq(Files) /\ t.dirs \in Seq(Directories) /\ t.visited \subseteq Directories
  BY DEF Searches
<1>2. /\ f \in Files /\ ToSet(t.rest) = {f} \cup ToSet(u.rest)
      /\ IsInjective(u.rest) /\ f \notin ToSet(u.rest)
  BY <1>1, OfTail DEF Walks
<1>3. u.visited = (IF new THEN t.visited \cup {Leads[f]} ELSE t.visited)
      /\ u.dirs = (IF new THEN Append(t.dirs, Leads[f]) ELSE t.dirs)
  BY DEF Visited, Searches
<1> HIDE DEF f
<1>4. new => Leads[f] \in Directories
  BY <1>2, TreeAssumption
<1>5. /\ IsInjective(u.dirs) /\ ToSet(u.dirs) \subseteq u.visited
      /\ Entered(u) = Entered(t)
  <2>1. CASE new
    <3>1. Leads[f] \notin ToSet(t.dirs)
      BY <2>1 DEF Walks
    <3>2. Leads[f] \in Directories /\ u.dirs = Append(t.dirs, Leads[f]) /\ IsInjective(t.dirs)
      BY <1>3, <1>4, <2>1 DEF Walks
    <3> HIDE DEF new
    <3>3. ToSet(u.dirs) = ToSet(t.dirs) \cup {Leads[f]} /\ IsInjective(u.dirs)
      <4>1. \A l \in Seq(Directories), e \in Directories :
              /\ ToSet(Append(l, e)) = ToSet(l) \cup {e}
              /\ IsInjective(l) /\ e \notin ToSet(l) => IsInjective(Append(l, e))
        BY OfAppend
      <4> QED BY <1>1, <3>1, <3>2, <4>1
    <3> QED BY <1>3, <2>1, <3>3 DEF new, Walks, Entered
  <2>2. CASE ~new
    BY <1>3, <2>2 DEF Walks, Entered
  <2> QED BY <2>1, <2>2
<1>6. PICK d \in Entered(t) : ToSet(t.rest) \subseteq ToSet(Content[d])
  BY DEF Walks
<1>7. f \in Files \ HasRead(t)
  BY <1>2 DEF HasRead
<1>8. HasRead(u) = HasRead(t) \cup {f}
  BY <1>2, <1>5, <1>6 DEF HasRead
<1>9. Root \in u.visited /\ u.visited \subseteq Reached
  <2>1. d \in Reached /\ f \in ToSet(Content[d])
    BY <1>2, <1>6 DEF Walks, Entered
  <2>2. new => Leads[f] \in Reached
    BY <2>1, ReachedFollows DEF Follows
  <2> QED BY <1>3, <2>2 DEF Walks
<1>10. \A g \in HasRead(u) : Leads[g] # NoDirectory => Leads[g] \in u.visited
  BY <1>3, <1>8 DEF Walks
<1>11. u.rest # << >> => \E e \in Entered(u) : ToSet(u.rest) \subseteq ToSet(Content[e])
  BY <1>2, <1>5, <1>6
<1> QED BY <1>2, <1>5, <1>7, <1>8, <1>9, <1>10, <1>11 DEF Walks, f

\* A step that opens the next directory.
LEMMA OpenWalk ==
  ASSUME NEW t \in Searches, Walks(t), t.step = "search", t.rest = << >>, t.dirs # << >>,
         NEW u \in Searches,
         u.step = t.step, u.rest = Content[Head(t.dirs)], u.dirs = Tail(t.dirs),
         u.visited = t.visited
  PROVE  Walks(u) /\ HasRead(u) = HasRead(t)
<1> DEFINE d == Head(t.dirs)
<1>1. t.dirs \in Seq(Directories) /\ t.visited \subseteq Directories /\ ToSet(t.rest) = {}
  BY DEF Searches, ToSet
<1>2. /\ d \in Directories /\ ToSet(t.dirs) = {d} \cup ToSet(u.dirs)
      /\ IsInjective(u.dirs) /\ d \notin ToSet(u.dirs)
  BY <1>1, OfTail DEF Walks
<1> HIDE DEF d
<1>3. u.rest = Content[d] /\ IsInjective(u.rest) /\ ToSet(u.rest) \subseteq Files
  BY <1>2, TreeAssumption, ContentFiles DEF d
<1>4. Entered(u) = Entered(t) \cup {d} /\ d \notin Entered(t) /\ Entered(t) \subseteq Directories
  BY <1>1, <1>2 DEF Entered, Walks
<1>5. \A e \in Entered(t) : ToSet(Content[e]) \cap ToSet(u.rest) = {}
  BY <1>2, <1>3, <1>4, TreeAssumption
<1>6. HasRead(u) = HasRead(t)
  BY <1>1, <1>3, <1>4, <1>5 DEF HasRead
<1> QED BY <1>2, <1>3, <1>4, <1>6 DEF Walks

\* A search that comes to its end has read all there is.
LEMMA OverWalk ==
  ASSUME NEW t \in Searches, Walks(t), t.rest = << >>, t.dirs = << >>
  PROVE  HasRead(t) = {f \in Files : \E d \in Reached : f \in ToSet(Content[d])}
<1>1. ToSet(t.rest) = {} /\ Entered(t) = t.visited
  BY DEF ToSet, Entered
<1>2. t.visited \subseteq Directories
  BY DEF Searches
<1>3. Follows(t.visited)
  <2> SUFFICES ASSUME NEW d \in t.visited, NEW f \in ToSet(Content[d]), Leads[f] # NoDirectory
               PROVE  Leads[f] \in t.visited
    BY DEF Follows
  <2>1. f \in HasRead(t)
    BY <1>1, <1>2, ContentFiles DEF HasRead
  <2> QED BY <2>1 DEF Walks
<1>4. t.visited = Reached
  BY <1>2, <1>3, ReachedFollows DEF Walks
<1> QED BY <1>1, <1>4 DEF HasRead

(***************************************************************************)
(* Starting and stopping a search.                                         *)
(***************************************************************************)
LEMMA Reset ==
  ASSUME NEW s, NEW q, Base(s, q)
  PROVE  LET r == ResetFileList(s) IN
         /\ Base(r, q)
         /\ r.files = NoFiles
         /\ r.directory = s.directory /\ r.call = s.call /\ r.thread = s.thread
<1> DEFINE r == ResetFileList(s)
<1> SUFFICES /\ Base(r, q)
             /\ r.files = NoFiles
             /\ r.directory = s.directory /\ r.call = s.call /\ r.thread = s.thread
  OBVIOUS
<1>1. s \in States /\ s.directory.monitors \subseteq Clients
  BY DEF Base, States, Fields
<1>2. /\ r \in States
      /\ r.files = NoFiles
      /\ r.directory = s.directory /\ r.call = s.call /\ r.thread = s.thread
      /\ r.handlers = [f \in Files |-> IF f \in Listed(s.files) THEN 0 ELSE s.handlers[f]]
      /\ r.watch = [f \in Files |-> IF f \in Listed(s.files)
                                    THEN s.watch[f] \ s.directory.monitors ELSE s.watch[f]]
  BY <1>1 DEF ResetFileList, States, Lists, NoFiles
<1> HIDE DEF r
<1>3. Watched(r)
  BY <1>1, <1>2 DEF Base, Watched, Listed, NoFiles, States, Lists
<1> QED BY <1>2, <1>3 DEF Base, Underway, Reporting

LEMMA StoppedBase ==
  ASSUME NEW s, NEW q, Base(s, q)
  PROVE  LET e == EngineStop(s) IN
         /\ Base(e, q)
         /\ e.directory = [s.directory EXCEPT !.active = 0]
         /\ e.files = s.files /\ e.call = s.call
<1> DEFINE e == EngineStop(s)
           i == s.directory.active
<1> SUFFICES /\ Base(e, q)
             /\ e.directory = [s.directory EXCEPT !.active = 0]
             /\ e.files = s.files /\ e.call = s.call
  OBVIOUS
<1>1. s \in States /\ s.directory \in Fields /\ s.thread \in Seq(Searches)
  BY DEF Base, States
<1>2. CASE i = 0
  <2>1. e = s
    BY <1>2 DEF EngineStop
  <2>2. s.directory = [s.directory EXCEPT !.active = 0]
    BY <1>1, <1>2 DEF Fields
  <2> QED BY <2>1, <2>2
<1>3. CASE i # 0
  <2>1. i \in 1 .. Len(s.thread) /\ s.thread[i] \in Searches
    BY <1>1, <1>3 DEF Base, Underway, Fields
  <2> DEFINE c == [s.thread[i] EXCEPT !.cancelled = TRUE]
             th == [s.thread EXCEPT ![i] = c]
             d == [s.directory EXCEPT !.active = 0]
  <2>2. c \in Searches /\ c.cancelled /\ c.step = s.thread[i].step
    BY <2>1 DEF Searches
  <2>3. d \in Fields /\ d.active = 0 /\ d.running = s.directory.running
        /\ d.engine = s.directory.engine /\ d.monitors = s.directory.monitors
    BY <1>1 DEF Fields
  <2>4. e = [s EXCEPT !.thread = th, !.directory = d]
    BY <1>1, <1>3 DEF EngineStop, States
  <2> HIDE DEF c, d
  <2>5. /\ th \in Seq(Searches) /\ Len(th) = Len(s.thread) /\ DOMAIN th = DOMAIN s.thread
        /\ \A j \in DOMAIN th : th[j] = IF j = i THEN c ELSE s.thread[j]
    BY <1>1, <2>1, <2>2, ExceptSeq, LenProperties
  <2> HIDE DEF th
  <2>6. /\ e \in States /\ e.directory = d /\ e.thread = th
        /\ e.files = s.files /\ e.watch = s.watch /\ e.handlers = s.handlers
        /\ e.call = s.call
    BY <1>1, <2>3, <2>4, <2>5 DEF States
  <2> HIDE DEF e
  <2>7. Underway(e)
    BY <1>1, <1>3, <2>2, <2>3, <2>5, <2>6 DEF Base, Underway, States
  <2>8. Reporting(e, q)
    BY <2>2, <2>5, <2>6 DEF Base, Reporting
  <2>9. Watched(e)
    BY <2>3, <2>6 DEF Base, Watched
  <2> QED BY <2>6, <2>7, <2>8, <2>9 DEF Base, d
<1> QED BY <1>2, <1>3

\* With no search underway and nothing listed, all is well that is not complete.
LEMMA QuietInv ==
  ASSUME NEW s, NEW q, Base(s, q), s.directory.active = 0, s.files = NoFiles,
         ~(s.directory.alive /\ s.directory.running /\ s.directory.finished)
  PROVE  Inv(s, q)
BY DEF Inv, Heeded, Results, NoFiles, Listed

LEMMA BegunInv ==
  ASSUME NEW s, NEW q, Base(s, q), s.directory.active = 0, s.files = NoFiles,
         s.directory.alive, s.directory.running, ~s.directory.finished
  PROVE  Inv(EngineStart(s), q)
<1> DEFINE e == EngineStart(s)
           t == NewSearch(s.directory.engineQuery)
           th == Append(s.thread, t)
           d == [s.directory EXCEPT !.active = Len(s.thread) + 1]
<1>1. /\ s \in States /\ s.directory \in Fields /\ s.thread \in Seq(Searches)
      /\ s.directory.engineQuery \in Queries /\ q \in Queues
  BY DEF Base, States, Fields
<1>2. t \in Searches /\ Walks(t) /\ HasRead(t) = {}
  BY <1>1, NewWalk
<1>3. /\ t.query = s.directory.engineQuery /\ ~t.cancelled /\ t.step = "search"
      /\ t.found = NoFiles
  BY DEF NewSearch
<1> HIDE DEF t
<1>4. Len(s.thread) \in Nat
  BY <1>1
<1> HIDE DEF th
<1>5. /\ d \in Fields /\ d.active = Len(s.thread) + 1 /\ d.running = s.directory.running
      /\ d.engine = s.directory.engine /\ d.monitors = s.directory.monitors
      /\ d.alive = s.directory.alive /\ d.finished = s.directory.finished
      /\ d.engineQuery = s.directory.engineQuery
  <2>1. Len(s.thread) + 1 \in Nat
    BY <1>4
  <2> QED BY <1>1, <2>1 DEF Fields
<1>6. e = [s EXCEPT !.thread = th, !.directory = d]
  BY <1>1 DEF EngineStart, States, t, th
<1> HIDE DEF d
<1>7. /\ th \in Seq(Searches) /\ Len(th) = Len(s.thread) + 1
      /\ \A j \in 1 .. Len(s.thread) : th[j] = s.thread[j]
      /\ th[Len(s.thread) + 1] = t
  BY <1>1, <1>2, AppendProperties DEF th
<1>8. DOMAIN th = 1 .. Len(s.thread) + 1 /\ DOMAIN s.thread = 1 .. Len(s.thread)
  BY <1>1, <1>7, LenProperties
<1>9. /\ e \in States /\ e.directory = d /\ e.thread = th
      /\ e.files = s.files /\ e.watch = s.watch /\ e.handlers = s.handlers
  BY <1>1, <1>5, <1>6, <1>7 DEF States
<1> HIDE DEF e
<1>10. Underway(e)
  <2>1. \A j \in DOMAIN th : \/ j \in DOMAIN s.thread /\ th[j] = s.thread[j]
                             \/ j = Len(s.thread) + 1 /\ th[j] = t
    <3>1. \A n \in Nat : \A j \in 1 .. n + 1 : j \in 1 .. n \/ j = n + 1
      OBVIOUS
    <3>2. \A j \in DOMAIN th : j \in DOMAIN s.thread \/ j = Len(s.thread) + 1
      BY <1>4, <1>8, <3>1, Zenon
    <3>3. \A j \in DOMAIN s.thread : th[j] = s.thread[j]
      BY <1>7, <1>8, Zenon
    <3>4. th[Len(s.thread) + 1] = t
      BY <1>7
    <3> QED BY <3>2, <3>3, <3>4
  <2>2. Len(s.thread) + 1 \in 1 .. Len(th) /\ Len(s.thread) + 1 # 0
    BY <1>4, <1>7
  <2>3. \A j \in DOMAIN s.thread : s.thread[j].cancelled \/ s.thread[j].step = "freed"
    BY DEF Base, Underway
  <2>4. \A j \in DOMAIN th : ~th[j].cancelled /\ th[j].step # "freed" => j = Len(s.thread) + 1
    BY <2>1, <2>3
  <2>5. e.directory.active \in 0 .. Len(e.thread)
    BY <1>5, <1>9, <2>2
  <2>6. ~th[Len(s.thread) + 1].cancelled /\ th[Len(s.thread) + 1].step # "freed"
    BY <1>3, <1>7
  <2>7. d.alive /\ d.running /\ ~d.finished /\ d.engine
    BY <1>5 DEF Base, Underway
  <2> QED BY <1>5, <1>9, <2>4, <2>5, <2>6, <2>7 DEF Underway
<1>11. Reporting(e, q)
  <2>1. \A j \in DOMAIN s.thread : j \in DOMAIN th /\ th[j] = s.thread[j]
    BY <1>4, <1>7, <1>8
  <2> QED BY <1>9, <2>1 DEF Base, Reporting
<1>12. Watched(e)
  BY <1>5, <1>9 DEF Base, Watched
<1>13. \A k \in DOMAIN q : q[k].search # Len(s.thread) + 1
  BY <1>4, <1>8 DEF Base, Reporting
<1>14. Heeded(e, q)
  <2>1. /\ e.directory.active = Len(s.thread) + 1 /\ e.thread[Len(s.thread) + 1] = t
        /\ e.directory.engineQuery = t.query /\ e.files = NoFiles
    BY <1>3, <1>5, <1>7, <1>9
  <2>2. Once(NoFiles, t, q, Len(s.thread) + 1)
    BY <1>3, <1>13 DEF Once, Reads, Apart, NoFiles
  <2>3. AllFound(NoFiles, t, q, Len(s.thread) + 1)
    BY <1>2 DEF AllFound
  <2> QED BY <1>2, <2>1, <2>2, <2>3 DEF Heeded, HeedsSearch
<1>15. Results(e)
  BY <1>5, <1>9 DEF Results, NoFiles, Listed
<1> QED BY <1>1, <1>9, <1>10, <1>11, <1>12, <1>14, <1>15 DEF Inv, Base, e

LEMMA StartInv ==
  ASSUME NEW s, NEW q, Inv(s, q), s.directory.alive
  PROVE  Inv(StartSearchEngine(s), q)
<1>1. CASE ~Wanted(s) \/ s.directory.running
  BY <1>1 DEF StartSearchEngine
<1>2. CASE Wanted(s) /\ ~s.directory.running
  <2> DEFINE b == [s EXCEPT !.directory.running = TRUE, !.directory.finished = FALSE,
                            !.directory.engine = TRUE,
                            !.directory.engineQuery = s.directory.query]
             r == ResetFileList(b)
  <2>1. s \in States /\ s.directory \in Fields
    BY DEF Inv, Base, States
  <2>2. /\ b \in States
        /\ b.directory.running /\ ~b.directory.finished /\ b.directory.engine
        /\ b.directory.alive = s.directory.alive /\ b.directory.active = s.directory.active
        /\ b.directory.monitors = s.directory.monitors
        /\ b.files = s.files /\ b.watch = s.watch /\ b.handlers = s.handlers
        /\ b.thread = s.thread
    BY <2>1 DEF States, Fields
  <2> HIDE DEF b
  <2>3. s.directory.active = 0
    BY <1>2 DEF Inv, Base, Underway
  <2>4. Base(b, q)
    BY <2>2, <2>3 DEF Inv, Base, Watched, Underway, Reporting
  <2>5. Base(r, q) /\ r.files = NoFiles /\ r.directory = b.directory
    BY <2>4, Reset
  <2> HIDE DEF r
  <2>6. Inv(EngineStart(r), q)
    BY <2>2, <2>3, <2>5, BegunInv
  <2> QED BY <1>2, <2>6 DEF StartSearchEngine, r, b
<1> QED BY <1>1, <1>2

LEMMA StopInv ==
  ASSUME NEW s, NEW q, Inv(s, q)
  PROVE  Inv(StopSearchEngine(s), q)
<1>1. CASE Wanted(s) \/ ~s.directory.running
  BY <1>1 DEF StopSearchEngine
<1>2. CASE ~Wanted(s) /\ s.directory.running
  <2> DEFINE b == [s EXCEPT !.directory.running = FALSE]
             e == EngineStop(s)
             c == EngineStop(b)
             r == ResetFileList(c)
  <2>1. s \in States /\ s.directory \in Fields /\ s.thread \in Seq(Searches)
    BY DEF Inv, Base, States
  <2>2. /\ b \in States
        /\ b.directory = [s.directory EXCEPT !.running = FALSE]
        /\ b.files = s.files /\ b.watch = s.watch /\ b.handlers = s.handlers
        /\ b.thread = s.thread /\ b.call = s.call
    BY <2>1 DEF States, Fields
  <2>3. /\ Base(e, q)
        /\ e.directory = [s.directory EXCEPT !.active = 0]
        /\ e.files = s.files /\ e.call = s.call
    BY StoppedBase DEF Inv
  <2>4. c = [e EXCEPT !.directory.running = FALSE]
    BY <2>1, ZenonT(60) DEF EngineStop, States, Fields
  <2>5. e \in States /\ e.directory \in Fields
    BY <2>3 DEF Base, States
  <2> HIDE DEF e, b
  <2>6. /\ c \in States
        /\ c.directory = [e.directory EXCEPT !.running = FALSE]
        /\ c.files = e.files /\ c.watch = e.watch /\ c.handlers = e.handlers
        /\ c.thread = e.thread
    BY <2>4, <2>5, ZenonT(60) DEF States, Fields
  <2> HIDE DEF c
  <2>7. /\ ~c.directory.running /\ c.directory.active = 0
        /\ c.directory.monitors = e.directory.monitors
    BY <2>3, <2>5, <2>6 DEF Fields
  <2>8. e.directory.active = 0
    BY <2>1, <2>3 DEF Fields
  <2>9. Base(c, q)
    BY <2>3, <2>6, <2>7, <2>8 DEF Base, Watched, Underway, Reporting
  <2>10. Base(r, q) /\ r.files = NoFiles /\ r.directory = c.directory
    BY <2>9, Reset
  <2> HIDE DEF r
  <2>11. Inv(r, q)
    BY <2>7, <2>10, QuietInv
  <2> QED BY <1>2, <2>11 DEF StopSearchEngine, r, c, b
<1> QED BY <1>1, <1>2

(***************************************************************************)
(* The clients.                                                            *)
(***************************************************************************)
\* What the invariant says of searches depends on nothing else.
SameSearches(s, r) ==
  /\ r.files = s.files /\ r.thread = s.thread
  /\ r.directory.alive = s.directory.alive /\ r.directory.engine = s.directory.engine
  /\ r.directory.engineQuery = s.directory.engineQuery
  /\ r.directory.running = s.directory.running /\ r.directory.finished = s.directory.finished
  /\ r.directory.active = s.directory.active

LEMMA SameInv ==
  ASSUME NEW s, NEW r, NEW q, Inv(s, q), r \in States, SameSearches(s, r), Watched(r)
  PROVE  Inv(r, q)
<1>1. Base(r, q)
  BY DEF Inv, Base, Underway, Reporting, SameSearches
<1>2. Heeded(r, q)
  BY DEF Inv, Heeded, SameSearches
<1>3. Results(r)
  BY DEF Inv, Results, SameSearches
<1> QED BY <1>1, <1>2, <1>3 DEF Inv

LEMMA BecomesInv ==
  ASSUME NEW s, Inv(s, idles'), Becomes(s)
  PROVE  Inv(Now, idles)'
<1>1. Now' = [directory |-> s.directory, files |-> s.files, watch |-> s.watch,
              handlers |-> s.handlers, call |-> s.call, thread |-> s.thread]
  BY DEF Becomes, Now
<1>2. Now' = s
  BY <1>1 DEF Inv, Base, States
<1> QED BY <1>2

LEMMA InitInv == Init => Inv(Now, idles)
<1> SUFFICES ASSUME Init PROVE Inv(Now, idles)
  OBVIOUS
<1>1. /\ directory \in Fields
      /\ directory.active = 0 /\ ~directory.running /\ directory.monitors = {}
  <2>1. directory \in [alive : {TRUE}, query : Queries, engine : {FALSE}, engineQuery : Queries,
                       running : {FALSE}, finished : {FALSE}, monitors : {{}}, active : {0}]
    BY DEF Init
  <2>2. /\ directory = [alive |-> directory.alive, query |-> directory.query,
                         engine |-> directory.engine, engineQuery |-> directory.engineQuery,
                         running |-> directory.running, finished |-> directory.finished,
                         monitors |-> directory.monitors, active |-> directory.active]
        /\ directory.alive \in {TRUE} /\ directory.query \in Queries
        /\ directory.engine \in {FALSE} /\ directory.engineQuery \in Queries
        /\ directory.running \in {FALSE} /\ directory.finished \in {FALSE}
        /\ directory.monitors \in {{}} /\ directory.active \in {0}
    BY <2>1
  <2>3. /\ directory.alive = TRUE /\ directory.engine = FALSE
        /\ directory.running = FALSE /\ directory.finished = FALSE
        /\ directory.active = 0 /\ directory.monitors = {}
    BY <2>2, Zenon
  <2>4. directory \in Fields
    <3>1. /\ directory.alive \in BOOLEAN /\ directory.engine \in BOOLEAN
          /\ directory.running \in BOOLEAN /\ directory.finished \in BOOLEAN
      BY <2>3, Zenon
    <3>2. directory.monitors \subseteq Clients /\ directory.active \in Nat
      BY <2>3
    <3> QED BY <2>2, <3>1, <3>2 DEF Fields
  <2> QED BY <2>3, <2>4
<1>2. /\ files \in Lists /\ watch \in [Files -> SUBSET Clients] /\ handlers \in Lists
      /\ call \in [Calls -> Answers] /\ thread \in Seq(Searches) /\ idles \in Queues
      /\ DOMAIN thread = {} /\ DOMAIN idles = {} /\ Len(thread) = 0
  BY DEF Init, Lists, NoFiles, NoCall, Answers, Queues
<1>3. Now \in States
  BY <1>1, <1>2 DEF Now, States
<1>4. /\ Now.directory = directory /\ Now.files = NoFiles /\ Now.thread = thread
      /\ Now.watch = [f \in Files |-> {}] /\ Now.handlers = NoFiles
  BY DEF Now, Init, NoFiles
<1>5. Watched(Now)
  BY <1>1, <1>4 DEF Watched, NoFiles
<1>6. Underway(Now) /\ Reporting(Now, idles)
  BY <1>1, <1>2, <1>4 DEF Underway, Reporting
<1>7. Base(Now, idles)
  BY <1>2, <1>3, <1>5, <1>6 DEF Base
<1> QED BY <1>1, <1>4, <1>7, QuietInv

LEMMA NowState ==
  ASSUME Inv(Now, idles)
  PROVE  /\ Now \in States /\ Now.directory = directory /\ Now.files = files
         /\ Now.watch = watch /\ Now.handlers = handlers /\ Now.call = call
         /\ Now.thread = thread
         /\ directory \in Fields /\ files \in Lists /\ thread \in Seq(Searches)
         /\ watch \in [Files -> SUBSET Clients] /\ handlers \in Lists
         /\ call \in [Calls -> Answers]
         /\ idles \in Queues
<1>1. /\ Now \in States /\ Now.directory = directory /\ Now.files = files
      /\ Now.watch = watch /\ Now.handlers = handlers /\ Now.call = call
      /\ Now.thread = thread
      /\ idles \in Queues
  BY DEF Inv, Base, Now
<1> QED BY <1>1 DEF States

LEMMA SetQueryInv ==
  ASSUME Inv(Now, idles), NEW q \in Queries, SetQuery(q)
  PROVE  Inv(Now, idles)'
<1> DEFINE r == [Now EXCEPT !.directory.query = q]
<1>1. /\ r \in States
      /\ r.directory = [directory EXCEPT !.query = q]
      /\ r.files = files /\ r.watch = watch /\ r.handlers = handlers
      /\ r.call = call /\ r.thread = thread
  BY NowState DEF States, Fields
<1> HIDE DEF r
<1>2. SameSearches(Now, r) /\ r.directory.monitors = directory.monitors
  BY <1>1, NowState DEF SameSearches, Fields
<1>3. Watched(r)
  BY <1>1, <1>2, NowState DEF Inv, Base, Watched
<1>4. Inv(r, idles)
  BY <1>1, <1>2, <1>3, SameInv
<1>5. Becomes(r) /\ idles' = idles
  BY <1>1 DEF SetQuery, Acts, Becomes, listing
<1> QED BY <1>4, <1>5, BecomesInv

\* The clients that monitor the directory become monitors.
LEMMA MonitorsInv ==
  ASSUME Inv(Now, idles), NEW monitors \in SUBSET Clients, NEW w \in [Files -> SUBSET Clients],
         \A f \in Files : w[f] = IF f \in Listed(files) THEN monitors ELSE {}
  PROVE  LET r == [Now EXCEPT !.directory.monitors = monitors, !.watch = w] IN
         Inv(r, idles) /\ r.directory.alive = directory.alive
<1> DEFINE r == [Now EXCEPT !.directory.monitors = monitors, !.watch = w]
<1> SUFFICES Inv(r, idles) /\ r.directory.alive = directory.alive
  OBVIOUS
<1>1. /\ r \in States
      /\ r.directory = [directory EXCEPT !.monitors = monitors]
      /\ r.files = files /\ r.watch = w /\ r.handlers = handlers
      /\ r.call = call /\ r.thread = thread
  BY NowState DEF States, Fields
<1> HIDE DEF r
<1>2. SameSearches(Now, r) /\ r.directory.monitors = monitors
  BY <1>1, NowState DEF SameSearches, Fields
<1>3. Watched(r)
  BY <1>1, <1>2, NowState DEF Inv, Base, Watched, Listed
<1> QED BY <1>1, <1>2, <1>3, NowState, SameInv DEF SameSearches

LEMMA WatchedNow ==
  ASSUME Inv(Now, idles)
  PROVE  \A f \in Files : /\ watch[f] = IF f \in Listed(files) THEN directory.monitors ELSE {}
                          /\ handlers[f] = files[f]
BY NowState DEF Inv, Base, Watched, Listed

LEMMA MonitorAddInv ==
  ASSUME Inv(Now, idles), NEW c \in Clients, MonitorAdd(c)
  PROVE  Inv(Now, idles)'
<1> DEFINE monitors == directory.monitors \cup {c}
           w == [f \in Files |-> IF f \in Listed(files) THEN watch[f] \cup {c} ELSE watch[f]]
           r == [Now EXCEPT !.directory.monitors = monitors, !.watch = w]
<1>1. monitors \in SUBSET Clients /\ w \in [Files -> SUBSET Clients]
  BY NowState DEF Fields
<1>2. \A f \in Files : w[f] = IF f \in Listed(files) THEN monitors ELSE {}
  BY WatchedNow
<1>3. [Now EXCEPT !.directory.monitors = @ \cup {c},
                  !.watch = [f \in Files |-> IF f \in Listed(files) THEN @[f] \cup {c} ELSE @[f]]] = r
  BY NowState DEF States, Fields
<1> HIDE DEF monitors, w
<1>4. Inv(r, idles) /\ r.directory.alive = directory.alive
  BY <1>1, <1>2, MonitorsInv
<1>5. Becomes(StartSearchEngine(r)) /\ idles' = idles /\ directory.alive
  BY <1>3 DEF MonitorAdd, Acts
<1> HIDE DEF r
<1> QED BY <1>4, <1>5, StartInv, BecomesInv

LEMMA MonitorRemoveInv ==
  ASSUME Inv(Now, idles), NEW c \in Clients, MonitorRemove(c)
  PROVE  Inv(Now, idles)'
<1> DEFINE monitors == directory.monitors \ {c}
           w == [f \in Files |-> IF f \in Listed(files) THEN watch[f] \ {c} ELSE watch[f]]
           r == [Now EXCEPT !.directory.monitors = monitors, !.watch = w]
<1>1. monitors \in SUBSET Clients /\ w \in [Files -> SUBSET Clients]
  BY NowState DEF Fields
<1>2. \A f \in Files : w[f] = IF f \in Listed(files) THEN monitors ELSE {}
  BY WatchedNow
<1>3. [Now EXCEPT !.directory.monitors = @ \ {c},
                  !.watch = [f \in Files |-> IF f \in Listed(files) THEN @[f] \ {c} ELSE @[f]]] = r
  BY NowState DEF States, Fields
<1> HIDE DEF monitors, w
<1>4. Inv(r, idles)
  BY <1>1, <1>2, MonitorsInv
<1>5. Becomes(StopSearchEngine(r)) /\ idles' = idles
  BY <1>3 DEF MonitorRemove, Acts
<1> HIDE DEF r
<1> QED BY <1>4, <1>5, StopInv, BecomesInv

\* Only the calls change.
LEMMA CallsInv ==
  ASSUME Inv(Now, idles), NEW k \in Calls, NEW answer \in Answers
  PROVE  LET r == [Now EXCEPT !.call[k] = answer] IN
         Inv(r, idles) /\ r.directory = directory
<1> DEFINE r == [Now EXCEPT !.call[k] = answer]
<1> SUFFICES Inv(r, idles) /\ r.directory = directory
  OBVIOUS
<1>1. /\ r \in States /\ r.directory = directory
      /\ r.files = files /\ r.watch = watch /\ r.handlers = handlers
      /\ r.thread = thread
  BY NowState DEF States, Fields
<1> HIDE DEF r
<1>2. SameSearches(Now, r) /\ Watched(r)
  BY <1>1, NowState DEF SameSearches, Inv, Base, Watched
<1> QED BY <1>1, <1>2, SameInv

LEMMA CallWhenReadyInv ==
  ASSUME Inv(Now, idles), NEW k \in Calls, NEW wait \in BOOLEAN, CallWhenReady(k, wait)
  PROVE  Inv(Now, idles)'
<1>1. idles' = idles /\ directory.alive /\ call[k] = NoCall
  BY DEF CallWhenReady, Acts
<1>2. CASE wait /\ ~directory.finished
  <2> DEFINE answer == [state |-> "pending", left |-> {}]
             r == [Now EXCEPT !.call[k] = answer]
  <2>1. answer \in Answers
    BY DEF Answers
  <2>2. [Now EXCEPT !.call[k].state = "pending"] = r
    <3>1. [call[k] EXCEPT !.state = "pending"] = answer
      BY <1>1 DEF NoCall
    <3> HIDE DEF answer
    <3> QED BY <3>1, NowState DEF States
  <2> HIDE DEF answer
  <2>3. Inv(r, idles) /\ r.directory = directory
    BY <2>1, CallsInv
  <2>4. Becomes(StartSearchEngine(r))
    BY <1>2, <2>2 DEF CallWhenReady
  <2> HIDE DEF r
  <2> QED BY <1>1, <2>3, <2>4, StartInv, BecomesInv
<1>3. CASE ~(wait /\ ~directory.finished) /\ Listed(files) = {}
  <2>1. Becomes(Now)
    BY <1>3 DEF CallWhenReady
  <2> QED BY <1>1, <2>1, BecomesInv
<1>4. CASE ~(wait /\ ~directory.finished) /\ Listed(files) # {}
  <2> DEFINE answer == [state |-> "files", left |-> Listed(files)]
             r == [Now EXCEPT !.call[k] = answer]
  <2>1. answer \in Answers
    BY DEF Answers, Listed
  <2>2. Becomes(r)
    BY <1>4 DEF CallWhenReady
  <2> HIDE DEF answer
  <2>3. Inv(r, idles)
    BY <2>1, CallsInv
  <2> HIDE DEF r
  <2> QED BY <1>1, <2>2, <2>3, BecomesInv
<1> QED BY <1>2, <1>3, <1>4

LEMMA CancelCallbackInv ==
  ASSUME Inv(Now, idles), NEW k \in Calls, CancelCallback(k)
  PROVE  Inv(Now, idles)'
<1> DEFINE r == [Now EXCEPT !.call[k] = NoCall]
<1>1. NoCall \in Answers
  BY DEF Answers, NoCall
<1>2. Inv(r, idles)
  BY <1>1, CallsInv
<1>3. idles' = idles /\ (Becomes(StopSearchEngine(r)) \/ Becomes(r))
  BY DEF CancelCallback, Acts
<1> HIDE DEF r
<1>4. Inv(StopSearchEngine(r), idles)
  BY <1>2, StopInv
<1> QED BY <1>2, <1>3, <1>4, BecomesInv

LEMMA ForceReloadInv ==
  ASSUME Inv(Now, idles), ForceReload
  PROVE  Inv(Now, idles)'
<1> DEFINE u == [Now EXCEPT !.directory.finished = FALSE]
           reset == ResetFileList(u)
           stopped == EngineStop(reset)
           asked == [stopped EXCEPT !.directory.engineQuery = directory.query]
<1>1. /\ idles' = idles /\ directory.alive
      /\ Becomes(IF ~directory.engine THEN u
                 ELSE IF directory.running THEN EngineStart(asked) ELSE reset)
  BY DEF ForceReload, Acts
<1>2. /\ u \in States
      /\ u.directory = [directory EXCEPT !.finished = FALSE]
      /\ u.files = files /\ u.watch = watch /\ u.handlers = handlers
      /\ u.thread = thread
  BY NowState DEF States, Fields
<1> HIDE DEF u
<1>3. /\ u.directory.monitors = directory.monitors /\ ~u.directory.finished
      /\ u.directory.active = directory.active /\ u.directory.alive = directory.alive
      /\ u.directory.running = directory.running /\ u.directory.engine = directory.engine
      /\ u.directory.engineQuery = directory.engineQuery
  BY <1>2, NowState DEF Fields
<1>4. Base(u, idles)
  <2>1. Watched(u)
    BY <1>2, <1>3, NowState DEF Inv, Base, Watched
  <2>2. Underway(u)
    BY <1>2, <1>3, NowState DEF Inv, Base, Underway
  <2>3. Reporting(u, idles)
    BY <1>2, NowState DEF Inv, Base, Reporting
  <2> QED BY <1>2, <2>1, <2>2, <2>3, NowState DEF Base
<1>5. /\ Base(reset, idles) /\ reset.files = NoFiles /\ reset.directory = u.directory
  BY <1>4, Reset
<1> HIDE DEF reset
<1>6. /\ Base(stopped, idles)
      /\ stopped.directory = [u.directory EXCEPT !.active = 0]
      /\ stopped.files = NoFiles
  BY <1>5, StoppedBase
<1> HIDE DEF stopped
<1>7. CASE ~directory.engine
  <2>1. Inv(u, idles)
    <3>1. ~directory.running /\ directory.active = 0
      BY <1>7, NowState DEF Inv, Base, Underway
    <3>2. Heeded(u, idles)
      BY <1>3, <3>1 DEF Heeded
    <3>3. Results(u)
      BY <1>2, <1>3, <3>1, NowState DEF Inv, Results
    <3> QED BY <1>4, <3>2, <3>3 DEF Inv
  <2> QED BY <1>1, <1>7, <2>1, BecomesInv
<1>8. CASE directory.engine /\ directory.running
  <2>1. stopped \in States /\ stopped.directory \in Fields /\ directory.query \in Queries
    BY <1>6, NowState DEF Base, States, Fields
  <2>2. /\ asked \in States
        /\ asked.directory = [stopped.directory EXCEPT !.engineQuery = directory.query]
        /\ asked.files = stopped.files /\ asked.watch = stopped.watch
        /\ asked.handlers = stopped.handlers /\ asked.thread = stopped.thread
    BY <2>1 DEF States, Fields
  <2> HIDE DEF asked
  <2>3. /\ asked.directory.monitors = stopped.directory.monitors
        /\ asked.directory.active = stopped.directory.active
        /\ asked.directory.alive = stopped.directory.alive
        /\ asked.directory.running = stopped.directory.running
        /\ asked.directory.engine = stopped.directory.engine
        /\ asked.directory.finished = stopped.directory.finished
    BY <2>1, <2>2 DEF Fields
  <2>4. /\ stopped.directory.active = 0
        /\ stopped.directory.alive = directory.alive
        /\ stopped.directory.running = directory.running
        /\ ~stopped.directory.finished
    BY <1>2, <1>3, <1>6 DEF States, Fields
  <2>5. Base(asked, idles)
    <3>1. Watched(asked)
      BY <1>6, <2>2, <2>3 DEF Base, Watched
    <3>2. Underway(asked)
      BY <1>6, <2>2, <2>3 DEF Base, Underway
    <3>3. Reporting(asked, idles)
      BY <1>6, <2>2 DEF Base, Reporting
    <3> QED BY <1>6, <2>2, <3>1, <3>2, <3>3 DEF Base
  <2>6. Inv(EngineStart(asked), idles)
    BY <1>1, <1>6, <1>8, <2>2, <2>3, <2>4, <2>5, BegunInv
  <2> QED BY <1>1, <1>8, <2>6, BecomesInv
<1>9. CASE directory.engine /\ ~directory.running
  <2>1. reset.directory.active = 0
    BY <1>3, <1>5, <1>9, NowState DEF Inv, Base, Underway
  <2>2. Inv(reset, idles)
    BY <1>3, <1>5, <2>1, QuietInv
  <2> QED BY <1>1, <1>9, <2>2, BecomesInv
<1> QED BY <1>7, <1>8, <1>9

LEMMA DisposeInv ==
  ASSUME Inv(Now, idles), Dispose
  PROVE  Inv(Now, idles)'
<1> DEFINE u == [Now EXCEPT !.directory.monitors = {},
                            !.call = [k \in Calls |-> NoCall],
                            !.watch = [f \in Files |-> {}]]
           reset == ResetFileList(u)
           s == IF directory.engine /\ directory.running THEN EngineStop(reset) ELSE reset
           r == [s EXCEPT !.directory.alive = FALSE]
<1>1. idles' = idles /\ Becomes(r)
  BY DEF Dispose, Acts
<1>2. /\ u \in States
      /\ u.directory = [directory EXCEPT !.monitors = {}]
      /\ u.files = files /\ u.watch = [f \in Files |-> {}] /\ u.handlers = handlers
      /\ u.thread = thread
  BY NowState DEF States, Fields, Answers, NoCall
<1> HIDE DEF u
<1>3. SameSearches(Now, u) /\ u.directory.monitors = {}
  BY <1>2, NowState DEF SameSearches, Fields
<1>4. Watched(u)
  BY <1>2, <1>3, WatchedNow DEF Watched
<1>5. Inv(u, idles)
  BY <1>2, <1>3, <1>4, SameInv
<1>6. Base(reset, idles) /\ reset.files = NoFiles /\ reset.directory = u.directory
  BY <1>5, Reset DEF Inv
<1> HIDE DEF reset
<1>7. Base(s, idles) /\ s.files = NoFiles /\ s.directory.active = 0
  <2>1. CASE directory.engine /\ directory.running
    <3>1. /\ Base(s, idles) /\ s.directory = [reset.directory EXCEPT !.active = 0]
          /\ s.files = NoFiles
      BY <1>6, <2>1, StoppedBase
    <3>2. reset.directory \in Fields
      BY <1>6 DEF Base, States
    <3> HIDE DEF s
    <3> QED BY <3>1, <3>2 DEF Fields
  <2>2. CASE ~(directory.engine /\ directory.running)
    <3>1. u.directory.active = 0
      BY <1>3, <1>5, <2>2, NowState DEF Inv, Base, Underway, SameSearches
    <3> QED BY <1>6, <2>2, <3>1
  <2> QED BY <2>1, <2>2
<1> HIDE DEF s
<1>8. s \in States /\ s.directory \in Fields
  BY <1>7 DEF Base, States
<1>9. /\ r \in States
      /\ r.directory = [s.directory EXCEPT !.alive = FALSE]
      /\ r.files = s.files /\ r.watch = s.watch /\ r.handlers = s.handlers
      /\ r.thread = s.thread
  BY <1>8 DEF States, Fields
<1> HIDE DEF r
<1>10. /\ ~r.directory.alive /\ r.directory.active = 0
       /\ r.directory.monitors = s.directory.monitors
       /\ r.directory.running = s.directory.running /\ r.directory.engine = s.directory.engine
  BY <1>7, <1>8, <1>9 DEF Fields
<1>11. Base(r, idles)
  <2>1. Watched(r)
    BY <1>7, <1>9, <1>10 DEF Base, Watched
  <2>2. Underway(r)
    BY <1>7, <1>9, <1>10 DEF Base, Underway
  <2>3. Reporting(r, idles)
    BY <1>7, <1>9 DEF Base, Reporting
  <2> QED BY <1>7, <1>9, <2>1, <2>2, <2>3 DEF Base
<1>12. Inv(r, idles)
  BY <1>7, <1>9, <1>10, <1>11, QuietInv
<1> QED BY <1>1, <1>12, BecomesInv

LEMMA FileReadyInv ==
  ASSUME Inv(Now, idles), NEW k \in Calls, NEW f \in Files, FileReady(k, f)
  PROVE  Inv(Now, idles)'
<1> DEFINE answer == IF call[k].left = {f} THEN NoCall
                     ELSE [call[k] EXCEPT !.left = @ \ {f}]
           r == [Now EXCEPT !.call[k] = answer]
<1>1. answer \in Answers
  BY NowState DEF Answers, NoCall
<1>2. call' = [call EXCEPT ![k] = answer]
  <2>1. CASE call[k].left = {f}
    BY <2>1 DEF FileReady
  <2>2. CASE call[k].left # {f}
    BY <2>2, NowState DEF FileReady, Answers
  <2> QED BY <2>1, <2>2
<1>5. UNCHANGED << directory, files, watch, handlers, thread, idles >>
  BY DEF FileReady, listing
<1> HIDE DEF answer
<1>3. Inv(r, idles)
  BY <1>1, CallsInv
<1>4. Becomes(r)
  BY <1>2, <1>5, NowState DEF Becomes, States
<1> HIDE DEF r
<1> QED BY <1>5, <1>3, <1>4, BecomesInv

(***************************************************************************)
(* The reports.                                                            *)
(***************************************************************************)
\* p is q with more reports of search i.
Longer(q, p, i) ==
  /\ p \in Queues /\ DOMAIN q \subseteq DOMAIN p
  /\ \A k \in DOMAIN q : p[k] = q[k]
  /\ \A k \in DOMAIN p \ DOMAIN q : p[k].search = i /\ \A j \in DOMAIN q : j < k

\* The reports that are new are of hits, but for one that may be the last.
Hinted(q, p, t) ==
  \A k \in DOMAIN p \ DOMAIN q :
    \/ p[k].kind = "hits"
    \/ t.step = "over" /\ p[k].uris = NoFiles /\ \A j \in DOMAIN p : j <= k

\* One of them is of found, if that is anything.
Tells(q, p, found) ==
  \E n : /\ found # NoFiles => n \in DOMAIN p \ DOMAIN q
         /\ \A k \in DOMAIN p \ DOMAIN q : p[k].uris = IF k = n THEN found ELSE NoFiles

LEMMA Posted ==
  ASSUME NEW q \in Queues, NEW i \in Nat, NEW found \in Lists
  PROVE  LET p == q \o Batch(i, found) IN
         /\ Longer(q, p, i) /\ Tells(q, p, found)
         /\ \A k \in DOMAIN p \ DOMAIN q : p[k].kind = "hits"
<1> DEFINE p == q \o Batch(i, found)
           report == [kind |-> "hits", search |-> i, uris |-> found]
           Report == [kind : {"hits", "done"}, search : Nat, uris : Lists]
<1> SUFFICES /\ Longer(q, p, i) /\ Tells(q, p, found)
             /\ \A k \in DOMAIN p \ DOMAIN q : p[k].kind = "hits"
  OBVIOUS
<1>1. q \in Seq(Report) /\ report \in Report
  BY DEF Queues
<1>2. CASE found = NoFiles
  <2>1. p = q
    BY <1>1, <1>2, ConcatEmptySeq DEF Batch
  <2> HIDE DEF p
  <2>2. Tells(q, p, found)
    BY <1>2, <2>1 DEF Tells
  <2> QED BY <2>1, <2>2 DEF Longer
<1>3. CASE found # NoFiles
  <2>1. p = Append(q, report)
    BY <1>1, <1>3, AppendIsConcat DEF Batch
  <2> HIDE DEF p
  <2>2. /\ p \in Seq(Report) /\ Len(p) = Len(q) + 1
        /\ \A k \in 1 .. Len(q) : p[k] = q[k]
        /\ p[Len(q) + 1] = report
    <3> HIDE DEF report, Report
    <3> QED BY <1>1, <2>1, AppendProperties
  <2>3. Len(q) \in Nat /\ DOMAIN q = 1 .. Len(q) /\ DOMAIN p = 1 .. Len(q) + 1
    BY <1>1, <2>2, LenProperties
  <2>4. DOMAIN p \ DOMAIN q = {Len(q) + 1} /\ DOMAIN q \subseteq DOMAIN p
        /\ \A j \in DOMAIN q : j < Len(q) + 1
    BY <2>3
  <2>5. Tells(q, p, found)
    BY <2>2, <2>4 DEF Tells
  <2>6. Longer(q, p, i)
    BY <2>2, <2>3, <2>4 DEF Longer, Queues
  <2> QED BY <2>2, <2>4, <2>5, <2>6
<1> QED BY <1>2, <1>3

LEMMA PostedLast ==
  ASSUME NEW q \in Queues, NEW i \in Nat, NEW found \in Lists
  PROVE  LET p == q \o Batch(i, found) \o DoneReport(i) IN
         /\ Longer(q, p, i) /\ Tells(q, p, found)
         /\ \A t : t.step = "over" => Hinted(q, p, t)
<1> DEFINE m == q \o Batch(i, found)
           p == m \o DoneReport(i)
           report == [kind |-> "done", search |-> i, uris |-> NoFiles]
           Report == [kind : {"hits", "done"}, search : Nat, uris : Lists]
<1> SUFFICES /\ Longer(q, p, i) /\ Tells(q, p, found)
             /\ \A t : t.step = "over" => Hinted(q, p, t)
  OBVIOUS
<1>1. Longer(q, m, i) /\ Tells(q, m, found)
      /\ \A k \in DOMAIN m \ DOMAIN q : m[k].kind = "hits"
  BY Posted
<1>2. m \in Seq(Report) /\ report \in Report /\ p = m \o << report >>
  BY <1>1 DEF Longer, Queues, DoneReport, NoFiles, Lists
<1> HIDE DEF m
<1>3. p = Append(m, report)
  BY <1>2, AppendIsConcat
<1> HIDE DEF p
<1>4. /\ p \in Seq(Report) /\ Len(p) = Len(m) + 1
      /\ \A k \in 1 .. Len(m) : p[k] = m[k]
      /\ p[Len(m) + 1] = report
  <2> HIDE DEF report, Report
  <2> QED BY <1>2, <1>3, AppendProperties
<1>5. Len(m) \in Nat /\ DOMAIN m = 1 .. Len(m) /\ DOMAIN p = 1 .. Len(m) + 1
  BY <1>2, <1>4, LenProperties
<1>6. /\ DOMAIN p = DOMAIN m \cup {Len(m) + 1} /\ Len(m) + 1 \notin DOMAIN m
      /\ \A j \in DOMAIN m : j < Len(m) + 1
      /\ \A j \in DOMAIN p : j <= Len(m) + 1
  BY <1>5
<1>7. \A k \in DOMAIN p : (k \in DOMAIN m /\ p[k] = m[k]) \/ (k = Len(m) + 1 /\ p[k] = report)
  BY <1>4, <1>5, <1>6
<1>8. DOMAIN q \subseteq DOMAIN m /\ \A k \in DOMAIN q : m[k] = q[k]
  BY <1>1 DEF Longer
<1>9. Longer(q, p, i)
  BY <1>1, <1>4, <1>6, <1>7, <1>8, SMTT(30) DEF Longer, Queues
<1>10. Tells(q, p, found)
  <2>1. PICK n : /\ found # NoFiles => n \in DOMAIN m \ DOMAIN q
                 /\ \A k \in DOMAIN m \ DOMAIN q : m[k].uris = IF k = n THEN found ELSE NoFiles
    BY <1>1 DEF Tells
  <2>2. found # NoFiles => n \in DOMAIN p \ DOMAIN q
    BY <1>6, <2>1
  <2>3. \A k \in DOMAIN p \ DOMAIN q : p[k].uris = IF k = n THEN found ELSE NoFiles
    BY <1>6, <1>7, <2>1
  <2> QED BY <2>2, <2>3 DEF Tells
<1>11. ASSUME NEW t, t.step = "over" PROVE Hinted(q, p, t)
  BY <1>1, <1>6, <1>7, <1>11 DEF Hinted
<1> QED BY <1>9, <1>10, <1>11

\* A search that sends what it has found has found it still.
LEMMA Sent ==
  ASSUME NEW list, NEW t \in Searches, NEW u \in Searches, NEW q \in Queues, NEW p, NEW i,
         Once(list, t, q, i), AllFound(list, t, q, i),
         HasRead(u) = HasRead(t), u.query = t.query, u.found = NoFiles,
         Longer(q, p, i), Tells(q, p, t.found)
  PROVE  Once(list, u, p, i) /\ AllFound(list, u, p, i)
<1>1. PICK n : /\ t.found # NoFiles => n \in DOMAIN p \ DOMAIN q
               /\ \A k \in DOMAIN p \ DOMAIN q : p[k].uris = IF k = n THEN t.found ELSE NoFiles
  BY DEF Tells
<1>2. \A list2 : Reads(u, list2) <=> Reads(t, list2)
  BY DEF Reads
<1>3. Reads(u, NoFiles) /\ \A o : Apart(NoFiles, o) /\ Apart(o, NoFiles)
  BY DEF Reads, Apart, NoFiles
<1>4. \A k \in DOMAIN p : \/ k \in DOMAIN q /\ p[k] = q[k]
                          \/ k = n /\ p[k].search = i /\ p[k].uris = t.found
                          \/ p[k].uris = NoFiles
  BY <1>1 DEF Longer
<1>5. Apart(t.found, list) /\ \A a, b : Apart(a, b) => Apart(b, a)
  BY DEF Once, Apart
<1>6. Once(list, u, p, i)
  <2>1. ASSUME NEW k \in DOMAIN p, p[k].search = i
        PROVE  Reads(u, p[k].uris) /\ Apart(list, p[k].uris)
    BY <1>2, <1>3, <1>4, <2>1 DEF Once
  <2>2. ASSUME NEW j \in DOMAIN p, NEW k \in DOMAIN p, j # k, p[j].search = i, p[k].search = i
        PROVE  Apart(p[j].uris, p[k].uris)
    BY <1>3, <1>4, <1>5, <2>2 DEF Once
  <2>3. Reads(u, list)
    BY <1>2 DEF Once
  <2> QED BY <1>3, <2>1, <2>2, <2>3 DEF Once
<1>7. AllFound(list, u, p, i)
  <2> SUFFICES ASSUME NEW f \in (HasRead(t) \cap Matches[t.query]) \ SavedSearches, ~(list[f] > 0)
               PROVE  \E k \in DOMAIN p : p[k].search = i /\ p[k].uris[f] > 0
    BY DEF AllFound
  <2>1. CASE t.found[f] > 0
    <3>1. f \in Files /\ t.found # NoFiles
      BY <2>1 DEF NoFiles, HasRead
    <3> QED BY <1>1, <2>1, <3>1 DEF Longer
  <2>2. CASE \E k \in DOMAIN q : q[k].search = i /\ q[k].uris[f] > 0
    BY <2>2 DEF Longer
  <2> QED BY <2>1, <2>2 DEF AllFound
<1> QED BY <1>6, <1>7

\* The reports of another search make no difference.
LEMMA Unconcerned ==
  ASSUME NEW list, NEW t, NEW q, NEW p, NEW i, NEW j, i # j,
         HeedsSearch(list, t, q, i), Longer(q, p, j)
  PROVE  HeedsSearch(list, t, p, i)
<1>1. \A k \in DOMAIN p : p[k].search = i => k \in DOMAIN q /\ p[k] = q[k]
  BY DEF Longer
<1>2. \A k \in DOMAIN q : k \in DOMAIN p /\ p[k] = q[k]
  BY DEF Longer
<1>3. Once(list, t, p, i)
  BY <1>1 DEF HeedsSearch, Once
<1>4. AllFound(list, t, p, i)
  BY <1>2 DEF HeedsSearch, AllFound
<1> QED BY <1>3, <1>4 DEF HeedsSearch

(***************************************************************************)
(* The threads.                                                            *)
(***************************************************************************)
LEMMA ReportType ==
  ASSUME NEW q \in Queues
  PROVE  \A k \in DOMAIN q : /\ q[k].kind \in {"hits", "done"}
                             /\ q[k].search \in Nat /\ q[k].uris \in Lists
<1> DEFINE Report == [kind : {"hits", "done"}, search : Nat, uris : Lists]
<1>1. q \in Seq(Report)
  BY DEF Queues
<1>2. \A k \in DOMAIN q : q[k] \in Report
  <2> HIDE DEF Report
  <2> QED BY <1>1, ElementOfSeq, LenProperties
<1> QED BY <1>2

LEMMA StepBase ==
  ASSUME Inv(Now, idles), NEW i \in DOMAIN thread, NEW u \in Searches,
         thread[i].step = "search",
         u.query = thread[i].query, u.cancelled = thread[i].cancelled, u.step # "freed",
         thread' = [thread EXCEPT ![i] = u], UNCHANGED << directory, listing, call >>,
         Longer(idles, idles', i), Hinted(idles, idles', u),
         directory.active = i => HeedsSearch(files, u, idles', i)
  PROVE  Inv(Now, idles)'
<1>1. /\ Len(thread) \in Nat /\ DOMAIN thread = 1 .. Len(thread)
      /\ thread' \in Seq(Searches) /\ Len(thread') = Len(thread)
      /\ DOMAIN thread' = DOMAIN thread
      /\ \A j \in DOMAIN thread : thread'[j] = IF j = i THEN u ELSE thread[j]
  BY NowState, LenProperties, ExceptSeq
<1>2. UNCHANGED << directory, files, watch, handlers, call >>
  BY DEF listing
<1> DEFINE s == [directory |-> directory, files |-> files, watch |-> watch,
                 handlers |-> handlers, call |-> call, thread |-> thread']
<1>3. /\ s \in States /\ s.directory = directory /\ s.files = files /\ s.watch = watch
      /\ s.handlers = handlers /\ s.call = call /\ s.thread = thread'
  BY <1>1, NowState DEF States
<1>4. Now' = s
  BY <1>2 DEF Now
<1> HIDE DEF s
<1>5. Watched(s)
  BY <1>3, NowState DEF Inv, Base, Watched
<1>6. Underway(s)
  <2>1. Underway(Now)
    BY DEF Inv, Base
  <2> QED BY <1>1, <1>3, <2>1, NowState, SMTT(30) DEF Underway
<1>7. Reporting(s, idles')
  <2>1. Reporting(Now, idles) /\ Now.thread = thread
    BY NowState DEF Inv, Base
  <2>2. ASSUME NEW k \in DOMAIN idles'
        PROVE  /\ idles'[k].search \in DOMAIN thread'
               /\ thread'[idles'[k].search].step # "freed"
               /\ idles'[k].kind = "done" =>
                    thread'[idles'[k].search].step = "over" /\ idles'[k].uris = NoFiles
    <3>1. CASE k \in DOMAIN idles
      BY <1>1, <2>1, <3>1 DEF Reporting, Longer
    <3>2. CASE k \notin DOMAIN idles
      BY <1>1, <2>2, <3>2 DEF Longer, Hinted
    <3> QED BY <3>1, <3>2
  <2>3. ASSUME NEW j \in DOMAIN idles', NEW k \in DOMAIN idles', j < k,
               idles'[j].search = idles'[k].search
        PROVE  idles'[j].kind = "hits"
    <3>1. j \in Nat /\ k \in Nat
      <4>1. idles' \in Queues
        BY DEF Longer
      <4> QED BY <4>1 DEF Queues
    <3>2. CASE j \in DOMAIN idles /\ k \in DOMAIN idles
      BY <2>1, <2>3, <3>2 DEF Reporting, Longer
    <3>3. CASE j \in DOMAIN idles /\ k \notin DOMAIN idles
      <4>1. idles'[j] = idles[j] /\ idles[j].search = i
        BY <2>3, <3>3 DEF Longer
      <4>2. idles[j].kind # "done"
        BY <2>1, <3>3, <4>1 DEF Reporting
      <4>3. idles[j].kind \in {"hits", "done"}
        BY <3>3, NowState, ReportType
      <4> QED BY <4>1, <4>2, <4>3
    <3>4. CASE j \notin DOMAIN idles
      BY <2>3, <3>1, <3>4 DEF Hinted
    <3> QED BY <3>2, <3>3, <3>4
  <2> QED BY <1>3, <2>2, <2>3 DEF Reporting
<1>8. Heeded(s, idles')
  <2> SUFFICES ASSUME directory.active # 0
               PROVE  /\ thread'[directory.active].query = directory.engineQuery
                      /\ HeedsSearch(files, thread'[directory.active], idles', directory.active)
    BY <1>3 DEF Heeded
  <2>1. /\ thread[directory.active].query = directory.engineQuery
        /\ HeedsSearch(files, thread[directory.active], idles, directory.active)
        /\ directory.active \in 0 .. Len(thread)
    BY NowState DEF Inv, Heeded, Base, Underway
  <2>2. directory.active \in DOMAIN thread
    BY <1>1, <2>1
  <2>3. CASE directory.active = i
    BY <1>1, <2>1, <2>3
  <2>4. CASE directory.active # i
    BY <1>1, <2>1, <2>2, <2>4, Unconcerned
  <2> QED BY <2>3, <2>4
<1>9. Results(s)
  BY <1>3, NowState DEF Inv, Results
<1> QED BY <1>3, <1>4, <1>5, <1>6, <1>7, <1>8, <1>9 DEF Inv, Base, Longer

LEMMA Steps ==
  ASSUME Inv(Now, idles), NEW i \in DOMAIN thread, thread[i].step = "search"
  PROVE  /\ i \in Nat /\ i # 0 /\ thread[i] \in Searches
         /\ thread[i].cancelled \in BOOLEAN
         /\ thread[i].cancelled => directory.active # i
         /\ ~thread[i].cancelled => directory.active = i
                                    /\ HeedsSearch(files, thread[i], idles, i)
<1>1. i \in 1 .. Len(thread) /\ thread[i] \in Searches
  BY NowState, ElementOfSeq, LenProperties
<1>2. thread[i].cancelled \in BOOLEAN
  BY <1>1 DEF Searches
<1>3. thread[i].cancelled => directory.active # i
  BY <1>1, NowState DEF Inv, Base, Underway
<1>4. ~thread[i].cancelled => directory.active = i
  BY <1>1, NowState DEF Inv, Base, Underway
<1>5. ~thread[i].cancelled => HeedsSearch(files, thread[i], idles, i)
  BY <1>1, <1>4, NowState DEF Inv, Heeded
<1> QED BY <1>1, <1>2, <1>3, <1>4, <1>5

LEMMA Same == ASSUME NEW q \in Queues, NEW i PROVE Longer(q, q, i) /\ \A t : Hinted(q, q, t)
BY DEF Longer, Hinted

LEMMA VisitNextInv ==
  ASSUME Inv(Now, idles), NEW i \in DOMAIN thread, VisitNext(i)
  PROVE  Inv(Now, idles)'
<1> DEFINE t == thread[i]
           f == Head(t.rest)
           found == IF f \in Matches[t.query] THEN [t.found EXCEPT ![f] = @ + 1] ELSE t.found
           full == t.processed + 1 > BatchSize
           v == [Visited(t, f) EXCEPT !.found = found]
           u == [v EXCEPT !.found = IF full THEN NoFiles ELSE found,
                          !.processed = IF full THEN 0 ELSE @ + 1]
<1>1. /\ t.step = "search" /\ t.rest # << >> /\ ~t.cancelled
      /\ UNCHANGED << directory, listing, call >>
      /\ idles' = IF full THEN idles \o Batch(i, found) ELSE idles
  BY DEF VisitNext
<1>2. /\ i \in Nat /\ t \in Searches /\ directory.active = i
      /\ Walks(t) /\ Once(files, t, idles, i) /\ AllFound(files, t, idles, i)
  BY <1>1, Steps DEF HeedsSearch
<1>3. t.rest \in Seq(Files) /\ t.dirs \in Seq(Directories) /\ t.visited \subseteq Directories
      /\ t.processed \in Nat /\ t.found \in Lists /\ t.query \in Queries
  BY <1>2 DEF Searches
<1>4. thread' = [thread EXCEPT ![i] = u]
  <2>1. thread' = [thread EXCEPT ![i] =
          [t EXCEPT !.rest = Tail(@),
                    !.found = IF full THEN NoFiles ELSE found,
                    !.processed = IF full THEN 0 ELSE @ + 1,
                    !.visited = IF Leads[f] # NoDirectory /\ Leads[f] \notin t.visited
                                THEN @ \cup {Leads[f]} ELSE @,
                    !.dirs = IF Leads[f] # NoDirectory /\ Leads[f] \notin t.visited
                             THEN Append(@, Leads[f]) ELSE @]]
    BY DEF VisitNext
  <2>2. [t EXCEPT !.rest = Tail(@),
                  !.found = IF full THEN NoFiles ELSE found,
                  !.processed = IF full THEN 0 ELSE @ + 1,
                  !.visited = IF Leads[f] # NoDirectory /\ Leads[f] \notin t.visited
                              THEN @ \cup {Leads[f]} ELSE @,
                  !.dirs = IF Leads[f] # NoDirectory /\ Leads[f] \notin t.visited
                           THEN Append(@, Leads[f]) ELSE @] = u
    <3> HIDE DEF full, found, f
    <3> QED BY <1>2 DEF Visited, Searches
  <2> QED BY <2>1, <2>2
<1> HIDE DEF full
<1>5. f \in Files /\ Tail(t.rest) \in Seq(Files)
  BY <1>1, <1>3, OfTail
<1>6. found \in Lists /\ NoFiles \in Lists
  <2> HIDE DEF f, t
  <2>1. t.found[f] + 1 \in Nat
    BY <1>3, <1>5 DEF Lists
  <2>2. [t.found EXCEPT ![f] = @ + 1] \in Lists
    BY <1>3, <2>1 DEF Lists
  <2> QED BY <1>3, <2>2 DEF Lists, NoFiles
<1>7. /\ Leads[f] # NoDirectory => Leads[f] \in Directories
      /\ Leads[f] # NoDirectory => Append(t.dirs, Leads[f]) \in Seq(Directories)
  <2>1. Leads[f] # NoDirectory => Leads[f] \in Directories
    BY <1>5, TreeAssumption
  <2> QED BY <1>3, <2>1, AppendProperties
<1> HIDE DEF found, t
<1>8. /\ v \in Searches /\ u \in Searches
      /\ v.query = t.query /\ v.step = t.step /\ v.found = found
      /\ v.rest = Tail(t.rest) /\ v.visited = Visited(t, f).visited /\ v.dirs = Visited(t, f).dirs
      /\ u.query = t.query /\ u.cancelled = t.cancelled /\ u.step = t.step
      /\ u.rest = v.rest /\ u.visited = v.visited /\ u.dirs = v.dirs
      /\ u.found = IF full THEN NoFiles ELSE found
  <2> HIDE DEF f
  <2> DEFINE w == Visited(t, f)
  <2>1. w \in Searches
    BY <1>2, <1>3, <1>5, <1>7 DEF Visited, Searches
  <2>2. /\ w.query = t.query /\ w.step = t.step /\ w.cancelled = t.cancelled
        /\ w.rest = Tail(t.rest)
    BY <1>2 DEF Visited, Searches
  <2> HIDE DEF w
  <2>3. v = [w EXCEPT !.found = found]
    BY DEF w
  <2>4. v \in Searches
    <3> HIDE DEF v
    <3> QED BY <1>6, <2>1, <2>3 DEF Searches
  <2>5. /\ v.query = w.query /\ v.step = w.step /\ v.found = found /\ v.cancelled = w.cancelled
        /\ v.rest = w.rest /\ v.visited = w.visited /\ v.dirs = w.dirs
    <3> HIDE DEF v
    <3> QED BY <2>1, <2>3 DEF Searches
  <2> HIDE DEF v
  <2>6. v.processed \in Nat
    BY <2>4 DEF Searches
  <2>7. u \in Searches
    <3> DEFINE list == IF full THEN NoFiles ELSE found
               n == IF full THEN 0 ELSE v.processed + 1
    <3>1. list \in Lists /\ n \in Nat
      BY <1>6, <2>6
    <3> HIDE DEF list, n
    <3>2. [v EXCEPT !.found = list, !.processed = n] \in Searches
      BY <2>4, <3>1 DEF Searches
    <3> QED BY <3>2 DEF list, n
  <2>8. /\ u.query = v.query /\ u.cancelled = v.cancelled /\ u.step = v.step
        /\ u.rest = v.rest /\ u.visited = v.visited /\ u.dirs = v.dirs
        /\ u.found = IF full THEN NoFiles ELSE found
    BY <2>4 DEF Searches
  <2> QED BY <2>2, <2>4, <2>5, <2>7, <2>8 DEF w
<1> HIDE DEF v
<1>9. /\ Walks(v) /\ f \in Files \ HasRead(t) /\ HasRead(v) = HasRead(t) \cup {f}
  BY <1>1, <1>2, <1>8, VisitWalk
<1> HIDE DEF f, u
<1>10. Once(files, v, idles, i)
  <2>1. \A list : Reads(t, list) => Reads(v, list) /\ (list[f] > 0 => FALSE)
    BY <1>8, <1>9 DEF Reads
  <2>2. \A g \in Files : found[g] = IF g = f /\ f \in Matches[t.query] THEN t.found[g] + 1
                                    ELSE t.found[g]
    BY <1>3 DEF found, Lists
  <2>3. Reads(t, t.found) /\ Reads(t, files) /\ Apart(files, t.found)
        /\ \A k \in DOMAIN idles : idles[k].search = i =>
             Reads(t, idles[k].uris) /\ Apart(files, idles[k].uris) /\ Apart(t.found, idles[k].uris)
    BY <1>2 DEF Once
  <2>4. ASSUME NEW list \in Lists, Reads(t, list), Apart(t.found, list)
        PROVE  Apart(found, list) /\ Apart(list, found)
    <3>1. list[f] = 0
      BY <1>9, <2>1, <2>4 DEF Lists
    <3> QED BY <2>2, <2>4, <3>1 DEF Apart
  <2>5. t.found[f] = 0
    BY <1>3, <1>9, <2>1, <2>3 DEF Lists
  <2>6. Reads(v, found)
    BY <1>8, <1>9, <2>2, <2>3, <2>5 DEF Reads
  <2>7. \A k \in DOMAIN idles : idles[k].uris \in Lists
    BY NowState, ReportType
  <2>8. Apart(t.found, files)
    BY <2>3 DEF Apart
  <2>9. Apart(files, found) /\ \A k \in DOMAIN idles : idles[k].search = i => Apart(found, idles[k].uris)
    BY <2>3, <2>4, <2>7, <2>8, NowState
  <2>10. Reads(v, files) /\ \A k \in DOMAIN idles : idles[k].search = i => Reads(v, idles[k].uris)
    BY <2>1, <2>3
  <2> QED BY <1>2, <1>8, <2>3, <2>6, <2>9, <2>10 DEF Once
<1>11. AllFound(files, v, idles, i)
  <2>1. ASSUME NEW g \in HasRead(v) \cap Matches[v.query], g # f
        PROVE  g \in HasRead(t) \cap Matches[t.query] /\ found[g] = t.found[g]
    BY <1>3, <1>8, <1>9, <2>1 DEF found, Lists
  <2>2. f \in Matches[v.query] => found[f] > 0
    <3>1. t.found[f] \in Nat
      BY <1>3, <1>9 DEF Lists
    <3> QED BY <1>3, <1>8, <1>9, <3>1 DEF found, Lists
  <2> QED BY <1>2, <1>8, <2>1, <2>2 DEF AllFound
<1>12. HasRead(u) = HasRead(v) /\ Walks(u)
  BY <1>1, <1>8, <1>9 DEF HasRead, Entered, Walks
<1>13. /\ Longer(idles, idles', i) /\ Hinted(idles, idles', u)
       /\ Once(files, u, idles', i) /\ AllFound(files, u, idles', i)
  <2>1. CASE full
    <3>1. idles' = idles \o Batch(i, found)
      BY <1>1, <2>1
    <3>2. /\ Longer(idles, idles', i) /\ Tells(idles, idles', found)
          /\ \A k \in DOMAIN idles' \ DOMAIN idles : idles'[k].kind = "hits"
      BY <1>2, <1>6, <3>1, NowState, Posted
    <3>3. Once(files, u, idles', i) /\ AllFound(files, u, idles', i)
      BY <1>8, <1>10, <1>11, <1>12, <2>1, <3>2, NowState, Sent
    <3> QED BY <3>2, <3>3 DEF Hinted
  <2>2. CASE ~full
    <3>1. idles' = idles /\ u.found = v.found
      BY <1>1, <1>8, <2>2
    <3>2. Once(files, u, idles, i) /\ AllFound(files, u, idles, i)
      BY <1>8, <1>10, <1>11, <1>12, <3>1 DEF Once, AllFound, Reads
    <3> QED BY <3>1, <3>2, NowState, Same
  <2> QED BY <2>1, <2>2
<1> QED BY <1>1, <1>4, <1>8, <1>12, <1>13, StepBase DEF HeedsSearch, t

LEMMA VisitDirectoryInv ==
  ASSUME Inv(Now, idles), NEW i \in DOMAIN thread, VisitDirectory(i)
  PROVE  Inv(Now, idles)'
<1> DEFINE t == thread[i]
           u == [t EXCEPT !.rest = Content[Head(t.dirs)], !.dirs = Tail(@)]
<1>1. /\ t.step = "search" /\ t.rest = << >> /\ t.dirs # << >> /\ ~t.cancelled
      /\ UNCHANGED << directory, listing, call >>
      /\ thread' = [thread EXCEPT ![i] = u] /\ idles' = idles
  BY DEF VisitDirectory
<1>2. /\ t \in Searches
      /\ Walks(t) /\ Once(files, t, idles, i) /\ AllFound(files, t, idles, i)
  BY <1>1, Steps DEF HeedsSearch
<1> HIDE DEF t
<1>3. t.dirs \in Seq(Directories)
  BY <1>2 DEF Searches
<1>4. Head(t.dirs) \in Directories /\ Tail(t.dirs) \in Seq(Directories)
  BY <1>1, <1>3, OfTail
<1>5. /\ u \in Searches /\ u.rest = Content[Head(t.dirs)] /\ u.dirs = Tail(t.dirs)
      /\ u.visited = t.visited /\ u.step = t.step /\ u.query = t.query
      /\ u.cancelled = t.cancelled /\ u.found = t.found
  BY <1>2, <1>4, ContentFiles DEF Searches
<1> HIDE DEF u
<1>6. Walks(u) /\ HasRead(u) = HasRead(t)
  BY <1>1, <1>2, <1>5, OpenWalk
<1>7. Once(files, u, idles, i) /\ AllFound(files, u, idles, i)
  BY <1>2, <1>5, <1>6 DEF Once, AllFound, Reads
<1>8. Longer(idles, idles', i) /\ Hinted(idles, idles', u)
  BY <1>1, NowState, Same
<1> QED BY <1>1, <1>5, <1>6, <1>7, <1>8, StepBase DEF HeedsSearch, t

LEMMA SearchEndsInv ==
  ASSUME Inv(Now, idles), NEW i \in DOMAIN thread, SearchEnds(i)
  PROVE  Inv(Now, idles)'
<1> DEFINE t == thread[i]
           u == [t EXCEPT !.rest = << >>, !.found = NoFiles, !.processed = 0, !.step = "over"]
<1>1. /\ t.step = "search"
      /\ t.cancelled \/ (t.rest = << >> /\ t.dirs = << >>)
      /\ UNCHANGED << directory, listing, call >>
      /\ thread' = [thread EXCEPT ![i] = u]
      /\ idles' = idles \o Batch(i, t.found) \o DoneReport(i)
  BY DEF SearchEnds
<1>2. t.step = "search"
  BY DEF SearchEnds
<1>3. /\ t \in Searches /\ i \in Nat /\ t.cancelled \in BOOLEAN
      /\ t.cancelled => directory.active # i
      /\ ~t.cancelled => HeedsSearch(files, t, idles, i)
  BY <1>2, Steps
<1> HIDE DEF t
<1>4. /\ u \in Searches /\ u.rest = << >> /\ u.dirs = t.dirs
      /\ u.visited = t.visited /\ u.step = "over" /\ u.query = t.query
      /\ u.cancelled = t.cancelled /\ u.found = NoFiles
  <2>1. NoFiles \in Lists /\ << >> \in Seq(Files) /\ 0 \in Nat
    BY DEF Lists, NoFiles
  <2>2. u \in Searches
    BY <1>3, <2>1 DEF Searches
  <2> QED BY <1>3, <2>2 DEF Searches
<1> HIDE DEF u
<1>5. t.found \in Lists
  BY <1>3 DEF Searches
<1>6. /\ Longer(idles, idles', i) /\ Tells(idles, idles', t.found)
      /\ Hinted(idles, idles', u)
  <2>1. LET p == idles \o Batch(i, t.found) \o DoneReport(i) IN
        /\ Longer(idles, p, i) /\ Tells(idles, p, t.found)
        /\ \A t2 : t2.step = "over" => Hinted(idles, p, t2)
    BY <1>3, <1>5, NowState, PostedLast
  <2> QED BY <1>1, <1>4, <2>1
<1>7. directory.active = i => HeedsSearch(files, u, idles', i)
  <2> SUFFICES ASSUME directory.active = i PROVE HeedsSearch(files, u, idles', i)
    OBVIOUS
  <2>1. /\ t.rest = << >> /\ t.dirs = << >>
        /\ Walks(t) /\ Once(files, t, idles, i) /\ AllFound(files, t, idles, i)
    BY <1>1, <1>3 DEF HeedsSearch, SearchEnds, t
  <2>2. HasRead(u) = HasRead(t)
    BY <1>4, <2>1 DEF HasRead, Entered
  <2>3. Walks(u)
    BY <1>4, <2>1, <2>2 DEF Walks, Entered
  <2>4. Once(files, u, idles', i) /\ AllFound(files, u, idles', i)
    BY <1>3, <1>4, <1>6, <2>1, <2>2, NowState, Sent
  <2> QED BY <2>3, <2>4 DEF HeedsSearch
<1> QED BY <1>1, <1>2, <1>4, <1>6, <1>7, StepBase DEF t

(***************************************************************************)
(* The main loop: the first report is taken.                               *)
(***************************************************************************)
LEMMA Taken ==
  ASSUME NEW q \in Queues, q # << >>
  PROVE  /\ Tail(q) \in Queues /\ Head(q) = q[1] /\ 1 \in DOMAIN q
         /\ \A k \in DOMAIN Tail(q) : /\ k \in Nat /\ k + 1 \in DOMAIN q /\ k + 1 > 1
                                      /\ Tail(q)[k] = q[k + 1]
         /\ \A k \in DOMAIN q : k = 1 \/ (k - 1 \in DOMAIN Tail(q) /\ Tail(q)[k - 1] = q[k])
<1> DEFINE Report == [kind : {"hits", "done"}, search : Nat, uris : Lists]
<1>1. q \in Seq(Report)
  BY DEF Queues
<1> HIDE DEF Report
<1>2. /\ Tail(q) \in Seq(Report) /\ Head(q) = q[1] /\ Len(Tail(q)) = Len(q) - 1
      /\ \A k \in 1 .. Len(q) - 1 : Tail(q)[k] = q[k + 1]
      /\ Len(q) \in Nat /\ Len(q) >= 1
  BY <1>1, HeadTailProperties, EmptySeq
<1>3. DOMAIN q = 1 .. Len(q) /\ DOMAIN Tail(q) = 1 .. Len(q) - 1
  BY <1>1, <1>2, LenProperties
<1>4. \A k \in DOMAIN Tail(q) : /\ k \in Nat /\ k + 1 \in DOMAIN q /\ k + 1 > 1
                                /\ Tail(q)[k] = q[k + 1]
  BY <1>2, <1>3
<1>5. ASSUME NEW k \in DOMAIN q, k # 1
      PROVE  k - 1 \in DOMAIN Tail(q) /\ Tail(q)[k - 1] = q[k]
  <2>1. k \in Nat /\ k - 1 \in 1 .. Len(q) - 1 /\ (k - 1) + 1 = k
    BY <1>2, <1>3, <1>5
  <2> QED BY <1>2, <1>3, <2>1
<1>6. 1 \in DOMAIN q
  BY <1>2, <1>3
<1> QED BY <1>2, <1>4, <1>5, <1>6 DEF Queues, Report

LEMMA TakenReporting ==
  ASSUME NEW s, NEW q \in Queues, q # << >>, Reporting(s, q)
  PROVE  /\ Reporting(s, Tail(q))
         /\ q[1].kind = "done" => \A k \in DOMAIN Tail(q) : Tail(q)[k].search # q[1].search
<1> DEFINE p == Tail(q)
<1>1. /\ 1 \in DOMAIN q
      /\ \A k \in DOMAIN p : k \in Nat /\ k + 1 \in DOMAIN q /\ k + 1 > 1 /\ p[k] = q[k + 1]
  BY Taken
<1> HIDE DEF p
<1>2. \A k \in DOMAIN p :
        /\ p[k].search \in DOMAIN s.thread
        /\ s.thread[p[k].search].step # "freed"
        /\ p[k].kind = "done" => s.thread[p[k].search].step = "over" /\ p[k].uris = NoFiles
  BY <1>1 DEF Reporting
<1>3. ASSUME NEW j \in DOMAIN p, NEW k \in DOMAIN p, j < k, p[j].search = p[k].search
      PROVE  p[j].kind = "hits"
  <2>1. j + 1 < k + 1
    BY <1>1, <1>3
  <2> QED BY <1>1, <1>3, <2>1 DEF Reporting
<1>4. ASSUME q[1].kind = "done", NEW k \in DOMAIN p
      PROVE  p[k].search # q[1].search
  <2>1. 1 < k + 1
    BY <1>1
  <2> QED BY <1>1, <1>4, <2>1 DEF Reporting
<1> QED BY <1>2, <1>3, <1>4 DEF Reporting, p

\* A report of another search is of no concern to this one.
LEMMA TakenOther ==
  ASSUME NEW list, NEW t, NEW i, NEW q \in Queues, q # << >>, q[1].search # i,
         HeedsSearch(list, t, q, i)
  PROVE  HeedsSearch(list, t, Tail(q), i)
<1> DEFINE p == Tail(q)
<1>1. /\ \A k \in DOMAIN p : k \in Nat /\ k + 1 \in DOMAIN q /\ k + 1 > 1 /\ p[k] = q[k + 1]
      /\ \A k \in DOMAIN q : k = 1 \/ (k - 1 \in DOMAIN p /\ p[k - 1] = q[k])
  BY Taken
<1> HIDE DEF p
<1>2. Once(list, t, p, i)
  <2>1. \A k \in DOMAIN p : p[k].search = i =>
          Reads(t, p[k].uris) /\ Apart(list, p[k].uris) /\ Apart(t.found, p[k].uris)
    BY <1>1 DEF HeedsSearch, Once
  <2>2. ASSUME NEW j \in DOMAIN p, NEW k \in DOMAIN p, j # k, p[j].search = i, p[k].search = i
        PROVE  Apart(p[j].uris, p[k].uris)
    <3>1. j + 1 # k + 1
      BY <1>1, <2>2
    <3> QED BY <1>1, <2>2, <3>1 DEF HeedsSearch, Once
  <2> QED BY <2>1, <2>2 DEF HeedsSearch, Once
<1>3. AllFound(list, t, p, i)
  BY <1>1 DEF HeedsSearch, AllFound
<1> QED BY <1>2, <1>3 DEF HeedsSearch, p

\* What it reports of this one is listed now.
More(list, uris) == [f \in Files |-> list[f] + (IF f \in SavedSearches THEN 0 ELSE uris[f])]

LEMMA TakenOwn ==
  ASSUME NEW list \in Lists, NEW t, NEW i, NEW q \in Queues, q # << >>, q[1].search = i,
         HeedsSearch(list, t, q, i)
  PROVE  HeedsSearch(More(list, q[1].uris), t, Tail(q), i)
<1> DEFINE p == Tail(q)
           uris == q[1].uris
           more == More(list, uris)
<1>1. /\ 1 \in DOMAIN q
      /\ \A k \in DOMAIN p : k \in Nat /\ k + 1 \in DOMAIN q /\ k + 1 > 1 /\ p[k] = q[k + 1]
      /\ \A k \in DOMAIN q : k = 1 \/ (k - 1 \in DOMAIN p /\ p[k - 1] = q[k])
  BY Taken
<1> HIDE DEF p
<1>2. uris \in Lists
  BY <1>1, ReportType
<1>3. /\ Reads(t, list) /\ Reads(t, t.found) /\ Apart(list, t.found)
      /\ Reads(t, uris) /\ Apart(list, uris) /\ Apart(t.found, uris)
  BY <1>1 DEF HeedsSearch, Once
<1>4. \A f \in Files : /\ more[f] = 0 \/ more[f] = list[f] \/ more[f] = uris[f]
                       /\ list[f] > 0 => more[f] > 0
                       /\ uris[f] > 0 /\ f \notin SavedSearches => more[f] > 0
  <2> HIDE DEF uris
  <2>1. \A f \in Files : list[f] \in Nat /\ uris[f] \in Nat /\ (list[f] = 0 \/ uris[f] = 0)
    BY <1>2, <1>3 DEF Lists, Apart
  <2> QED BY <2>1 DEF More
<1> HIDE DEF more
<1>5. \A other : Apart(list, other) /\ Apart(uris, other) => Apart(more, other)
  BY <1>4 DEF Apart
<1>6. Reads(t, more)
  <2> HIDE DEF uris
  <2> QED BY <1>3, <1>4 DEF Reads
<1>7. Apart(uris, t.found)
  BY <1>3 DEF Apart
<1>8. ASSUME NEW k \in DOMAIN p, p[k].search = i
      PROVE  /\ Reads(t, p[k].uris) /\ Apart(more, p[k].uris) /\ Apart(t.found, p[k].uris)
  <2>1. k + 1 \in DOMAIN q /\ k + 1 # 1 /\ q[k + 1] = p[k]
    BY <1>1
  <2>2. /\ Reads(t, p[k].uris) /\ Apart(list, p[k].uris) /\ Apart(t.found, p[k].uris)
        /\ Apart(uris, p[k].uris)
    BY <1>1, <1>8, <2>1 DEF HeedsSearch, Once
  <2> QED BY <1>5, <2>2
<1>9. ASSUME NEW j \in DOMAIN p, NEW k \in DOMAIN p, j # k, p[j].search = i, p[k].search = i
      PROVE  Apart(p[j].uris, p[k].uris)
  <2>1. j + 1 # k + 1
    BY <1>1, <1>9
  <2> QED BY <1>1, <1>9, <2>1 DEF HeedsSearch, Once
<1>10. Once(more, t, p, i)
  BY <1>3, <1>5, <1>6, <1>7, <1>8, <1>9 DEF Once
<1>11. AllFound(more, t, p, i)
  <2> SUFFICES ASSUME NEW f \in (HasRead(t) \cap Matches[t.query]) \ SavedSearches
               PROVE  \/ more[f] > 0 \/ t.found[f] > 0
                      \/ \E k \in DOMAIN p : p[k].search = i /\ p[k].uris[f] > 0
    BY DEF AllFound
  <2>1. f \in Files
    BY DEF HasRead
  <2>2. CASE list[f] > 0 \/ t.found[f] > 0
    BY <1>4, <2>1, <2>2
  <2>3. CASE \E k \in DOMAIN q : q[k].search = i /\ q[k].uris[f] > 0
    <3>1. PICK k \in DOMAIN q : q[k].search = i /\ q[k].uris[f] > 0
      BY <2>3
    <3>2. CASE k = 1
      BY <1>4, <2>1, <3>1, <3>2
    <3>3. CASE k # 1
      BY <1>1, <3>1, <3>3
    <3> QED BY <3>2, <3>3
  <2> QED BY <2>2, <2>3 DEF HeedsSearch, AllFound
<1> QED BY <1>10, <1>11 DEF HeedsSearch, p, more

\* What a search has found of its query is a hit.
LEMMA ReadHits ==
  ASSUME NEW t \in Searches, Walks(t), NEW f \in HasRead(t) \cap Matches[t.query],
         f \notin SavedSearches
  PROVE  f \in Hits(t.query)
BY DEF Walks, HasRead, Entered, Hits

LEMMA HitsAddedInv ==
  ASSUME Inv(Now, idles), HitsAdded
  PROVE  Inv(Now, idles)'
<1> DEFINE i == idles[1].search
           more == More(files, idles[1].uris)
<1>1. /\ idles # << >> /\ idles' = Tail(idles)
      /\ UNCHANGED << directory, call, thread >>
  BY DEF HitsAdded
<1>2. /\ Tail(idles) \in Queues /\ Head(idles) = idles[1] /\ 1 \in DOMAIN idles
  BY <1>1, NowState, Taken
<1>3. Watched(Now) /\ Underway(Now) /\ Reporting(Now, idles) /\ Results(Now) /\ Heeded(Now, idles)
  BY DEF Inv, Base
<1>4. Reporting(Now, Tail(idles))
  BY <1>1, <1>3, NowState, TakenReporting
<1>5. i \in DOMAIN thread /\ thread[i].step # "freed"
  BY <1>2, <1>3, NowState DEF Reporting
<1>6. thread \in Seq(Searches) /\ i \in 1 .. Len(thread) /\ DOMAIN thread = 1 .. Len(thread)
  BY <1>5, NowState, LenProperties
<1>7. thread[i] \in Searches
  BY <1>6, ElementOfSeq
<1>8. CASE thread[i].cancelled
  <2>1. UNCHANGED listing
    BY <1>2, <1>8 DEF HitsAdded
  <2>2. Now' = Now
    BY <1>1, <2>1 DEF Now, listing
  <2>3. directory.active # 0 => directory.active # i
    BY <1>3, <1>8, NowState DEF Underway
  <2>4. Heeded(Now, Tail(idles))
    BY <1>1, <1>3, <2>3, NowState, TakenOther DEF Heeded
  <2>5. Inv(Now, Tail(idles))
    BY <1>2, <1>3, <1>4, <2>4 DEF Inv, Base
  <2> QED BY <1>1, <2>2, <2>5
<1>9. CASE ~thread[i].cancelled
  <2>1. directory.active = i /\ i # 0 /\ ~directory.finished
    BY <1>3, <1>5, <1>6, <1>9, NowState DEF Underway
  <2>2. /\ files' = [f \in Files |-> files[f] +
                       [g \in Files |-> IF g \in SavedSearches THEN 0 ELSE idles[1].uris[g]][f]]
        /\ watch' = [f \in Files |->
                       IF f \in Listed([g \in Files |-> IF g \in SavedSearches THEN 0
                                                        ELSE idles[1].uris[g]])
                       THEN watch[f] \cup directory.monitors ELSE watch[f]]
        /\ handlers' = [f \in Files |-> handlers[f] +
                       [g \in Files |-> IF g \in SavedSearches THEN 0 ELSE idles[1].uris[g]][f]]
    BY <1>2, <1>9 DEF HitsAdded
  <2>3. idles[1].uris \in Lists
    BY <1>2, NowState, ReportType
  <2> HIDE DEF i
  <2>4. /\ files' = more
        /\ handlers' = [f \in Files |->
                          handlers[f] + (IF f \in SavedSearches THEN 0 ELSE idles[1].uris[f])]
        /\ watch' = [f \in Files |-> IF f \notin SavedSearches /\ idles[1].uris[f] > 0
                                     THEN watch[f] \cup directory.monitors ELSE watch[f]]
    BY <2>2 DEF More, Listed
  <2>5. \A f \in Files : files[f] \in Nat /\ idles[1].uris[f] \in Nat /\ handlers[f] \in Nat
    BY <2>3, NowState DEF Lists
  <2>6. \A f \in Files : more[f] = files[f] + (IF f \in SavedSearches THEN 0 ELSE idles[1].uris[f])
    BY DEF More
  <2>7. /\ more \in Lists /\ handlers' \in Lists /\ watch' \in [Files -> SUBSET Clients]
    <3>1. directory.monitors \subseteq Clients /\ \A f \in Files : watch[f] \subseteq Clients
      BY NowState DEF Fields
    <3>2. more \in Lists
      BY <2>5 DEF More, Lists
    <3> QED BY <2>4, <2>5, <3>1, <3>2 DEF Lists
  <2> HIDE DEF more
  <2> DEFINE s == [directory |-> directory, files |-> more, watch |-> watch',
                   handlers |-> handlers', call |-> call, thread |-> thread]
  <2>8. /\ s \in States /\ s.directory = directory /\ s.files = more /\ s.watch = watch'
        /\ s.handlers = handlers' /\ s.call = call /\ s.thread = thread
    BY <2>7, NowState DEF States
  <2>9. Now' = s
    BY <1>1, <2>4 DEF Now
  <2> HIDE DEF s
  <2>10. Watched(s)
    <3>1. \A f \in Files : watch[f] = (IF files[f] > 0 THEN directory.monitors ELSE {})
                           /\ handlers[f] = files[f]
      BY <1>3, NowState DEF Watched
    <3>2. \A f \in Files : handlers'[f] = more[f]
      BY <2>4, <2>6, <3>1
    <3>3. \A f \in Files : watch'[f] = IF more[f] > 0 THEN directory.monitors ELSE {}
      <4> SUFFICES ASSUME NEW f \in Files
                   PROVE  watch'[f] = IF more[f] > 0 THEN directory.monitors ELSE {}
        OBVIOUS
      <4>1. /\ watch'[f] = IF f \notin SavedSearches /\ idles[1].uris[f] > 0
                           THEN watch[f] \cup directory.monitors ELSE watch[f]
            /\ more[f] = files[f] + (IF f \in SavedSearches THEN 0 ELSE idles[1].uris[f])
            /\ files[f] \in Nat /\ idles[1].uris[f] \in Nat
        BY <2>4, <2>5, <2>6
      <4>2. watch[f] = IF files[f] > 0 THEN directory.monitors ELSE {}
        BY <3>1
      <4>3. CASE f \notin SavedSearches /\ idles[1].uris[f] > 0
        <5>1. more[f] > 0
          BY <4>1, <4>3
        <5> QED BY <4>1, <4>2, <4>3, <5>1
      <4>4. CASE ~(f \notin SavedSearches /\ idles[1].uris[f] > 0)
        <5>1. more[f] = files[f]
          BY <4>1, <4>4
        <5> QED BY <4>1, <4>2, <4>4, <5>1
      <4> QED BY <4>3, <4>4
    <3> QED BY <2>8, <3>2, <3>3 DEF Watched
  <2>11. Underway(s) /\ Reporting(s, Tail(idles))
    BY <1>3, <1>4, <2>8, NowState DEF Underway, Reporting
  <2>12. /\ thread[i].query = directory.engineQuery
         /\ HeedsSearch(more, thread[i], Tail(idles), i)
    <3>1. thread[i].query = directory.engineQuery /\ HeedsSearch(files, thread[i], idles, i)
      BY <1>3, <2>1, NowState DEF Heeded
    <3>2. HeedsSearch(more, thread[i], Tail(idles), i)
      BY <1>1, <3>1, NowState, TakenOwn DEF i, more
    <3> QED BY <3>1, <3>2
  <2>13. Heeded(s, Tail(idles))
    BY <2>1, <2>8, <2>12 DEF Heeded
  <2>14. Results(s)
    <3>1. Reads(thread[i], more) /\ Walks(thread[i])
      BY <2>12 DEF HeedsSearch, Once
    <3>2. \A f \in Files : more[f] <= 1
      BY <3>1 DEF Reads
    <3>3. ASSUME NEW f \in Listed(more)
          PROVE  f \in Hits(directory.engineQuery)
      <4>1. f \in Files /\ more[f] > 0
        BY DEF Listed
      <4>2. f \in HasRead(thread[i]) \cap Matches[thread[i].query]
        BY <3>1, <4>1 DEF Reads
      <4>3. CASE f \in SavedSearches
        <5>1. files[f] > 0
          BY <2>5, <2>6, <4>1, <4>3
        <5> QED BY <1>3, <4>1, <5>1, NowState DEF Results, Listed
      <4>4. CASE f \notin SavedSearches
        BY <1>7, <2>12, <3>1, <4>2, <4>4, ReadHits
      <4> QED BY <4>3, <4>4
    <3> QED BY <2>1, <2>8, <3>2, <3>3 DEF Results
  <2>15. Inv(s, Tail(idles))
    BY <1>2, <2>8, <2>10, <2>11, <2>13, <2>14 DEF Inv, Base
  <2> QED BY <1>1, <2>9, <2>15
<1> QED BY <1>8, <1>9

\* The last report of a search frees it.
LEMMA FreedState ==
  ASSUME NEW s \in States, NEW q \in Queues, q # << >>, Reporting(s, q), q[1].kind = "done"
  PROVE  LET i == q[1].search
             e == [s EXCEPT !.thread[i] = Freed(@)] IN
         /\ e \in States /\ Reporting(e, Tail(q))
         /\ e.directory = s.directory /\ e.files = s.files /\ e.watch = s.watch
         /\ e.handlers = s.handlers /\ e.call = s.call
         /\ DOMAIN e.thread = DOMAIN s.thread /\ Len(e.thread) = Len(s.thread)
         /\ i \in DOMAIN e.thread /\ e.thread[i].step = "freed"
         /\ \A j \in DOMAIN e.thread : j # i => e.thread[j] = s.thread[j]
<1> DEFINE i == q[1].search
           e == [s EXCEPT !.thread[i] = Freed(@)]
           t == Freed(s.thread[i])
           th == [s.thread EXCEPT ![i] = t]
<1> SUFFICES /\ e \in States /\ Reporting(e, Tail(q))
             /\ e.directory = s.directory /\ e.files = s.files /\ e.watch = s.watch
             /\ e.handlers = s.handlers /\ e.call = s.call
             /\ DOMAIN e.thread = DOMAIN s.thread /\ Len(e.thread) = Len(s.thread)
             /\ i \in DOMAIN e.thread /\ e.thread[i].step = "freed"
             /\ \A j \in DOMAIN e.thread : j # i => e.thread[j] = s.thread[j]
  OBVIOUS
<1>1. s.thread \in Seq(Searches) /\ i \in DOMAIN s.thread
  BY Taken DEF States, Reporting
<1>2. i \in 1 .. Len(s.thread) /\ s.thread[i] \in Searches
  BY <1>1, ElementOfSeq, LenProperties
<1>3. /\ Reporting(s, Tail(q))
      /\ \A k \in DOMAIN Tail(q) : Tail(q)[k].search # i
  BY TakenReporting
<1>4. t \in Searches /\ t.step = "freed"
  <2> DEFINE u == s.thread[i]
  <2> HIDE DEF u
  <2>1. << >> \in Seq(Directories)
    OBVIOUS
  <2>2. u \in Searches
    BY <1>2 DEF u
  <2>3. Freed(u) \in Searches /\ Freed(u).step = "freed"
    BY <2>1, <2>2 DEF Freed, Searches
  <2> QED BY <2>3 DEF u
<1>5. e = [s EXCEPT !.thread = th]
  OBVIOUS
<1> HIDE DEF i, t
<1>6. /\ th \in Seq(Searches) /\ Len(th) = Len(s.thread) /\ DOMAIN th = DOMAIN s.thread
      /\ \A j \in DOMAIN th : th[j] = IF j = i THEN t ELSE s.thread[j]
  BY <1>1, <1>2, <1>4, ExceptSeq, LenProperties
<1> HIDE DEF th
<1>7. /\ e \in States /\ e.directory = s.directory /\ e.files = s.files /\ e.watch = s.watch
      /\ e.handlers = s.handlers /\ e.call = s.call /\ e.thread = th
  BY <1>5, <1>6 DEF States
<1> HIDE DEF e
<1>8. Reporting(e, Tail(q))
  BY <1>3, <1>6, <1>7 DEF Reporting
<1> QED BY <1>1, <1>4, <1>6, <1>7, <1>8

LEMMA SearchDoneInv ==
  ASSUME Inv(Now, idles), SearchDone
  PROVE  Inv(Now, idles)'
<1> DEFINE i == idles[1].search
           told == IF thread[i].cancelled THEN Now
                   ELSE [SearchFinished(Now) EXCEPT !.directory.active = 0]
           e == [told EXCEPT !.thread[i] = Freed(@)]
<1>1. /\ idles # << >> /\ idles' = Tail(idles)
  BY DEF SearchDone
<1>2. /\ Tail(idles) \in Queues /\ Head(idles) = idles[1] /\ 1 \in DOMAIN idles
  BY <1>1, NowState, Taken
<1>3. idles[1].kind = "done" /\ Becomes(e)
  BY <1>2 DEF SearchDone
<1>4. Watched(Now) /\ Underway(Now) /\ Reporting(Now, idles) /\ Results(Now) /\ Heeded(Now, idles)
  BY DEF Inv, Base
<1>5. /\ i \in DOMAIN thread /\ thread[i].step = "over" /\ idles[1].uris = NoFiles
  BY <1>2, <1>3, <1>4, NowState DEF Reporting
<1>6. thread \in Seq(Searches) /\ i \in 1 .. Len(thread) /\ DOMAIN thread = 1 .. Len(thread)
  BY <1>5, NowState, LenProperties
<1>7. thread[i] \in Searches
  BY <1>6, ElementOfSeq
<1>8. \A k \in DOMAIN Tail(idles) : Tail(idles)[k].search # i
  BY <1>1, <1>3, <1>4, NowState, TakenReporting
<1>9. ASSUME told \in States, told.thread = thread, Watched(told)
      PROVE  /\ Base(e, Tail(idles)) <=> Underway(e)
             /\ e.directory = told.directory /\ e.files = told.files
             /\ DOMAIN e.thread = DOMAIN thread /\ Len(e.thread) = Len(thread)
             /\ e.thread[i].step = "freed"
             /\ \A j \in DOMAIN thread : j # i => e.thread[j] = thread[j]
  <2> HIDE DEF told
  <2>1. Reporting(told, idles)
    BY <1>4, <1>9, NowState DEF Reporting
  <2>2. /\ e \in States /\ Reporting(e, Tail(idles))
        /\ e.directory = told.directory /\ e.files = told.files /\ e.watch = told.watch
        /\ e.handlers = told.handlers /\ e.call = told.call
        /\ DOMAIN e.thread = DOMAIN told.thread /\ Len(e.thread) = Len(told.thread)
        /\ i \in DOMAIN e.thread /\ e.thread[i].step = "freed"
        /\ \A j \in DOMAIN e.thread : j # i => e.thread[j] = told.thread[j]
    <3> HIDE DEF e
    <3>1. LET o == [told EXCEPT !.thread[idles[1].search] = Freed(@)] IN
          /\ o \in States /\ Reporting(o, Tail(idles))
          /\ o.directory = told.directory /\ o.files = told.files /\ o.watch = told.watch
          /\ o.handlers = told.handlers /\ o.call = told.call
          /\ DOMAIN o.thread = DOMAIN told.thread /\ Len(o.thread) = Len(told.thread)
          /\ idles[1].search \in DOMAIN o.thread /\ o.thread[idles[1].search].step = "freed"
          /\ \A j \in DOMAIN o.thread : j # idles[1].search => o.thread[j] = told.thread[j]
      BY <1>1, <1>3, <1>9, <2>1, NowState, FreedState
    <3> QED BY <3>1 DEF e
  <2> HIDE DEF e, i
  <2>3. Watched(e)
    BY <1>9, <2>2 DEF Watched
  <2> QED BY <1>2, <1>9, <2>2, <2>3 DEF Base
<1>10. CASE thread[i].cancelled
  <2>1. told = Now
    BY <1>10
  <2> HIDE DEF told
  <2>2. /\ Base(e, Tail(idles)) <=> Underway(e)
        /\ e.directory = directory /\ e.files = files
        /\ DOMAIN e.thread = DOMAIN thread /\ Len(e.thread) = Len(thread)
        /\ e.thread[i].step = "freed"
        /\ \A j \in DOMAIN thread : j # i => e.thread[j] = thread[j]
    BY <1>4, <1>9, <2>1, NowState
  <2> HIDE DEF e
  <2>3. directory.active # 0 => directory.active # i /\ directory.active \in DOMAIN thread
    BY <1>4, <1>6, <1>10, NowState DEF Underway
  <2>4. Underway(e)
    BY <1>4, <1>6, <2>2, <2>3, NowState DEF Underway
  <2>5. Heeded(e, Tail(idles))
    BY <1>1, <1>4, <2>2, <2>3, NowState, TakenOther DEF Heeded
  <2>6. Results(e)
    BY <1>4, <2>2, NowState DEF Results
  <2>7. Inv(e, Tail(idles))
    BY <2>2, <2>4, <2>5, <2>6 DEF Inv
  <2> QED BY <1>1, <1>3, <2>7, BecomesInv
<1>11. CASE ~thread[i].cancelled
  <2>1. directory.active = i /\ i # 0
    BY <1>4, <1>5, <1>6, <1>11, NowState DEF Underway
  <2> DEFINE d == [directory EXCEPT !.finished = TRUE, !.active = 0]
             c == [k \in Calls |-> IF call[k].state = "pending"
                                   THEN [state |-> "files", left |-> Listed(files)] ELSE call[k]]
  <2>2. told = [Now EXCEPT !.directory = d, !.call = c]
    BY <1>11, NowState DEF SearchFinished, States, Fields
  <2> HIDE DEF told
  <2>3. d \in Fields /\ c \in [Calls -> Answers]
    <3>1. [state |-> "files", left |-> Listed(files)] \in Answers
      BY DEF Answers, Listed
    <3>2. d \in Fields
      BY NowState DEF Fields
    <3> QED BY <3>1, <3>2, NowState
  <2>4. /\ d.alive = directory.alive /\ d.running = directory.running /\ d.engine = directory.engine
        /\ d.engineQuery = directory.engineQuery /\ d.monitors = directory.monitors
        /\ d.active = 0
    BY NowState DEF Fields
  <2> HIDE DEF d, c
  <2>5. /\ told \in States /\ told.directory = d /\ told.files = files /\ told.watch = watch
        /\ told.handlers = handlers /\ told.thread = thread
    BY <2>2, <2>3, NowState DEF States
  <2>6. Watched(told)
    BY <1>4, <2>4, <2>5, NowState DEF Watched
  <2>7. /\ Base(e, Tail(idles)) <=> Underway(e)
        /\ e.directory = d /\ e.files = files
        /\ DOMAIN e.thread = DOMAIN thread /\ Len(e.thread) = Len(thread)
        /\ e.thread[i].step = "freed"
        /\ \A j \in DOMAIN thread : j # i => e.thread[j] = thread[j]
    BY <1>9, <2>5, <2>6
  <2> HIDE DEF e
  <2>8. Underway(e)
    BY <1>4, <1>6, <2>1, <2>4, <2>7, NowState, SMTT(30) DEF Underway
  <2>9. Heeded(e, Tail(idles))
    BY <2>4, <2>7 DEF Heeded
  <2>10. ASSUME NEW f \in Hits(directory.engineQuery)
         PROVE  f \in Listed(files)
    <3>1. /\ thread[i].query = directory.engineQuery
          /\ Walks(thread[i]) /\ AllFound(files, thread[i], idles, i)
      BY <1>4, <2>1, NowState DEF Heeded, HeedsSearch
    <3>2. thread[i].rest = << >> /\ thread[i].dirs = << >> /\ thread[i].found = NoFiles
      BY <1>5, <3>1 DEF Walks
    <3>3. f \in Files
      BY <1>7, <3>1, QueryAssumption DEF Hits, Searches
    <3>4. f \in HasRead(thread[i])
      BY <1>7, <3>1, <3>2, <3>3, OverWalk DEF Hits
    <3>5. files[f] > 0 \/ thread[i].found[f] > 0
          \/ \E k \in DOMAIN idles : idles[k].search = i /\ idles[k].uris[f] > 0
      BY <3>1, <3>4 DEF AllFound, Hits
    <3>6. \A k \in DOMAIN idles : idles[k].search = i => k = 1
      BY <1>1, <1>8, NowState, Taken, SMTT(30)
    <3>7. NoFiles[f] = 0
      BY <3>3 DEF NoFiles
    <3> QED BY <1>5, <3>2, <3>3, <3>5, <3>6, <3>7 DEF Listed
  <2>11. Results(e)
    <3>1. Listed(files) \subseteq Hits(directory.engineQuery) /\ \A f \in Files : files[f] <= 1
      BY <1>4, NowState DEF Results
    <3>2. Listed(files) = Hits(directory.engineQuery)
      BY <2>10, <3>1
    <3>3. e.files = files /\ e.directory.engineQuery = directory.engineQuery
      BY <2>4, <2>7
    <3> QED BY <3>1, <3>2, <3>3 DEF Results
  <2>12. Inv(e, Tail(idles))
    BY <2>7, <2>8, <2>9, <2>11 DEF Inv
  <2> QED BY <1>1, <1>3, <2>12, BecomesInv
<1> QED BY <1>10, <1>11

-----------------------------------------------------------------------------
LEMMA NextInv == Inv(Now, idles) /\ [Next]_vars => Inv(Now, idles)'
<1> SUFFICES ASSUME Inv(Now, idles), [Next]_vars PROVE Inv(Now, idles)'
  OBVIOUS
<1>1. CASE \E q \in Queries : SetQuery(q)
  BY <1>1, SetQueryInv
<1>2. CASE \E c \in Clients : MonitorAdd(c) \/ MonitorRemove(c)
  BY <1>2, MonitorAddInv, MonitorRemoveInv
<1>3. CASE \E k \in Calls : CancelCallback(k)
  BY <1>3, CancelCallbackInv
<1>4. CASE \E k \in Calls, wait \in BOOLEAN : CallWhenReady(k, wait)
  BY <1>4, CallWhenReadyInv
<1>5. CASE ForceReload
  BY <1>5, ForceReloadInv
<1>6. CASE Dispose
  BY <1>6, DisposeInv
<1>7. CASE \E i \in DOMAIN thread : Thread(i)
  BY <1>7, VisitNextInv, VisitDirectoryInv, SearchEndsInv DEF Thread
<1>8. CASE MainLoop
  BY <1>8, HitsAddedInv, SearchDoneInv DEF MainLoop
<1>9. CASE \E k \in Calls, f \in Files : FileReady(k, f)
  BY <1>9, FileReadyInv
<1>10. CASE UNCHANGED vars
  <2>1. Now' = Now /\ idles' = idles
    BY <1>10 DEF vars, Now, listing
  <2> QED BY <2>1
<1> QED BY <1>1, <1>2, <1>3, <1>4, <1>5, <1>6, <1>7, <1>8, <1>9, <1>10 DEF Next

\* The invariant holds: what is listed, what the searches have read and what is
\* on its way to the main loop belong together.
THEOREM SearchInvariant == Spec => []Inv(Now, idles)
BY InitInv, NextInv, PTL DEF Spec

\* Whatever way a search is stopped, reloaded or given up: a file is listed once,
\* and monitored and connected exactly when it is (reset_file_list,
\* search_engine_hits_added).
THEOREM WatchedFiles == Spec => []FilesAreWatched
<1>1. Inv(Now, idles) => FilesAreWatched
  BY WatchedNow, NowState DEF FilesAreWatched, Inv, Results
<1> QED BY <1>1, SearchInvariant, PTL

\* A report that is heeded comes from the search that is underway, and what it
\* uses is still there (search_thread_add_hits_idle, search_thread_done_idle).
THEOREM CurrentReports == Spec => []ReportsAreCurrent
<1>1. Inv(Now, idles) => ReportsAreCurrent
  <2> SUFFICES ASSUME Inv(Now, idles), idles # << >>
               PROVE  /\ thread[idles[1].search].step # "freed"
                      /\ ~thread[idles[1].search].cancelled =>
                           directory.alive /\ directory.active = idles[1].search
    BY NowState, Taken DEF ReportsAreCurrent
  <2>1. /\ idles[1].search \in DOMAIN thread /\ thread[idles[1].search].step # "freed"
    BY NowState, Taken DEF Inv, Base, Reporting
  <2>2. /\ DOMAIN thread = 1 .. Len(thread) /\ Len(thread) \in Nat /\ Underway(Now)
    BY NowState, LenProperties DEF Inv, Base
  <2> QED BY <2>1, <2>2, NowState DEF Underway
<1> QED BY <1>1, SearchInvariant, PTL

\* A finished search has listed every file it should find and nothing else,
\* however links lead in circles (visit_directory, search_engine_finished).
THEOREM CompleteResults == Spec => []ResultsAreComplete
<1>1. Inv(Now, idles) => ResultsAreComplete
  BY NowState DEF Inv, Results, ResultsAreComplete
<1> QED BY <1>1, SearchInvariant, PTL
=============================================================================
