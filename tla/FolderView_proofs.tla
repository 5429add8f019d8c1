--------------------------- MODULE FolderView_proofs ---------------------------
(***************************************************************************)
(* Whatever files there are and however notifications, loads, queries and  *)
(* displays overtake each other: no file is missed but by the exceptions   *)
(* that are named, none is listed that is not there but for those, nothing *)
(* is left waiting to be displayed, and what a view shows is the list.     *)
(***************************************************************************)
EXTENDS FolderView, FiniteSetTheorems, SequenceTheorems, TLAPS

-----------------------------------------------------------------------------
(***************************************************************************)
(* Types.                                                                  *)
(***************************************************************************)
Answers == {"none", "missing"} \cup Attributes

AnyRecord ==
  [gen : Nat, unconfirmed : BOOLEAN, lacks : {"info", "link", "nothing"}, answer : Answers,
   hidden : BOOLEAN, silent : BOOLEAN, toggled : BOOLEAN]

Known == {f \in AnyRecord : f.gen # 0}

Records == Known \cup {NoFile}

Objs == Names \X (Nat \ {0})

Infos == [Names -> {"none"} \cup Attributes]

Dirs ==
  [monitored : BOOLEAN, other : BOOLEAN, loaded : BOOLEAN, sent : BOOLEAN, load : BOOLEAN,
   unread : SUBSET Names, batch : Infos, pending : Infos, idle : BOOLEAN,
   queries : [Names -> Nat], answers : [Names -> [Attributes -> Nat]]]

Views ==
  [step : {"asked", "underway"}, loading : BOOLEAN, shown : SUBSET Objs, newAdded : SUBSET Objs,
   newChanged : SUBSET Objs, nonReady : SUBSET Objs, oldAdded : SUBSET Objs,
   oldChanged : SUBSET Objs, display : BOOLEAN, frozen : BOOLEAN, queued : Nat,
   needsReload : BOOLEAN]

Pasts == [stopped : BOOLEAN, failed : BOOLEAN, overtaken : SUBSET Names, late : SUBSET Names]

Events == [kind : {"added", "removed", "changed"}, name : Names]

Types ==
  /\ disk \in Infos
  /\ events \in Seq(Events)
  /\ dir \in Dirs
  /\ file \in [Names -> Records]
  /\ view \in Views /\ IsFiniteSet(Held(view))
  /\ past \in Pasts

(***************************************************************************)
(* The folder.                                                             *)
(***************************************************************************)
Posted(kind, n) == \E i \in DOMAIN events : events[i].kind = kind /\ events[i].name = n

\* A folder is read while it is monitored; what is to be read is there, and once it
\* has all been read nothing is unconfirmed.
Loading ==
  /\ dir.load \/ dir.loaded => dir.monitored
  /\ ~(dir.load /\ dir.loaded)
  /\ dir.unread \subseteq Present
  /\ dir.unread # {} => dir.load
  /\ \A n \in Names : dir.batch[n] # "none" => dir.load
  /\ dir.loaded => \A n \in Names : ~file[n].unconfirmed

\* The infos wait for the idle callback.
Waiting == \A n \in Names : dir.pending[n] # "none" => dir.idle

\* The removal of a file is notified, or it overtook what had been read of it.
Removed(n) == Posted("removed", n) \/ n \in past.overtaken

InfosAreOvertaken == \A n \in Names \ Present : Underway(n) => Removed(n)

\* A file that is gone and not yet known to be is notified, was overtaken, or
\* waits for the next load.
Ghosts ==
  \A n \in Listed(file) \ Present :
    \/ Removed(n)
    \/ (dir.loaded => past.failed) /\ (dir.load => file[n].unconfirmed)

\* Without other owners the list dies with the last monitor, a load does not read
\* all that it has found listed only if the rest is notified, and so is a file that
\* a query has not found.
Unowned ==
  /\ ~dir.monitored => Listed(file) = {}
  /\ \A n \in Listed(file) \ Present : Removed(n)
  /\ \A n \in Listed(file) : dir.load /\ file[n].unconfirmed =>
       n \in dir.unread \/ dir.batch[n] # "none" \/ dir.pending[n] # "none" \/ Removed(n)
  /\ \A n \in Listed(file) : file[n].answer = "missing" => Removed(n)

\* The notifications of a name.
InOrder ==
  /\ ~dir.monitored => \A i \in DOMAIN events : events[i].name \in past.late
  /\ \A n \in Present \ past.late : \A i \in DOMAIN events :
       events[i].kind = "removed" /\ events[i].name = n =>
         \E j \in DOMAIN events : i < j /\ events[j].kind = "added" /\ events[j].name = n

\* A file that is there is listed or on its way to be.
OnItsWay(n) ==
  \/ ~dir.load /\ ~dir.loaded
  \/ Posted("added", n) \/ dir.queries[n] > 0 \/ n \in dir.unread \/ Underway(n)
  \/ n \in Listed(file)

Missed ==
  ~(past.failed /\ dir.loaded) =>
    \A n \in Present \ (past.late \cup past.overtaken) : OnItsWay(n)

FolderInv ==
  /\ Loading /\ InfosAreOvertaken /\ Ghosts
  /\ "kept" \notin Uses => Unowned /\ InOrder /\ Missed

(***************************************************************************)
(* The view.                                                               *)
(***************************************************************************)
New(v) == v.newAdded \cup v.newChanged
Old(v) == v.oldAdded \cup v.oldChanged

\* A view that has not begun to monitor holds nothing; what is added is not yet
\* displayed.
Orderly(v) ==
  /\ v.step = "asked" => Held(v) = {}
  /\ v.needsReload => v.frozen
  /\ (v.newAdded \cup v.nonReady) \cap (v.oldAdded \cup v.shown) = {}

\* A display is scheduled when one is due.
Scheduled(v, loaded) ==
  v.step = "underway" /\ ~v.frozen =>
    /\ loaded /\ New(v) # {} => v.display
    /\ loaded /\ Old(v) # {} => v.display \/ v.nonReady # {}
    /\ loaded /\ v.loading => v.display \/ v.nonReady # {}

\* A file that is waited for will be reported, if an unchanged info has not made it
\* ready.
Awaited(v, files) ==
  ~v.needsReload => \A o \in v.nonReady :
    ~ReadyToLoad(files, o) \/ o \in v.newChanged \/ Unreported(files, o)

\* Where a view keeps the file of a name.
Sorted(v, files, n) ==
  LET o == << n, files[n].gen >> IN
  /\ ~files[n].hidden => o \in v.newAdded \cup v.nonReady \cup v.oldAdded \cup v.shown
  /\ files[n].hidden => o \notin v.nonReady \cup v.oldAdded \cup v.shown

\* Every visible file of the list is in one of the view's, no hidden one is
\* displayed, unless it was hidden or shown again later, and every file that is
\* gone has been reported.
Complete(v, files) ==
  v.step = "underway" /\ ~v.needsReload =>
    /\ \A n \in Listed(files) : ~files[n].toggled => Sorted(v, files, n)
    /\ \A o \in v.newAdded \cup v.nonReady : IsGone(files, o) => o \in v.newChanged
    /\ \A o \in v.oldAdded \cup v.shown : IsGone(files, o) => o \in v.newChanged \cup v.oldChanged

ViewInv ==
  /\ Orderly(view)
  /\ Scheduled(view, dir.loaded)
  /\ Awaited(view, file)
  /\ ~past.stopped => Complete(view, file)

-----------------------------------------------------------------------------
(***************************************************************************)
(* Files and their objects.                                                *)
(***************************************************************************)
LEMMA NoFileFacts ==
  /\ NoFile \in AnyRecord /\ NoFile \notin Known /\ NoFile \in Records /\ NoFile.gen = 0
  /\ NoFile.lacks = "info" /\ NoFile.answer = "none"
  /\ ~NoFile.unconfirmed /\ ~NoFile.hidden /\ ~NoFile.silent /\ ~NoFile.toggled
BY DEF NoFile, AnyRecord, Known, Records, Answers

LEMMA RecordFacts ==
  ASSUME NEW files \in [Names -> Records]
  PROVE  \A n \in Names :
           /\ files[n] \in AnyRecord /\ files[n].gen \in Nat
           /\ n \in Listed(files) <=> files[n] \in Known
           /\ n \in Listed(files) <=> files[n].gen \in Nat \ {0}
           /\ n \notin Listed(files) <=> files[n] = NoFile
           /\ n \notin Listed(files) <=> files[n].gen = 0
           /\ n \notin Listed(files) =>
                /\ files[n].lacks = "info" /\ files[n].answer = "none"
                /\ ~files[n].unconfirmed /\ ~files[n].hidden
                /\ ~files[n].silent /\ ~files[n].toggled
<1> SUFFICES ASSUME NEW n \in Names
             PROVE
           /\ files[n] \in AnyRecord /\ files[n].gen \in Nat
           /\ n \in Listed(files) <=> files[n] \in Known
           /\ n \in Listed(files) <=> files[n].gen \in Nat \ {0}
           /\ n \notin Listed(files) <=> files[n] = NoFile
           /\ n \notin Listed(files) <=> files[n].gen = 0
           /\ n \notin Listed(files) =>
                /\ files[n].lacks = "info" /\ files[n].answer = "none"
                /\ ~files[n].unconfirmed /\ ~files[n].hidden
                /\ ~files[n].silent /\ ~files[n].toggled
  OBVIOUS
<1> DEFINE f == files[n]
<1>1. f \in Known \/ f = NoFile
  BY DEF Records
<1>2. n \in Listed(files) <=> f # NoFile
  BY DEF Listed
<1> HIDE DEF f
<1>3. CASE f \in Known
  <2>1. f \in AnyRecord /\ f.gen # 0 /\ f.gen \in Nat
    BY <1>3 DEF Known, AnyRecord
  <2>2. f # NoFile
    BY <1>3, NoFileFacts
  <2> QED BY <1>2, <1>3, <2>1, <2>2 DEF f
<1>4. CASE f = NoFile
  BY <1>2, <1>4, NoFileFacts DEF f
<1> QED BY <1>1, <1>3, <1>4

\* What a change of one field leaves alone.
LEMMA InvalidFacts ==
  ASSUME NEW f \in Records
  PROVE  /\ Invalid(f) \in Records /\ (Invalid(f) = NoFile <=> f = NoFile)
         /\ Invalid(f).gen = f.gen /\ Invalid(f).unconfirmed = f.unconfirmed
         /\ Invalid(f).answer = f.answer /\ Invalid(f).hidden = f.hidden
         /\ Invalid(f).toggled = f.toggled /\ Invalid(f).lacks = "info" /\ ~Invalid(f).silent
<1> DEFINE g == Invalid(f)
<1>1. f \in AnyRecord
  BY NoFileFacts DEF Records, Known
<1>2. g \in AnyRecord
  BY <1>1 DEF Invalid, AnyRecord
<1>3. /\ g.gen = f.gen /\ g.unconfirmed = f.unconfirmed /\ g.answer = f.answer
      /\ g.hidden = f.hidden /\ g.toggled = f.toggled /\ g.lacks = "info" /\ ~g.silent
  BY <1>1 DEF Invalid, AnyRecord
<1> HIDE DEF g
<1>4. CASE f \in Known
  <2>1. g \in Known
    BY <1>2, <1>3, <1>4 DEF Known
  <2> QED BY <1>3, <1>4, <2>1, NoFileFacts DEF Records, g
<1>5. CASE f = NoFile
  <2>1. g = NoFile
    BY <1>2, <1>3, <1>5, NoFileFacts DEF AnyRecord
  <2> QED BY <1>3, <1>5, <2>1, NoFileFacts DEF g
<1> QED BY <1>4, <1>5 DEF Records

LEMMA UpdateInfoFacts ==
  ASSUME NEW f \in Known, NEW n, NEW attribute
  PROVE  LET g == UpdateInfo(f, n, attribute) IN
         /\ g \in Known /\ g.gen = f.gen /\ g.unconfirmed = f.unconfirmed
         /\ g.answer = "none" /\ g.silent = f.silent
         /\ ~g.toggled => ~f.toggled /\ g.hidden = f.hidden
<1> DEFINE g == UpdateInfo(f, n, attribute)
           lacks == IF f.lacks # "info" THEN f.lacks ELSE IF n \in Links THEN "link" ELSE "nothing"
           hidden == attribute = "hidden"
           toggled == f.toggled \/ f.hidden # hidden
<1>1. f \in AnyRecord /\ f.gen # 0
  BY DEF Known
<1>2. lacks \in {"info", "link", "nothing"} /\ hidden \in BOOLEAN /\ toggled \in BOOLEAN
      /\ "none" \in Answers
  BY <1>1 DEF AnyRecord, Answers
<1>3. ~toggled => ~f.toggled /\ hidden = f.hidden
  BY <1>1 DEF AnyRecord
<1>4. g = [f EXCEPT !.lacks = lacks, !.answer = "none", !.hidden = hidden, !.toggled = toggled]
  BY DEF UpdateInfo
<1> HIDE DEF g, lacks, hidden, toggled
<1>5. /\ g \in AnyRecord /\ g.gen = f.gen /\ g.unconfirmed = f.unconfirmed
      /\ g.answer = "none" /\ g.silent = f.silent /\ g.hidden = hidden /\ g.toggled = toggled
  BY <1>1, <1>2, <1>4 DEF AnyRecord
<1> QED BY <1>1, <1>3, <1>5 DEF Known, g

LEMMA ArrivedFacts ==
  ASSUME NEW f \in Known
  PROVE  LET g == [f EXCEPT !.lacks = "nothing"] IN
         /\ g \in Known /\ g.gen = f.gen /\ g.unconfirmed = f.unconfirmed
         /\ g.answer = f.answer /\ g.hidden = f.hidden /\ g.toggled = f.toggled
BY DEF Known, AnyRecord

LEMMA ObjectsFacts ==
  ASSUME NEW files \in [Names -> Records], NEW names \in SUBSET Listed(files)
  PROVE  /\ Objects(files, names) \in SUBSET Objs
         /\ IsFiniteSet(Objects(files, names))
         /\ \A o \in Objs : o \in Objects(files, names) <=> o[1] \in names /\ files[o[1]].gen = o[2]
<1>1. names \subseteq Names
  BY DEF Listed
<1>2. Objects(files, names) \in SUBSET Objs
  BY <1>1, RecordFacts DEF Objects, Objs
<1>3. IsFiniteSet(Objects(files, names))
  <2> DEFINE g == [n \in names |-> << n, files[n].gen >>]
  <2>1. g \in Surjection(names, Objects(files, names))
    BY DEF Surjection, Objects
  <2>2. IsFiniteSet(names)
    BY <1>1, NamesAssumption, FS_Subset
  <2> HIDE DEF g
  <2> QED BY <2>1, <2>2, FS_Surjection
<1>4. ASSUME NEW o \in Objs
      PROVE  o \in Objects(files, names) <=> o[1] \in names /\ files[o[1]].gen = o[2]
  <2>1. o = << o[1], o[2] >>
    BY DEF Objs
  <2> QED BY <2>1 DEF Objects
<1> QED BY <1>2, <1>3, <1>4

\* There is always an address left, and nobody holds an object there.
LEMMA FreshIsFree ==
  ASSUME NEW v, IsFiniteSet(Held(v)), NEW n
  PROVE  FreshGen(v, n) \in Nat \ {0} /\ << n, FreshGen(v, n) >> \notin Held(v)
<1> DEFINE k == Cardinality(Held(v))
<1>1. k \in Nat
  BY FS_CardinalityType
<1>2. \E g \in 1 .. 1 + k : << n, g >> \notin Held(v)
  <2> SUFFICES ASSUME \A g \in 1 .. 1 + k : << n, g >> \in Held(v) PROVE FALSE
    OBVIOUS
  <2> HIDE DEF k
  <2> DEFINE f == [g \in 1 .. 1 + k |-> << n, g >>]
  <2>1. f \in [1 .. 1 + k -> Held(v)]
    OBVIOUS
  <2>2. IsFiniteSet(1 .. 1 + k) /\ Cardinality(1 .. 1 + k) = 1 + k
    BY <1>1, FS_Interval
  <2>3. Cardinality(Held(v)) < Cardinality(1 .. 1 + k)
    BY <1>1, <2>2 DEF k
  <2> HIDE DEF f
  <2>4. \E x, y \in 1 .. 1 + k : x # y /\ f[x] = f[y]
    BY <2>1, <2>2, <2>3, FS_PigeonHole
  <2> QED BY <2>4 DEF f
<1>3. FreshGen(v, n) \in 1 .. 1 + k /\ << n, FreshGen(v, n) >> \notin Held(v)
  BY <1>2 DEF FreshGen
<1> QED BY <1>1, <1>3

(***************************************************************************)
(* What the operators of a view leave of its lists.                        *)
(***************************************************************************)
LEMMA HeldFacts ==
  ASSUME NEW v \in Views
  PROVE  /\ Held(v) \subseteq Objs
         /\ v.shown \subseteq Held(v) /\ v.newAdded \subseteq Held(v)
         /\ v.newChanged \subseteq Held(v) /\ v.nonReady \subseteq Held(v)
         /\ v.oldAdded \subseteq Held(v) /\ v.oldChanged \subseteq Held(v)
<1>1. /\ v.shown \subseteq Objs /\ v.newAdded \subseteq Objs /\ v.newChanged \subseteq Objs
      /\ v.nonReady \subseteq Objs /\ v.oldAdded \subseteq Objs /\ v.oldChanged \subseteq Objs
  BY DEF Views
<1> QED BY <1>1 DEF Held

LEMMA HeldFinite ==
  ASSUME NEW v, IsFiniteSet(Held(v)), NEW objects, IsFiniteSet(objects), NEW w,
         Held(w) \subseteq Held(v) \cup objects
  PROVE  IsFiniteSet(Held(w))
BY FS_Union, FS_Subset

\* w is v when it has been told of changed and of added objects: all of them, or
\* it is to be reloaded.
Told(v, w, loaded, changed, added) ==
  /\ w \in Views /\ IsFiniteSet(Held(w))
  /\ w.step = v.step /\ w.loading = v.loading /\ w.frozen = v.frozen /\ w.shown = v.shown
  /\ w.nonReady = v.nonReady /\ w.oldAdded = v.oldAdded /\ w.oldChanged = v.oldChanged
  /\ v.needsReload => w.needsReload
  /\ w.needsReload => v.needsReload \/ w.frozen
  /\ v.display => w.display
  /\ v.step = "asked" => Held(w) = Held(v)
  /\ w.newChanged \subseteq v.newChanged \cup changed
  /\ w.newAdded \subseteq v.newAdded \cup added
  /\ v.step = "underway" /\ ~w.needsReload =>
       w.newChanged = v.newChanged \cup changed /\ w.newAdded = v.newAdded \cup added
  /\ loaded /\ New(w) # New(v) => w.display

\* An update is forgotten, or is too much for a frozen view, or is queued.
LEMMA ChangedTold ==
  ASSUME NEW v \in Views, IsFiniteSet(Held(v)), NEW d, d.loaded \in BOOLEAN,
         NEW objects \in SUBSET Objs, IsFiniteSet(objects)
  PROVE  Told(v, FilesChanged(v, d, objects), d.loaded, objects, {})
<1> DEFINE w == FilesChanged(v, d, objects)
           q == IF v.frozen THEN v.queued + Cardinality(objects) ELSE v.queued
<1> SUFFICES Told(v, w, d.loaded, objects, {})
  OBVIOUS
<1>1. v.step \in {"asked", "underway"}
  BY DEF Views
<1>2. CASE w = v /\ (v.step = "asked" \/ objects = {} \/ v.needsReload)
  <2> HIDE DEF w
  <2> QED BY <1>1, <1>2 DEF Told
<1>3. CASE w = [v EXCEPT !.needsReload = TRUE] /\ v.frozen /\ v.step = "underway"
  <2> HIDE DEF w
  <2>1. w \in Views
    BY <1>3 DEF Views
  <2>2. /\ w.step = v.step /\ w.loading = v.loading /\ w.frozen = v.frozen
        /\ w.shown = v.shown /\ w.nonReady = v.nonReady /\ w.oldAdded = v.oldAdded
        /\ w.oldChanged = v.oldChanged /\ w.needsReload /\ w.display = v.display
        /\ w.newAdded = v.newAdded /\ w.newChanged = v.newChanged
    BY <1>3 DEF Views
  <2>3. Held(w) = Held(v)
    BY <2>2 DEF Held
  <2> QED BY <1>3, <2>1, <2>2, <2>3 DEF Told, New
<1>4. CASE /\ w = [v EXCEPT !.queued = q, !.newChanged = v.newChanged \cup objects,
                            !.display = v.display \/ ~v.loading \/ d.loaded]
           /\ v.step = "underway"
  <2>1. q \in Nat
    BY FS_CardinalityType DEF Views
  <2> HIDE DEF w, q
  <2>2. w \in Views
    BY <1>4, <2>1 DEF Views
  <2>3. /\ w.step = v.step /\ w.loading = v.loading /\ w.frozen = v.frozen
        /\ w.shown = v.shown /\ w.nonReady = v.nonReady /\ w.oldAdded = v.oldAdded
        /\ w.oldChanged = v.oldChanged /\ w.needsReload = v.needsReload
        /\ w.newAdded = v.newAdded /\ w.newChanged = v.newChanged \cup objects
    BY <1>4 DEF Views
  <2>4. w.display = (v.display \/ ~v.loading \/ d.loaded)
    BY <1>4 DEF Views
  <2>5. IsFiniteSet(Held(w))
    <3>1. Held(w) \subseteq Held(v) \cup objects
      BY <2>3 DEF Held
    <3> QED BY <3>1, HeldFinite
  <2> QED BY <1>4, <2>2, <2>3, <2>4, <2>5 DEF Told, New
<1>5. \/ w = v /\ (v.step = "asked" \/ objects = {} \/ v.needsReload)
      \/ w = [v EXCEPT !.needsReload = TRUE] /\ v.frozen /\ v.step = "underway"
      \/ /\ w = [v EXCEPT !.queued = q, !.newChanged = v.newChanged \cup objects,
                           !.display = v.display \/ ~v.loading \/ d.loaded]
         /\ v.step = "underway"
  <2>1. CASE v.step = "asked"
    BY <2>1 DEF FilesChanged
  <2>2. CASE v.step = "underway" /\ (objects = {} \/ v.needsReload)
    BY <2>2 DEF FilesChanged, QueuePendingFiles
  <2>3. CASE v.step = "underway" /\ ~(objects = {} \/ v.needsReload) /\ q > MaxQueued /\ v.frozen
    BY <2>3 DEF FilesChanged, QueuePendingFiles
  <2>4. CASE v.step = "underway" /\ ~(objects = {} \/ v.needsReload) /\ ~(q > MaxQueued /\ v.frozen)
    BY <2>4 DEF FilesChanged, QueuePendingFiles
  <2> QED BY <1>1, <2>1, <2>2, <2>3, <2>4
<1> QED BY <1>2, <1>3, <1>4, <1>5

LEMMA AddedTold ==
  ASSUME NEW v \in Views, IsFiniteSet(Held(v)), NEW d, d.loaded \in BOOLEAN,
         NEW objects \in SUBSET Objs, IsFiniteSet(objects)
  PROVE  Told(v, FilesAdded(v, d, objects), d.loaded, {}, objects)
<1> DEFINE w == FilesAdded(v, d, objects)
           q == IF v.frozen THEN v.queued + Cardinality(objects) ELSE v.queued
<1> SUFFICES Told(v, w, d.loaded, {}, objects)
  OBVIOUS
<1>1. v.step \in {"asked", "underway"}
  BY DEF Views
<1>2. CASE w = v /\ (v.step = "asked" \/ objects = {} \/ v.needsReload)
  <2> HIDE DEF w
  <2> QED BY <1>1, <1>2 DEF Told
<1>3. CASE w = [v EXCEPT !.needsReload = TRUE] /\ v.frozen /\ v.step = "underway"
  <2> HIDE DEF w
  <2>1. w \in Views
    BY <1>3 DEF Views
  <2>2. /\ w.step = v.step /\ w.loading = v.loading /\ w.frozen = v.frozen
        /\ w.shown = v.shown /\ w.nonReady = v.nonReady /\ w.oldAdded = v.oldAdded
        /\ w.oldChanged = v.oldChanged /\ w.needsReload /\ w.display = v.display
        /\ w.newAdded = v.newAdded /\ w.newChanged = v.newChanged
    BY <1>3 DEF Views
  <2>3. Held(w) = Held(v)
    BY <2>2 DEF Held
  <2> QED BY <1>3, <2>1, <2>2, <2>3 DEF Told, New
<1>4. CASE /\ w = [v EXCEPT !.queued = q, !.newAdded = v.newAdded \cup objects,
                            !.display = v.display \/ ~v.loading \/ d.loaded]
           /\ v.step = "underway"
  <2>1. q \in Nat
    BY FS_CardinalityType DEF Views
  <2> HIDE DEF w, q
  <2>2. w \in Views
    BY <1>4, <2>1 DEF Views
  <2>3. /\ w.step = v.step /\ w.loading = v.loading /\ w.frozen = v.frozen
        /\ w.shown = v.shown /\ w.nonReady = v.nonReady /\ w.oldAdded = v.oldAdded
        /\ w.oldChanged = v.oldChanged /\ w.needsReload = v.needsReload
        /\ w.newChanged = v.newChanged /\ w.newAdded = v.newAdded \cup objects
    BY <1>4 DEF Views
  <2>4. w.display = (v.display \/ ~v.loading \/ d.loaded)
    BY <1>4 DEF Views
  <2>5. IsFiniteSet(Held(w))
    <3>1. Held(w) \subseteq Held(v) \cup objects
      BY <2>3 DEF Held
    <3> QED BY <3>1, HeldFinite
  <2> QED BY <1>4, <2>2, <2>3, <2>4, <2>5 DEF Told, New
<1>5. \/ w = v /\ (v.step = "asked" \/ objects = {} \/ v.needsReload)
      \/ w = [v EXCEPT !.needsReload = TRUE] /\ v.frozen /\ v.step = "underway"
      \/ /\ w = [v EXCEPT !.queued = q, !.newAdded = v.newAdded \cup objects,
                           !.display = v.display \/ ~v.loading \/ d.loaded]
         /\ v.step = "underway"
  <2>1. CASE v.step = "asked"
    BY <2>1 DEF FilesAdded
  <2>2. CASE v.step = "underway" /\ (objects = {} \/ v.needsReload)
    BY <2>2 DEF FilesAdded, QueuePendingFiles
  <2>3. CASE v.step = "underway" /\ ~(objects = {} \/ v.needsReload) /\ q > MaxQueued /\ v.frozen
    BY <2>3 DEF FilesAdded, QueuePendingFiles
  <2>4. CASE v.step = "underway" /\ ~(objects = {} \/ v.needsReload) /\ ~(q > MaxQueued /\ v.frozen)
    BY <2>4 DEF FilesAdded, QueuePendingFiles
  <2> QED BY <1>1, <2>1, <2>2, <2>3, <2>4
<1> QED BY <1>2, <1>3, <1>4, <1>5

LEMMA BothTold ==
  ASSUME NEW v \in Views, NEW u, NEW w, NEW loaded, NEW changed, NEW added,
         Told(v, u, loaded, changed, {}), Told(u, w, loaded, {}, added)
  PROVE  Told(v, w, loaded, changed, added)
<1>1. w.newChanged \subseteq v.newChanged \cup changed /\ w.newAdded \subseteq v.newAdded \cup added
  BY DEF Told
<1>2. v.step = "underway" /\ ~w.needsReload =>
        w.newChanged = v.newChanged \cup changed /\ w.newAdded = v.newAdded \cup added
  BY DEF Told
<1>3. v.step = "asked" => Held(w) = Held(v)
  BY DEF Told
<1>4. loaded /\ New(w) # New(v) => w.display
  BY DEF Told
<1> QED BY <1>1, <1>2, <1>3, <1>4 DEF Told

(***************************************************************************)
(***************************************************************************)
(* The list changes from f to g, and the view is told.                     *)
(***************************************************************************)
\* Of what v holds, files are gone only if they were or are reported, and stay so;
\* what is new in the list is reported and nobody held it, unless it has been
\* hidden or shown again.
Reported(v, f, g, changed, added) ==
  /\ \A o \in Held(v) : IsGone(f, o) => IsGone(g, o)
  /\ \A o \in Held(v) : IsGone(g, o) => IsGone(f, o) \/ o \in changed
  /\ \A n \in Listed(g) : ~g[n].toggled =>
       \/ << n, g[n].gen >> \in added
       \/ /\ n \in Listed(f) /\ f[n].gen = g[n].gen
          /\ ~f[n].toggled /\ f[n].hidden = g[n].hidden
  /\ \A o \in added : ~IsGone(g, o) /\ o \notin Held(v)

\* So is what becomes ready, or it is remembered.
Heard(v, f, g, changed) ==
  \A o \in Held(v) : ReadyToLoad(g, o) =>
    \/ ReadyToLoad(f, o) /\ ~Unreported(f, o)
    \/ o \in changed
    \/ Unreported(g, o)

LEMMA ToldOrderly ==
  ASSUME NEW v \in Views, NEW w, NEW loaded, NEW changed, NEW added,
         Told(v, w, loaded, changed, added), Orderly(v),
         \A o \in added : o \notin Held(v)
  PROVE  Orderly(w) /\ (Scheduled(v, loaded) => Scheduled(w, loaded))
<1>1. w.step = "asked" => Held(w) = {}
  BY DEF Told, Orderly
<1>2. w.needsReload => w.frozen
  BY DEF Told, Orderly
<1>3. (w.newAdded \cup w.nonReady) \cap (w.oldAdded \cup w.shown) = {}
  BY HeldFacts DEF Told, Orderly
<1>4. ASSUME Scheduled(v, loaded) PROVE Scheduled(w, loaded)
  BY <1>4 DEF Told, Orderly, Scheduled, Old
<1> QED BY <1>1, <1>2, <1>3, <1>4 DEF Orderly

LEMMA ToldAwaited ==
  ASSUME NEW v \in Views, NEW w, NEW loaded, NEW changed, NEW added,
         Told(v, w, loaded, changed, added), Orderly(v), NEW f, NEW g,
         Heard(v, f, g, changed), Awaited(v, f)
  PROVE  Awaited(w, g)
<1> SUFFICES ASSUME ~w.needsReload, NEW o \in w.nonReady
             PROVE  ~ReadyToLoad(g, o) \/ o \in w.newChanged \/ Unreported(g, o)
  BY DEF Awaited
<1>1. o \in v.nonReady /\ o \in Held(v) /\ ~v.needsReload
  BY HeldFacts DEF Told
<1>2. v.step = "underway"
  BY <1>1 DEF Orderly, Views
<1>3. w.newChanged = v.newChanged \cup changed
  BY <1>2 DEF Told
<1> QED BY <1>1, <1>3 DEF Awaited, Heard

LEMMA ToldComplete ==
  ASSUME NEW v \in Views, NEW w, NEW loaded, NEW changed, NEW added,
         Told(v, w, loaded, changed, added), NEW f, NEW g,
         Reported(v, f, g, changed, added), Complete(v, f)
  PROVE  Complete(w, g)
<1> SUFFICES ASSUME w.step = "underway", ~w.needsReload
             PROVE
    /\ \A n \in Listed(g) : ~g[n].toggled => Sorted(w, g, n)
    /\ \A o \in w.newAdded \cup w.nonReady : IsGone(g, o) => o \in w.newChanged
    /\ \A o \in w.oldAdded \cup w.shown : IsGone(g, o) => o \in w.newChanged \cup w.oldChanged
  BY DEF Complete
<1>1. /\ v.step = "underway" /\ ~v.needsReload
      /\ w.newChanged = v.newChanged \cup changed /\ w.newAdded = v.newAdded \cup added
      /\ w.shown = v.shown /\ w.nonReady = v.nonReady
      /\ w.oldAdded = v.oldAdded /\ w.oldChanged = v.oldChanged
  BY DEF Told
<1>2. /\ \A n \in Listed(f) : ~f[n].toggled => Sorted(v, f, n)
      /\ \A o \in v.newAdded \cup v.nonReady : IsGone(f, o) => o \in v.newChanged
      /\ \A o \in v.oldAdded \cup v.shown : IsGone(f, o) => o \in v.newChanged \cup v.oldChanged
  BY <1>1 DEF Complete
<1>3. ASSUME NEW n \in Listed(g), ~g[n].toggled
      PROVE  Sorted(w, g, n)
  <2> DEFINE o == << n, g[n].gen >>
  <2>1. CASE o \in added
    <3>1. o \notin Held(v) /\ o \in w.newAdded
      BY <1>1, <2>1 DEF Reported
    <3>2. o \notin w.nonReady \cup w.oldAdded \cup w.shown
      BY <1>1, <3>1, HeldFacts
    <3> QED BY <3>1, <3>2 DEF Sorted
  <2>2. CASE /\ n \in Listed(f) /\ f[n].gen = g[n].gen
             /\ ~f[n].toggled /\ f[n].hidden = g[n].hidden
             /\ o \notin added
    <3>1. Sorted(v, f, n)
      BY <1>2, <2>2
    <3> QED BY <1>1, <2>2, <3>1 DEF Sorted
  <2> QED BY <1>3, <2>1, <2>2 DEF Reported
<1>4. ASSUME NEW o \in w.newAdded \cup w.nonReady, IsGone(g, o)
      PROVE  o \in w.newChanged
  <2>1. o \notin added
    BY <1>4 DEF Reported
  <2>2. o \in v.newAdded \cup v.nonReady /\ o \in Held(v)
    BY <1>1, <2>1, HeldFacts
  <2> QED BY <1>1, <1>2, <1>4, <2>2 DEF Reported
<1>5. ASSUME NEW o \in w.oldAdded \cup w.shown, IsGone(g, o)
      PROVE  o \in w.newChanged \cup w.oldChanged
  <2>1. o \in v.oldAdded \cup v.shown /\ o \in Held(v)
    BY <1>1, HeldFacts
  <2> QED BY <1>1, <1>2, <1>5, <2>1 DEF Reported
<1> QED BY <1>3, <1>4, <1>5

(* The view sorts and displays what it was told.                           *)
(***************************************************************************)
\* p is v when the new files have been sorted into those that can be displayed
\* and those that cannot.
LEMMA ProcessNewFields ==
  ASSUME NEW v \in Views, IsFiniteSet(Held(v)), NEW files
  PROVE  LET p       == ProcessNewFiles(v, files)
             added   == {o \in v.newAdded : ShouldShow(files, o)}
             ready   == {o \in added : ReadyToLoad(files, o)}
             waiting == (v.nonReady \ ready) \cup (added \ ready)
             settled == {o \in v.newChanged : ReadyToLoad(files, o) \/ ~StillShouldShow(files, o)}
             awaited == settled \cap waiting
         IN  /\ p \in Views /\ IsFiniteSet(Held(p))
             /\ p.step = v.step /\ p.loading = v.loading /\ p.shown = v.shown
             /\ p.display = v.display /\ p.frozen = v.frozen /\ p.needsReload = v.needsReload
             /\ p.newAdded = {} /\ p.newChanged = {}
             /\ p.nonReady = waiting \ awaited
             /\ p.oldAdded = v.oldAdded \cup ready \cup {o \in awaited : StillShouldShow(files, o)}
             /\ p.oldChanged = v.oldChanged \cup {o \in settled \ waiting : ShouldShow(files, o)}
<1> DEFINE p       == ProcessNewFiles(v, files)
           added   == {o \in v.newAdded : ShouldShow(files, o)}
           ready   == {o \in added : ReadyToLoad(files, o)}
           waiting == (v.nonReady \ ready) \cup (added \ ready)
           settled == {o \in v.newChanged : ReadyToLoad(files, o) \/ ~StillShouldShow(files, o)}
           awaited == settled \cap waiting
           left    == waiting \ awaited
           more    == v.oldAdded \cup ready \cup {o \in awaited : StillShouldShow(files, o)}
           changed == v.oldChanged \cup {o \in settled \ waiting : ShouldShow(files, o)}
<1> SUFFICES /\ p \in Views /\ IsFiniteSet(Held(p))
             /\ p.step = v.step /\ p.loading = v.loading /\ p.shown = v.shown
             /\ p.display = v.display /\ p.frozen = v.frozen /\ p.needsReload = v.needsReload
             /\ p.newAdded = {} /\ p.newChanged = {}
             /\ p.nonReady = left /\ p.oldAdded = more /\ p.oldChanged = changed
  OBVIOUS
<1>1. /\ v.newAdded \subseteq Objs /\ v.newChanged \subseteq Objs /\ v.nonReady \subseteq Objs
      /\ v.oldAdded \subseteq Objs /\ v.oldChanged \subseteq Objs
  BY DEF Views
<1>2. /\ left \subseteq v.nonReady \cup v.newAdded
      /\ more \subseteq v.oldAdded \cup v.nonReady \cup v.newAdded
      /\ changed \subseteq v.oldChanged \cup v.newChanged
  OBVIOUS
<1>3. p = [v EXCEPT !.newAdded = {}, !.newChanged = {}, !.nonReady = left, !.oldAdded = more,
                    !.oldChanged = changed]
  BY DEF ProcessNewFiles
<1> HIDE DEF p, left, more, changed
<1>4. p \in Views
  BY <1>1, <1>2, <1>3 DEF Views
<1>5. /\ p.step = v.step /\ p.loading = v.loading /\ p.shown = v.shown
      /\ p.display = v.display /\ p.frozen = v.frozen /\ p.needsReload = v.needsReload
      /\ p.newAdded = {} /\ p.newChanged = {}
      /\ p.nonReady = left /\ p.oldAdded = more /\ p.oldChanged = changed
  BY <1>3 DEF Views
<1>6. IsFiniteSet(Held(p))
  <2>1. Held(p) \subseteq Held(v)
    BY <1>2, <1>5 DEF Held
  <2> QED BY <2>1, FS_Subset
<1> QED BY <1>4, <1>5, <1>6

LEMMA SortedInv ==
  ASSUME NEW v \in Views, IsFiniteSet(Held(v)), NEW files, Orderly(v)
  PROVE  LET p == ProcessNewFiles(v, files) IN
         /\ Orderly(p)
         /\ Awaited(v, files) => Awaited(p, files)
         /\ Complete(v, files) => Complete(p, files)
<1> DEFINE p       == ProcessNewFiles(v, files)
           added   == {o \in v.newAdded : ShouldShow(files, o)}
           ready   == {o \in added : ReadyToLoad(files, o)}
           waiting == (v.nonReady \ ready) \cup (added \ ready)
           settled == {o \in v.newChanged : ReadyToLoad(files, o) \/ ~StillShouldShow(files, o)}
           awaited == settled \cap waiting
<1> SUFFICES /\ Orderly(p)
             /\ Awaited(v, files) => Awaited(p, files)
             /\ Complete(v, files) => Complete(p, files)
  OBVIOUS
<1>1. /\ p \in Views
      /\ p.step = v.step /\ p.shown = v.shown
      /\ p.frozen = v.frozen /\ p.needsReload = v.needsReload
      /\ p.newAdded = {} /\ p.newChanged = {}
      /\ p.nonReady = waiting \ awaited
      /\ p.oldAdded = v.oldAdded \cup ready \cup {o \in awaited : StillShouldShow(files, o)}
      /\ p.oldChanged = v.oldChanged \cup {o \in settled \ waiting : ShouldShow(files, o)}
  BY ProcessNewFields
<1> HIDE DEF p
<1>2. Orderly(p)
  <2>1. p.step = "asked" => Held(p) = {}
    BY <1>1 DEF Orderly, Held
  <2>2. p.needsReload => p.frozen
    BY <1>1 DEF Orderly
  <2>3. (p.newAdded \cup p.nonReady) \cap (p.oldAdded \cup p.shown) = {}
    BY <1>1 DEF Orderly
  <2> QED BY <2>1, <2>2, <2>3 DEF Orderly
<1>3. ASSUME Awaited(v, files) PROVE Awaited(p, files)
  <2> SUFFICES ASSUME ~p.needsReload, NEW o \in p.nonReady, ReadyToLoad(files, o)
               PROVE  Unreported(files, o)
    BY DEF Awaited
  <2>1. o \in v.nonReady /\ o \notin v.newChanged
    BY <1>1
  <2> QED BY <1>1, <1>3, <2>1 DEF Awaited
<1>4. ASSUME Complete(v, files)
      PROVE  Complete(p, files)
  <2> SUFFICES ASSUME p.step = "underway", ~p.needsReload
               PROVE
      /\ \A n \in Listed(files) : ~files[n].toggled => Sorted(p, files, n)
      /\ \A o \in p.newAdded \cup p.nonReady : IsGone(files, o) => o \in p.newChanged
      /\ \A o \in p.oldAdded \cup p.shown : IsGone(files, o) => o \in p.newChanged \cup p.oldChanged
    BY DEF Complete
  <2>1. /\ \A n \in Listed(files) : ~files[n].toggled => Sorted(v, files, n)
        /\ \A o \in v.newAdded \cup v.nonReady : IsGone(files, o) => o \in v.newChanged
        /\ \A o \in v.oldAdded \cup v.shown : IsGone(files, o) => o \in v.newChanged \cup v.oldChanged
    BY <1>1, <1>4 DEF Complete
  <2>2. \A o : IsGone(files, o) =>
          ShouldShow(files, o) /\ ReadyToLoad(files, o) /\ ~StillShouldShow(files, o)
    BY DEF ShouldShow, StillShouldShow, ReadyToLoad
  <2>3. ASSUME NEW n \in Listed(files), ~files[n].toggled
        PROVE  Sorted(p, files, n)
    <3> DEFINE o == << n, files[n].gen >>
    <3>1. ~IsGone(files, o) /\ (ShouldShow(files, o) <=> ~files[n].hidden)
          /\ (StillShouldShow(files, o) <=> ~files[n].hidden)
      BY DEF IsGone, ShouldShow, StillShouldShow
    <3>2. Sorted(v, files, n)
      BY <2>1, <2>3
    <3>3. CASE ~files[n].hidden
      <4>1. o \in v.newAdded \cup v.nonReady \cup v.oldAdded \cup v.shown
        BY <3>2, <3>3 DEF Sorted
      <4>2. o \in p.nonReady \cup p.oldAdded \cup p.shown
        <5> HIDE DEF o
        <5> QED BY <1>1, <3>1, <3>3, <4>1
      <4> QED BY <3>3, <4>2 DEF Sorted
    <3>4. CASE files[n].hidden
      <4>1. o \notin v.nonReady \cup v.oldAdded \cup v.shown
        BY <3>2, <3>4 DEF Sorted
      <4>2. o \notin p.nonReady \cup p.oldAdded \cup p.shown
        <5> HIDE DEF o
        <5> QED BY <1>1, <3>1, <3>4, <4>1
      <4> QED BY <3>4, <4>2 DEF Sorted
    <3> QED BY <3>3, <3>4 DEF Sorted
  <2>4. ASSUME NEW o \in p.nonReady PROVE ~IsGone(files, o)
    <3>1. CASE o \in v.nonReady
      BY <1>1, <2>1, <2>2, <2>4, <3>1
    <3>2. CASE o \in added \ ready
      BY <2>2, <3>2
    <3> QED BY <1>1, <2>4, <3>1, <3>2
  <2>5. ASSUME NEW o \in p.oldAdded \cup p.shown, IsGone(files, o)
        PROVE  o \in p.oldChanged
    <3>1. ShouldShow(files, o) /\ ReadyToLoad(files, o) /\ ~StillShouldShow(files, o)
      BY <2>2, <2>5
    <3>2. CASE o \in v.oldAdded \cup v.shown
      <4>1. o \notin waiting
        BY <3>2 DEF Orderly
      <4> QED BY <1>1, <2>1, <2>5, <3>1, <3>2, <4>1
    <3>3. CASE o \in ready
      <4>1. o \in v.newAdded /\ o \notin waiting
        BY <3>3
      <4> QED BY <1>1, <2>1, <2>5, <3>1, <4>1
    <3> QED BY <1>1, <2>5, <3>1, <3>2, <3>3
  <2> QED BY <1>1, <2>3, <2>4, <2>5
<1> QED BY <1>2, <1>3, <1>4

LEMMA DoneLoadingInv ==
  ASSUME NEW v \in Views, IsFiniteSet(Held(v)), NEW files, Orderly(v), NEW loaded
  PROVE  LET w == DoneLoading(v, files) IN
         /\ w \in Views /\ IsFiniteSet(Held(w)) /\ Orderly(w) /\ Scheduled(w, loaded)
         /\ Awaited(v, files) => Awaited(w, files)
         /\ Complete(v, files) => Complete(w, files)
<1> DEFINE w == DoneLoading(v, files)
           p == ProcessNewFiles(v, files)
<1> SUFFICES /\ w \in Views /\ IsFiniteSet(Held(w)) /\ Orderly(w) /\ Scheduled(w, loaded)
             /\ Awaited(v, files) => Awaited(w, files)
             /\ Complete(v, files) => Complete(w, files)
  OBVIOUS
<1>1. CASE v.step # "underway"
  <2>1. w = v
    BY <1>1 DEF DoneLoading
  <2> HIDE DEF w
  <2> QED BY <1>1, <2>1 DEF Scheduled
<1>2. CASE v.step = "underway"
  <2>1. w = [p EXCEPT !.display = p.display \/ p.nonReady = {}]
    BY <1>2 DEF DoneLoading
  <2>2. /\ p \in Views /\ IsFiniteSet(Held(p)) /\ p.newAdded = {} /\ p.newChanged = {}
    BY ProcessNewFields
  <2>3. /\ Orderly(p)
        /\ Awaited(v, files) => Awaited(p, files)
        /\ Complete(v, files) => Complete(p, files)
    BY SortedInv
  <2> HIDE DEF w, p
  <2>4. /\ w \in Views
        /\ w.display \/ w.nonReady # {}
        /\ w.step = p.step /\ w.shown = p.shown /\ w.newAdded = p.newAdded
        /\ w.newChanged = p.newChanged /\ w.nonReady = p.nonReady /\ w.oldAdded = p.oldAdded
        /\ w.oldChanged = p.oldChanged /\ w.frozen = p.frozen /\ w.needsReload = p.needsReload
    <3>1. p.display \in BOOLEAN
      BY <2>2 DEF Views
    <3>2. w \in Views
      BY <2>1, <2>2, <3>1 DEF Views
    <3>3. w.display = (p.display \/ p.nonReady = {})
      BY <2>1, <2>2 DEF Views
    <3>4. /\ w.step = p.step /\ w.shown = p.shown /\ w.newAdded = p.newAdded
          /\ w.newChanged = p.newChanged /\ w.nonReady = p.nonReady /\ w.oldAdded = p.oldAdded
          /\ w.oldChanged = p.oldChanged /\ w.frozen = p.frozen /\ w.needsReload = p.needsReload
      BY <2>1, <2>2 DEF Views
    <3> QED BY <3>2, <3>3, <3>4
  <2>5. Held(w) = Held(p)
    BY <2>4 DEF Held
  <2>6. Scheduled(w, loaded)
    BY <2>2, <2>4 DEF Scheduled, New, Old
  <2>7. Orderly(w)
    BY <2>3, <2>4, <2>5 DEF Orderly
  <2>8. Awaited(p, files) => Awaited(w, files)
    BY <2>4 DEF Awaited
  <2>9. Complete(p, files) => Complete(w, files)
    BY <2>4 DEF Complete, Sorted
  <2> QED BY <2>2, <2>3, <2>4, <2>5, <2>6, <2>7, <2>8, <2>9
<1> QED BY <1>1, <1>2

LEMMA DisplayedInv ==
  ASSUME NEW u \in Views, IsFiniteSet(Held(u)), NEW files, Orderly(u), NEW d
  PROVE  LET w == DisplayPendingFiles([u EXCEPT !.display = FALSE], d, files) IN
         /\ w \in Views /\ IsFiniteSet(Held(w)) /\ Orderly(w) /\ Scheduled(w, d.loaded)
         /\ Awaited(u, files) => Awaited(w, files)
         /\ Complete(u, files) => Complete(w, files)
<1> DEFINE v == [u EXCEPT !.display = FALSE]
           w == DisplayPendingFiles(v, d, files)
           p == ProcessNewFiles(v, files)
           o == ProcessOldFiles(p, files)
           stay == {x \in p.oldChanged : ~StillShouldShow(files, x)}
<1> SUFFICES /\ w \in Views /\ IsFiniteSet(Held(w)) /\ Orderly(w) /\ Scheduled(w, d.loaded)
             /\ Awaited(u, files) => Awaited(w, files)
             /\ Complete(u, files) => Complete(w, files)
  OBVIOUS
<1>1. /\ v \in Views /\ v.step = u.step /\ v.shown = u.shown /\ v.newAdded = u.newAdded
      /\ v.newChanged = u.newChanged /\ v.nonReady = u.nonReady /\ v.oldAdded = u.oldAdded
      /\ v.oldChanged = u.oldChanged /\ v.frozen = u.frozen /\ v.needsReload = u.needsReload
  BY DEF Views
<1>2. w = IF v.frozen THEN v
          ELSE IF d.loaded /\ o.nonReady = {} THEN [o EXCEPT !.loading = FALSE] ELSE o
  BY DEF DisplayPendingFiles
<1>3. o = [p EXCEPT !.shown = (p.shown \cup p.oldAdded) \ stay, !.oldAdded = {}, !.oldChanged = {}]
  BY DEF ProcessOldFiles
<1> HIDE DEF v, w, o, p
<1>4. Held(v) = Held(u) /\ Orderly(v)
  BY <1>1 DEF Held, Orderly
<1>5. /\ Awaited(u, files) => Awaited(v, files)
      /\ Complete(u, files) => Complete(v, files)
  BY <1>1 DEF Awaited, Complete, Sorted
<1>6. /\ p \in Views /\ IsFiniteSet(Held(p)) /\ p.newAdded = {} /\ p.newChanged = {}
      /\ p.step = v.step /\ p.frozen = v.frozen /\ p.needsReload = v.needsReload
  BY <1>1, <1>4, ProcessNewFields DEF p
<1>7. /\ Orderly(p)
      /\ Awaited(v, files) => Awaited(p, files)
      /\ Complete(v, files) => Complete(p, files)
  BY <1>1, <1>4, SortedInv DEF p
<1>8. p.shown \subseteq Objs /\ p.oldAdded \subseteq Objs
  BY <1>6 DEF Views
<1>9. /\ o \in Views
      /\ o.step = p.step /\ o.shown = (p.shown \cup p.oldAdded) \ stay
      /\ o.newAdded = {} /\ o.newChanged = {} /\ o.nonReady = p.nonReady
      /\ o.oldAdded = {} /\ o.oldChanged = {}
      /\ o.frozen = p.frozen /\ o.needsReload = p.needsReload
  <2> HIDE DEF stay
  <2> QED BY <1>3, <1>6, <1>8 DEF Views
<1>10. Held(o) \subseteq Held(p)
  BY <1>9 DEF Held
<1>11. Orderly(o)
  <2>1. o.step = "asked" => Held(o) = {}
    BY <1>7, <1>9, <1>10 DEF Orderly
  <2> QED BY <1>7, <1>9, <2>1 DEF Orderly
<1>12. Awaited(p, files) => Awaited(o, files)
  BY <1>6, <1>9 DEF Awaited
<1>13. Complete(p, files) => Complete(o, files)
  <2> SUFFICES ASSUME Complete(p, files), o.step = "underway", ~o.needsReload
               PROVE
      /\ \A n \in Listed(files) : ~files[n].toggled => Sorted(o, files, n)
      /\ \A x \in o.newAdded \cup o.nonReady : IsGone(files, x) => x \in o.newChanged
      /\ \A x \in o.oldAdded \cup o.shown : IsGone(files, x) => x \in o.newChanged \cup o.oldChanged
    BY DEF Complete
  <2>1. /\ \A n \in Listed(files) : ~files[n].toggled => Sorted(p, files, n)
        /\ \A x \in p.nonReady : ~IsGone(files, x)
        /\ \A x \in p.oldAdded \cup p.shown : IsGone(files, x) => x \in p.oldChanged
    BY <1>6, <1>9 DEF Complete
  <2>2. ASSUME NEW n \in Listed(files), ~files[n].toggled
        PROVE  Sorted(o, files, n)
    <3> DEFINE x == << n, files[n].gen >>
    <3>1. StillShouldShow(files, x) <=> ~files[n].hidden
      BY DEF StillShouldShow, IsGone
    <3>2. Sorted(p, files, n)
      BY <2>1, <2>2
    <3>3. /\ ~files[n].hidden => x \in p.nonReady \cup p.oldAdded \cup p.shown
          /\ files[n].hidden => x \notin p.nonReady \cup p.oldAdded \cup p.shown
      BY <1>6, <3>2 DEF Sorted
    <3>4. /\ ~files[n].hidden => x \in o.nonReady \cup o.shown
          /\ files[n].hidden => x \notin o.nonReady \cup o.oldAdded \cup o.shown
      <4> HIDE DEF x
      <4> QED BY <1>9, <3>1, <3>3
    <3> QED BY <3>4 DEF Sorted
  <2>3. \A x : IsGone(files, x) => ~StillShouldShow(files, x)
    BY DEF StillShouldShow
  <2> QED BY <1>9, <2>1, <2>2, <2>3
<1>14. CASE v.frozen
  <2>1. w = v
    BY <1>2, <1>14
  <2>2. Scheduled(w, d.loaded)
    BY <1>14, <2>1 DEF Scheduled
  <2> QED BY <1>1, <1>4, <1>5, <2>1, <2>2
<1>15. CASE ~v.frozen
  <2>1. /\ w \in Views
        /\ w.step = o.step /\ w.shown = o.shown /\ w.newAdded = o.newAdded
        /\ w.newChanged = o.newChanged /\ w.nonReady = o.nonReady /\ w.oldAdded = o.oldAdded
        /\ w.oldChanged = o.oldChanged /\ w.frozen = o.frozen /\ w.needsReload = o.needsReload
        /\ d.loaded /\ w.loading => w.nonReady # {}
    <3>1. CASE d.loaded /\ o.nonReady = {}
      <4>1. w = [o EXCEPT !.loading = FALSE]
        BY <1>2, <1>15, <3>1
      <4> QED BY <1>9, <4>1 DEF Views
    <3>2. CASE ~(d.loaded /\ o.nonReady = {})
      BY <1>2, <1>9, <1>15, <3>2
    <3> QED BY <3>1, <3>2
  <2>2. Held(w) = Held(o)
    BY <2>1 DEF Held
  <2>3. IsFiniteSet(Held(w))
    BY <1>6, <1>10, <2>2, FS_Subset
  <2>4. Orderly(w)
    BY <1>11, <2>1, <2>2 DEF Orderly
  <2>5. Scheduled(w, d.loaded)
    BY <1>9, <2>1 DEF Scheduled, New, Old
  <2>6. /\ Awaited(o, files) => Awaited(w, files)
        /\ Complete(o, files) => Complete(w, files)
    BY <2>1 DEF Awaited, Complete, Sorted
  <2> QED BY <1>5, <1>7, <1>12, <1>13, <2>1, <2>3, <2>4, <2>5, <2>6
<1> QED BY <1>14, <1>15 DEF w, v

\* A view that stops holds only what it shows.
LEMMA StoppedView ==
  ASSUME NEW v \in Views, IsFiniteSet(Held(v)), Orderly(v), NEW loaded, NEW files
  PROVE  LET w == Stop(v) IN
         /\ w \in Views /\ IsFiniteSet(Held(w)) /\ w.step = v.step
         /\ Orderly(w) /\ Scheduled(w, loaded) /\ Awaited(w, files)
<1> DEFINE w == Stop(v)
<1> SUFFICES /\ w \in Views /\ IsFiniteSet(Held(w)) /\ w.step = v.step
             /\ Orderly(w) /\ Scheduled(w, loaded) /\ Awaited(w, files)
  OBVIOUS
<1>1. /\ w \in Views /\ w.step = v.step /\ w.shown = v.shown /\ w.frozen = v.frozen
      /\ w.needsReload = v.needsReload /\ ~w.loading /\ ~w.display
      /\ w.newAdded = {} /\ w.newChanged = {} /\ w.nonReady = {} /\ w.oldAdded = {}
      /\ w.oldChanged = {}
  BY DEF Stop, Views
<1> HIDE DEF w
<1>2. Held(w) \subseteq Held(v)
  BY <1>1 DEF Held
<1>3. IsFiniteSet(Held(w))
  BY <1>2, FS_Subset
<1>4. Orderly(w)
  BY <1>1, <1>2 DEF Orderly
<1>5. Scheduled(w, loaded) /\ Awaited(w, files)
  BY <1>1 DEF Scheduled, Awaited, New, Old
<1> QED BY <1>1, <1>3, <1>4, <1>5

\* A view that is asked to load holds nothing, so all is well.
LEMMA ClearedView ==
  ASSUME NEW v \in Views, v.needsReload => v.frozen, NEW loaded, NEW files
  PROVE  LET w == Cleared(v) IN
         /\ w \in Views /\ IsFiniteSet(Held(w)) /\ w.step = "asked"
         /\ Orderly(w) /\ Scheduled(w, loaded) /\ Awaited(w, files) /\ Complete(w, files)
<1> DEFINE w == Cleared(v)
<1> SUFFICES /\ w \in Views /\ IsFiniteSet(Held(w)) /\ w.step = "asked"
             /\ Orderly(w) /\ Scheduled(w, loaded) /\ Awaited(w, files) /\ Complete(w, files)
  OBVIOUS
<1>1. Stop(v) \in Views /\ Stop(v).needsReload = v.needsReload /\ Stop(v).frozen = v.frozen
      /\ Stop(v).newAdded = {} /\ Stop(v).newChanged = {} /\ Stop(v).nonReady = {}
      /\ Stop(v).oldAdded = {} /\ Stop(v).oldChanged = {}
  BY DEF Stop, Views
<1>2. /\ w \in Views /\ w.step = "asked" /\ w.shown = {} /\ w.frozen = v.frozen
      /\ w.needsReload = v.needsReload
      /\ w.newAdded = {} /\ w.newChanged = {} /\ w.nonReady = {} /\ w.oldAdded = {}
      /\ w.oldChanged = {}
  BY <1>1 DEF Cleared, Views
<1> HIDE DEF w
<1>3. Held(w) = {} /\ IsFiniteSet(Held(w))
  BY <1>2, FS_EmptySet DEF Held
<1> QED BY <1>2, <1>3 DEF Orderly, Scheduled, Awaited, Complete

(***************************************************************************)
(* The idle callback of the directory.                                     *)
(***************************************************************************)
Taken(d, v, files) ==
  [n \in Names |-> IF n \in {m \in Names : d.pending[m] # "none"}
                   THEN TakeIn(v, files[n], n, d.pending[n]) ELSE files[n]]

Lost(d, v, files) == {n \in Names : d.loaded /\ Taken(d, v, files)[n].unconfirmed}

\* What the callback tells the view, and what it does not.
Added(d, files) == {m \in Names : d.pending[m] # "none"} \ Listed(files)

Updated(d, v, files, unchanged) ==
  {n \in {m \in Names : d.pending[m] # "none"} \ Added(d, files) :
     \/ Taken(d, v, files)[n].hidden # files[n].hidden
     \/ Taken(d, v, files)[n].lacks # files[n].lacks /\ n \notin unchanged}

Silent(d, v, files, unchanged) ==
  {n \in ({m \in Names : d.pending[m] # "none"} \ Added(d, files)) \ Updated(d, v, files, unchanged) :
     Taken(d, v, files)[n].lacks # files[n].lacks}

ToldChanged(d, v, files, unchanged) ==
  Objects(Taken(d, v, files), Updated(d, v, files, unchanged) \cup Lost(d, v, files))

ToldAdded(d, v, files) == Objects(Taken(d, v, files), Added(d, files))

After(d, v, files, unchanged) ==
  [n \in Names |-> IF n \in Lost(d, v, files) THEN NoFile
                   ELSE IF n \in Silent(d, v, files, unchanged)
                   THEN [Taken(d, v, files)[n] EXCEPT !.silent = TRUE]
                   ELSE Taken(d, v, files)[n]]

LEMMA TakenFacts ==
  ASSUME NEW d \in Dirs, NEW v, IsFiniteSet(Held(v)), NEW files \in [Names -> Records]
  PROVE  LET t == Taken(d, v, files) IN
         /\ t \in [Names -> Records]
         /\ \A n \in Names :
              /\ d.pending[n] = "none" => t[n] = files[n]
              /\ d.pending[n] # "none" => /\ n \in Listed(t) /\ ~t[n].unconfirmed
                                          /\ t[n].answer = "none"
              /\ n \in Listed(files) => /\ n \in Listed(t) /\ t[n].gen = files[n].gen
                                        /\ t[n].silent = files[n].silent
                                        /\ ~t[n].toggled =>
                                             ~files[n].toggled /\ t[n].hidden = files[n].hidden
              /\ n \notin Listed(files) => << n, t[n].gen >> \notin Held(v) \/ t[n] = NoFile
<1> DEFINE t == Taken(d, v, files)
<1> SUFFICES ASSUME NEW n \in Names
             PROVE
              /\ t[n] \in Records
              /\ d.pending[n] = "none" => t[n] = files[n]
              /\ d.pending[n] # "none" => /\ t[n] \in Known /\ ~t[n].unconfirmed
                                          /\ t[n].answer = "none"
              /\ n \in Listed(files) => /\ t[n] # NoFile /\ t[n].gen = files[n].gen
                                        /\ t[n].silent = files[n].silent
                                        /\ ~t[n].toggled =>
                                             ~files[n].toggled /\ t[n].hidden = files[n].hidden
              /\ n \notin Listed(files) => << n, t[n].gen >> \notin Held(v) \/ t[n] = NoFile
  <2>1. t = [n \in Names |-> t[n]]
    BY DEF Taken
  <2>2. t \in [Names -> Records]
    BY <2>1
  <2> HIDE DEF t
  <2> QED BY <2>2, NoFileFacts DEF Listed, t
<1> DEFINE f == files[n]
           a == d.pending[n]
<1>1. f \in Records /\ (n \in Listed(files) <=> f # NoFile)
  BY DEF Listed
<1>2. CASE a = "none"
  <2>1. t[n] = f
    BY <1>2 DEF Taken
  <2> HIDE DEF t, f, a
  <2> QED BY <1>1, <1>2, <2>1 DEF f, a
<1>3. CASE a # "none"
  <2>1. t[n] = TakeIn(v, f, n, a)
    BY <1>3 DEF Taken
  <2> HIDE DEF t, f, a
  <2>2. CASE f = NoFile
    <3> DEFINE lacks == IF n \in Links THEN "link" ELSE "nothing"
               hidden == a = "hidden"
    <3>1. t[n] = [NoFile EXCEPT !.gen = FreshGen(v, n), !.lacks = lacks, !.hidden = hidden]
      BY <2>1, <2>2 DEF TakeIn, NewFromInfo
    <3>2. FreshGen(v, n) \in Nat \ {0} /\ << n, FreshGen(v, n) >> \notin Held(v)
      BY FreshIsFree
    <3>3. lacks \in {"info", "link", "nothing"} /\ hidden \in BOOLEAN
      OBVIOUS
    <3> HIDE DEF lacks, hidden
    <3>4. t[n] \in AnyRecord /\ t[n].gen = FreshGen(v, n) /\ ~t[n].unconfirmed /\ t[n].answer = "none"
      BY <3>1, <3>2, <3>3, NoFileFacts DEF AnyRecord
    <3>5. t[n] \in Known
      BY <3>2, <3>4 DEF Known
    <3> QED BY <1>1, <1>3, <2>2, <3>2, <3>4, <3>5 DEF Records, f, a
  <2>3. CASE f # NoFile
    <3> DEFINE u == UpdateInfo(f, n, a)
    <3>1. f \in Known
      BY <1>1, <2>3 DEF Records
    <3>2. t[n] = [u EXCEPT !.unconfirmed = FALSE]
      BY <2>1, <2>3 DEF TakeIn
    <3>3. /\ u \in Known /\ u.gen = f.gen
          /\ u.answer = "none" /\ u.silent = f.silent
          /\ ~u.toggled => ~f.toggled /\ u.hidden = f.hidden
      BY <3>1, UpdateInfoFacts
    <3> HIDE DEF u
    <3>4. /\ t[n] \in Known /\ t[n].gen = u.gen /\ ~t[n].unconfirmed /\ t[n].answer = u.answer
          /\ t[n].silent = u.silent /\ t[n].toggled = u.toggled /\ t[n].hidden = u.hidden
      BY <3>2, <3>3 DEF Known, AnyRecord
    <3> QED BY <1>1, <1>3, <2>3, <3>3, <3>4, NoFileFacts DEF Records, f, a
  <2> QED BY <2>2, <2>3
<1> QED BY <1>2, <1>3

LEMMA AfterFacts ==
  ASSUME NEW d \in Dirs, NEW v, IsFiniteSet(Held(v)), NEW files \in [Names -> Records],
         NEW unchanged
  PROVE  LET g == After(d, v, files, unchanged)
             t == Taken(d, v, files)
         IN
         /\ g \in [Names -> Records]
         /\ \A n \in Names :
              /\ n \in Lost(d, v, files) => g[n] = NoFile
              /\ n \notin Lost(d, v, files) =>
                   /\ n \in Listed(g) <=> n \in Listed(t)
                   /\ g[n].gen = t[n].gen /\ g[n].unconfirmed = t[n].unconfirmed
                   /\ g[n].lacks = t[n].lacks /\ g[n].answer = t[n].answer
                   /\ g[n].hidden = t[n].hidden /\ g[n].toggled = t[n].toggled
                   /\ t[n].silent => g[n].silent
                   /\ n \in Silent(d, v, files, unchanged) => g[n].silent
<1> DEFINE g == After(d, v, files, unchanged)
           t == Taken(d, v, files)
           lost == Lost(d, v, files)
           silent == Silent(d, v, files, unchanged)
<1>1. /\ t \in [Names -> Records]
      /\ \A n \in Names : d.pending[n] # "none" => n \in Listed(t)
  BY TakenFacts
<1>2. g = [n \in Names |-> IF n \in lost THEN NoFile
                           ELSE IF n \in silent THEN [t[n] EXCEPT !.silent = TRUE] ELSE t[n]]
  BY DEF After
<1>3. \A n \in silent : n \in Names /\ d.pending[n] # "none"
  BY DEF Silent
<1> HIDE DEF g, t, lost, silent
<1>4. ASSUME NEW n \in Names
      PROVE   /\ g[n] \in Records
              /\ n \in lost => g[n] = NoFile
              /\ n \notin lost =>
                   /\ n \in Listed(g) <=> n \in Listed(t)
                   /\ g[n].gen = t[n].gen /\ g[n].unconfirmed = t[n].unconfirmed
                   /\ g[n].lacks = t[n].lacks /\ g[n].answer = t[n].answer
                   /\ g[n].hidden = t[n].hidden /\ g[n].toggled = t[n].toggled
                   /\ t[n].silent => g[n].silent
                   /\ n \in silent => g[n].silent
  <2>1. CASE n \in lost
    BY <1>2, <2>1, NoFileFacts
  <2>2. CASE n \notin lost /\ n \in silent
    <3>1. t[n] \in Known
      BY <1>1, <1>3, <2>2, RecordFacts
    <3>2. g[n] = [t[n] EXCEPT !.silent = TRUE]
      BY <1>2, <2>2
    <3>3. /\ g[n] \in Known /\ g[n].gen = t[n].gen /\ g[n].unconfirmed = t[n].unconfirmed
          /\ g[n].lacks = t[n].lacks /\ g[n].answer = t[n].answer
          /\ g[n].hidden = t[n].hidden /\ g[n].toggled = t[n].toggled /\ g[n].silent
      BY <3>1, <3>2 DEF Known, AnyRecord
    <3> QED BY <2>2, <3>1, <3>3, NoFileFacts DEF Listed, Records
  <2>3. CASE n \notin lost /\ n \notin silent
    <3>1. g[n] = t[n]
      BY <1>2, <2>3
    <3> QED BY <1>1, <2>3, <3>1 DEF Listed
  <2> QED BY <2>1, <2>2, <2>3
<1> QED BY <1>2, <1>4 DEF g, t, lost, silent

\* What becomes of the list.
LEMMA ListAfter ==
  ASSUME NEW d \in Dirs, NEW v, IsFiniteSet(Held(v)), NEW files \in [Names -> Records],
         NEW unchanged
  PROVE  LET g == After(d, v, files, unchanged) IN
         /\ g \in [Names -> Records]
         /\ \A n \in Names :
              /\ d.pending[n] # "none" => /\ n \in Listed(g) /\ ~g[n].unconfirmed
                                          /\ g[n].answer = "none"
              /\ d.pending[n] = "none" /\ d.loaded /\ files[n].unconfirmed => g[n] = NoFile
              /\ d.pending[n] = "none" /\ ~(d.loaded /\ files[n].unconfirmed) =>
                   /\ n \in Listed(g) <=> n \in Listed(files)
                   /\ g[n].unconfirmed = files[n].unconfirmed /\ g[n].answer = files[n].answer
              /\ d.loaded => ~g[n].unconfirmed
<1> DEFINE g == After(d, v, files, unchanged)
           t == Taken(d, v, files)
           lost == Lost(d, v, files)
<1>1. /\ t \in [Names -> Records]
      /\ \A n \in Names :
              /\ d.pending[n] = "none" => t[n] = files[n]
              /\ d.pending[n] # "none" => /\ n \in Listed(t) /\ ~t[n].unconfirmed
                                          /\ t[n].answer = "none"
              /\ n \in Listed(files) => /\ n \in Listed(t) /\ t[n].gen = files[n].gen
                                        /\ t[n].silent = files[n].silent
                                        /\ ~t[n].toggled =>
                                             ~files[n].toggled /\ t[n].hidden = files[n].hidden
              /\ n \notin Listed(files) => << n, t[n].gen >> \notin Held(v) \/ t[n] = NoFile
  BY TakenFacts
<1>2. /\ g \in [Names -> Records]
      /\ \A n \in Names :
              /\ n \in lost => g[n] = NoFile
              /\ n \notin lost =>
                   /\ n \in Listed(g) <=> n \in Listed(t)
                   /\ g[n].unconfirmed = t[n].unconfirmed /\ g[n].answer = t[n].answer
  BY AfterFacts
<1>3. lost = {n \in Names : d.loaded /\ t[n].unconfirmed}
  BY DEF Lost
<1> HIDE DEF g, t, lost
<1>4. ASSUME NEW n \in Names
      PROVE   /\ d.pending[n] # "none" => /\ n \in Listed(g) /\ ~g[n].unconfirmed
                                          /\ g[n].answer = "none"
              /\ d.pending[n] = "none" /\ d.loaded /\ files[n].unconfirmed => g[n] = NoFile
              /\ d.pending[n] = "none" /\ ~(d.loaded /\ files[n].unconfirmed) =>
                   /\ n \in Listed(g) <=> n \in Listed(files)
                   /\ g[n].unconfirmed = files[n].unconfirmed /\ g[n].answer = files[n].answer
              /\ d.loaded => ~g[n].unconfirmed
  <2>1. CASE d.pending[n] # "none"
    BY <1>1, <1>2, <1>3, <2>1
  <2>2. CASE d.pending[n] = "none"
    <3>1. t[n] = files[n]
      BY <1>1, <2>2
    <3>2. n \in Listed(t) <=> n \in Listed(files)
      BY <3>1 DEF Listed
    <3> QED BY <1>2, <1>3, <2>2, <3>1, <3>2, NoFileFacts
  <2> QED BY <2>1, <2>2
<1> QED BY <1>2, <1>4 DEF g

LEMMA DequeueReported ==
  ASSUME NEW d \in Dirs, NEW v \in Views, IsFiniteSet(Held(v)), NEW files \in [Names -> Records],
         NEW unchanged
  PROVE  LET g == After(d, v, files, unchanged)
             changed == ToldChanged(d, v, files, unchanged)
             added == ToldAdded(d, v, files) IN
         /\ changed \in SUBSET Objs /\ IsFiniteSet(changed)
         /\ added \in SUBSET Objs /\ IsFiniteSet(added)
         /\ Reported(v, files, g, changed, added)
         /\ Heard(v, files, g, changed)
<1> DEFINE g == After(d, v, files, unchanged)
           t == Taken(d, v, files)
           updated == Updated(d, v, files, unchanged)
           silent == Silent(d, v, files, unchanged)
           lost == Lost(d, v, files)
           new == Added(d, files)
           changed == ToldChanged(d, v, files, unchanged)
           added == ToldAdded(d, v, files)
<1>1. /\ t \in [Names -> Records]
      /\ \A n \in Names :
              /\ d.pending[n] = "none" => t[n] = files[n]
              /\ d.pending[n] # "none" => n \in Listed(t) /\ ~t[n].unconfirmed
              /\ n \in Listed(files) => /\ n \in Listed(t) /\ t[n].gen = files[n].gen
                                        /\ t[n].silent = files[n].silent
                                        /\ ~t[n].toggled =>
                                             ~files[n].toggled /\ t[n].hidden = files[n].hidden
              /\ n \notin Listed(files) => << n, t[n].gen >> \notin Held(v) \/ t[n] = NoFile
  BY TakenFacts
<1>2. /\ updated \subseteq Listed(t) /\ new \subseteq Listed(t)
      /\ new = {n \in Names : d.pending[n] # "none" /\ n \notin Listed(files)}
  BY <1>1 DEF Updated, Added
<1>3. lost = {n \in Names : d.loaded /\ t[n].unconfirmed}
  BY DEF Lost
<1>4. lost \subseteq Listed(t) /\ new \cap lost = {}
  BY <1>1, <1>2, <1>3, RecordFacts
<1>5. /\ g \in [Names -> Records]
      /\ \A n \in Names :
           /\ n \in lost => g[n] = NoFile
           /\ n \notin lost =>
                /\ n \in Listed(g) <=> n \in Listed(t)
                /\ g[n].gen = t[n].gen /\ g[n].lacks = t[n].lacks
                /\ g[n].hidden = t[n].hidden /\ g[n].toggled = t[n].toggled
                /\ t[n].silent => g[n].silent
                /\ n \in silent => g[n].silent
  BY AfterFacts
<1>6. changed = Objects(t, updated \cup lost) /\ added = Objects(t, new)
  BY DEF ToldChanged, ToldAdded
<1>8. \A n \in Names : d.pending[n] # "none" /\ n \notin new /\ t[n].lacks # files[n].lacks
                       => n \in updated \/ n \in silent
  BY DEF Updated, Silent
<1> HIDE DEF g, t, updated, silent, lost, new, changed, added
<1>10. /\ changed \in SUBSET Objs /\ IsFiniteSet(changed)
       /\ added \in SUBSET Objs /\ IsFiniteSet(added)
       /\ \A o \in Objs : o \in changed <=> o[1] \in updated \cup lost /\ t[o[1]].gen = o[2]
       /\ \A o \in Objs : o \in added <=> o[1] \in new /\ t[o[1]].gen = o[2]
  <2>1. updated \cup lost \in SUBSET Listed(t) /\ new \in SUBSET Listed(t)
    BY <1>2, <1>4
  <2> QED BY <1>1, <1>6, <2>1, ObjectsFacts
\* Of an object that v holds.
<1>12. ASSUME NEW o \in Held(v)
       PROVE  /\ IsGone(files, o) => IsGone(g, o)
              /\ IsGone(g, o) => IsGone(files, o) \/ o \in changed
              /\ ReadyToLoad(g, o) => \/ ReadyToLoad(files, o) /\ ~Unreported(files, o)
                                      \/ o \in changed \/ Unreported(g, o)
  <2> DEFINE n == o[1]
  <2>1. o \in Objs /\ n \in Names /\ o[2] \in Nat \ {0} /\ o = << n, o[2] >>
    BY HeldFacts DEF Objs
  <2>2. IsGone(files, o) <=> files[n].gen # o[2]
    BY DEF IsGone
  <2>3. IsGone(g, o) <=> g[n].gen # o[2]
    BY DEF IsGone
  <2>4. /\ ReadyToLoad(g, o) <=> IsGone(g, o) \/ g[n].lacks = "nothing"
        /\ Unreported(g, o) <=> ~IsGone(g, o) /\ g[n].silent
    BY DEF ReadyToLoad, Unreported
  <2>5. /\ ReadyToLoad(files, o) <=> IsGone(files, o) \/ files[n].lacks = "nothing"
        /\ Unreported(files, o) <=> ~IsGone(files, o) /\ files[n].silent
    BY DEF ReadyToLoad, Unreported
  <2> HIDE DEF n
  <2>6. CASE n \in Listed(files)
    <3>1. t[n].gen = files[n].gen
      BY <1>1, <2>1, <2>6
    <3>2. CASE n \in lost
      <4>1. g[n].gen = 0
        BY <1>5, <2>1, <3>2, NoFileFacts
      <4>2. ~IsGone(files, o) => o \in changed
        BY <1>10, <2>1, <2>2, <3>1, <3>2 DEF n
      <4> QED BY <2>1, <2>3, <2>4, <2>5, <4>1, <4>2
    <3>3. CASE n \notin lost
      <4>1. g[n].gen = t[n].gen /\ g[n].lacks = t[n].lacks
            /\ (t[n].silent => g[n].silent) /\ (n \in silent => g[n].silent)
        BY <1>5, <2>1, <3>3
      <4>2. IsGone(files, o) <=> IsGone(g, o)
        BY <2>2, <2>3, <3>1, <4>1
      <4>3. n \notin new
        BY <1>2, <2>6
      <4>4. ASSUME ReadyToLoad(g, o), ~(ReadyToLoad(files, o) /\ ~Unreported(files, o))
            PROVE  o \in changed \/ Unreported(g, o)
        <5>1. ~IsGone(files, o) /\ ~IsGone(g, o) /\ g[n].lacks = "nothing"
          BY <2>4, <2>5, <4>2, <4>4
        <5>2. CASE files[n].silent
          <6>1. t[n].silent
            BY <1>1, <2>1, <2>6, <5>2
          <6> QED BY <2>4, <4>1, <5>1, <6>1
        <5>3. CASE ~files[n].silent
          <6>1. files[n].lacks # "nothing"
            BY <2>5, <4>4, <5>1, <5>3
          <6>2. n \in updated \/ n \in silent
            BY <1>1, <1>8, <2>1, <4>1, <4>3, <5>1, <6>1
          <6>3. n \in updated => o \in changed
            BY <1>10, <2>1, <2>2, <3>1, <5>1 DEF n
          <6> QED BY <2>4, <4>1, <5>1, <6>2, <6>3
        <5> QED BY <5>2, <5>3
      <4> QED BY <2>1, <4>2, <4>4 DEF n
    <3> QED BY <3>2, <3>3
  <2>7. CASE n \notin Listed(files)
    <3>1. files[n].gen = 0
      BY <2>1, <2>7, RecordFacts
    <3>2. IsGone(files, o)
      BY <2>1, <2>2, <3>1
    <3>3. IsGone(g, o)
      <4>1. CASE n \in lost
        BY <1>5, <2>1, <2>3, <4>1, NoFileFacts
      <4>2. CASE n \notin lost
        <5>1. g[n].gen = t[n].gen /\ (<< n, t[n].gen >> \notin Held(v) \/ t[n] = NoFile)
          BY <1>1, <1>5, <2>1, <2>7, <4>2
        <5> QED BY <2>1, <2>3, <5>1, NoFileFacts DEF n
      <4> QED BY <4>1, <4>2
    <3> QED BY <2>1, <2>5, <3>2, <3>3 DEF n
  <2> QED BY <2>6, <2>7
<1>13. ASSUME NEW n \in Listed(g), ~g[n].toggled
       PROVE  \/ << n, g[n].gen >> \in added
              \/ /\ n \in Listed(files) /\ files[n].gen = g[n].gen
                 /\ ~files[n].toggled /\ files[n].hidden = g[n].hidden
  <2>1. n \in Names /\ n \notin lost
    BY <1>5 DEF Listed
  <2>2. g[n].gen = t[n].gen /\ g[n].hidden = t[n].hidden /\ g[n].toggled = t[n].toggled
        /\ n \in Listed(t)
    BY <1>5, <2>1
  <2>3. CASE n \in Listed(files)
    BY <1>1, <1>13, <2>1, <2>2, <2>3
  <2>4. CASE n \notin Listed(files)
    <3>1. d.pending[n] # "none"
      BY <1>1, <2>1, <2>2, <2>4 DEF Listed
    <3> QED BY <1>2, <1>6, <2>1, <2>2, <2>4, <3>1 DEF Objects
  <2> QED BY <2>3, <2>4
<1>14. ASSUME NEW o \in added
       PROVE  ~IsGone(g, o) /\ o \notin Held(v)
  <2>1. PICK n \in new : o = << n, t[n].gen >>
    BY <1>6 DEF Objects
  <2>2. n \in Names /\ n \notin Listed(files) /\ d.pending[n] # "none" /\ n \notin lost
    BY <1>2, <1>4, <2>1
  <2>3. g[n].gen = t[n].gen /\ t[n] # NoFile
    BY <1>1, <1>5, <2>2 DEF Listed
  <2>4. ~IsGone(g, o)
    BY <2>1, <2>3 DEF IsGone
  <2>5. o \notin Held(v)
    BY <1>1, <2>1, <2>2, <2>3
  <2> QED BY <2>4, <2>5
<1>15. Reported(v, files, g, changed, added)
  BY <1>12, <1>13, <1>14 DEF Reported
<1>16. Heard(v, files, g, changed)
  BY <1>12 DEF Heard
<1> QED BY <1>10, <1>15, <1>16 DEF g, changed, added

LEMMA DequeueIs ==
  ASSUME NEW d \in Dirs, NEW v, NEW files, NEW unchanged
  PROVE  LET r == Dequeue(d, v, files, unchanged)
             told == FilesAdded(FilesChanged(v, d, ToldChanged(d, v, files, unchanged)), d,
                                ToldAdded(d, v, files))
         IN  /\ ~d.monitored => r.file = files /\ r.view = v
             /\ d.monitored => /\ r.file = After(d, v, files, unchanged)
                               /\ r.view = IF d.loaded /\ ~d.sent THEN DoneLoading(told, r.file)
                                           ELSE told
             /\ r = [dir |-> r.dir, file |-> r.file, view |-> r.view]
             /\ r.dir \in Dirs /\ r.dir.pending = NoInfos
             /\ r.dir.monitored = d.monitored /\ r.dir.loaded = d.loaded /\ r.dir.load = d.load
             /\ r.dir.unread = d.unread /\ r.dir.queries = d.queries /\ r.dir.other = d.other
             /\ r.dir.batch = d.batch /\ r.dir.answers = d.answers
<1> DEFINE r == Dequeue(d, v, files, unchanged)
           told == FilesAdded(FilesChanged(v, d, ToldChanged(d, v, files, unchanged)), d,
                              ToldAdded(d, v, files))
           drained == [d EXCEPT !.pending = NoInfos, !.idle = FALSE]
           sent == [drained EXCEPT !.sent = drained.sent \/ (d.loaded /\ ~d.sent)]
           after == After(d, v, files, unchanged)
           shown == IF d.loaded /\ ~d.sent THEN DoneLoading(told, after) ELSE told
<1>1. NoInfos \in Infos
  BY DEF NoInfos, Infos
<1>2. drained \in Dirs /\ drained.pending = NoInfos
      /\ drained.monitored = d.monitored /\ drained.loaded = d.loaded /\ drained.load = d.load
      /\ drained.unread = d.unread /\ drained.queries = d.queries /\ drained.other = d.other
      /\ drained.batch = d.batch /\ drained.answers = d.answers
  BY <1>1 DEF Dirs
<1> HIDE DEF drained
<1>3. sent \in Dirs /\ sent.pending = NoInfos
      /\ sent.monitored = d.monitored /\ sent.loaded = d.loaded /\ sent.load = d.load
      /\ sent.unread = d.unread /\ sent.queries = d.queries /\ sent.other = d.other
      /\ sent.batch = d.batch /\ sent.answers = d.answers
  <2>1. drained.sent \in BOOLEAN /\ d.loaded \in BOOLEAN /\ d.sent \in BOOLEAN
    BY <1>2 DEF Dirs
  <2> QED BY <1>2, <2>1 DEF Dirs
<1>4. CASE ~d.monitored
  <2>1. r = [dir |-> drained, file |-> files, view |-> v]
    BY <1>4 DEF Dequeue, drained
  <2> HIDE DEF r
  <2> QED BY <1>2, <1>4, <2>1 DEF r
<1>5. CASE d.monitored
  <2>1. r = [dir |-> sent, file |-> after, view |-> shown]
    BY <1>5 DEF Dequeue, drained, After, Lost, Taken, ToldChanged, ToldAdded, Updated, Silent,
       Added
  <2> HIDE DEF r, sent, shown, told, after
  <2>2. /\ r.dir = sent /\ r.file = after /\ r.view = shown
        /\ r = [dir |-> r.dir, file |-> r.file, view |-> r.view]
    BY <2>1
  <2> QED BY <1>3, <1>5, <2>2 DEF r, shown, told, after
<1> QED BY <1>4, <1>5

LEMMA DequeueInv ==
  ASSUME NEW d \in Dirs, NEW v \in Views, IsFiniteSet(Held(v)), NEW files \in [Names -> Records],
         NEW unchanged, Orderly(v)
  PROVE  LET r == Dequeue(d, v, files, unchanged)
         IN  /\ r.file \in [Names -> Records] /\ r.view \in Views /\ IsFiniteSet(Held(r.view))
             /\ Orderly(r.view)
             /\ Scheduled(v, d.loaded) \/ (d.monitored /\ d.loaded /\ ~d.sent)
                  => Scheduled(r.view, d.loaded)
             /\ Awaited(v, files) => Awaited(r.view, r.file)
             /\ Complete(v, files) => Complete(r.view, r.file)
<1> DEFINE r == Dequeue(d, v, files, unchanged)
           changed == ToldChanged(d, v, files, unchanged)
           added == ToldAdded(d, v, files)
           half == FilesChanged(v, d, changed)
           told == FilesAdded(half, d, added)
           g == After(d, v, files, unchanged)
<1> SUFFICES /\ r.file \in [Names -> Records] /\ r.view \in Views /\ IsFiniteSet(Held(r.view))
             /\ Orderly(r.view)
             /\ Scheduled(v, d.loaded) \/ (d.monitored /\ d.loaded /\ ~d.sent)
                  => Scheduled(r.view, d.loaded)
             /\ Awaited(v, files) => Awaited(r.view, r.file)
             /\ Complete(v, files) => Complete(r.view, r.file)
  OBVIOUS
<1>1. /\ ~d.monitored => r.file = files /\ r.view = v
      /\ d.monitored => /\ r.file = g
                        /\ r.view = IF d.loaded /\ ~d.sent THEN DoneLoading(told, r.file) ELSE told
  BY DequeueIs
<1>2. d.loaded \in BOOLEAN
  BY DEF Dirs
<1>3. /\ changed \in SUBSET Objs /\ IsFiniteSet(changed)
      /\ added \in SUBSET Objs /\ IsFiniteSet(added)
      /\ Reported(v, files, g, changed, added)
      /\ Heard(v, files, g, changed)
  BY DequeueReported
<1>4. g \in [Names -> Records]
  BY AfterFacts
<1> HIDE DEF changed, added, g
<1>5. Told(v, half, d.loaded, changed, {})
  BY <1>2, <1>3, ChangedTold
<1>6. half \in Views /\ IsFiniteSet(Held(half))
  BY <1>5 DEF Told
<1> HIDE DEF half
<1>7. Told(half, told, d.loaded, {}, added)
  BY <1>2, <1>3, <1>6, AddedTold
<1> HIDE DEF told
<1>8. Told(v, told, d.loaded, changed, added)
  BY <1>5, <1>7, BothTold
<1>9. told \in Views /\ IsFiniteSet(Held(told))
  BY <1>8 DEF Told
<1>10. Orderly(told) /\ (Scheduled(v, d.loaded) => Scheduled(told, d.loaded))
  <2>1. \A o \in added : o \notin Held(v)
    BY <1>3 DEF Reported
  <2> QED BY <1>8, <2>1, ToldOrderly
<1>11. Awaited(v, files) => Awaited(told, g)
  BY <1>3, <1>8, ToldAwaited
<1>12. Complete(v, files) => Complete(told, g)
  BY <1>3, <1>8, ToldComplete
<1> HIDE DEF r
<1>13. CASE ~d.monitored
  BY <1>1, <1>13
<1>14. CASE d.monitored /\ d.loaded /\ ~d.sent
  <2>1. r.file = g /\ r.view = DoneLoading(told, g)
    BY <1>1, <1>14
  <2>2. /\ r.view \in Views /\ IsFiniteSet(Held(r.view)) /\ Orderly(r.view)
        /\ Scheduled(r.view, d.loaded)
        /\ Awaited(told, g) => Awaited(r.view, g)
        /\ Complete(told, g) => Complete(r.view, g)
    BY <1>4, <1>9, <1>10, <2>1, DoneLoadingInv
  <2> QED BY <1>4, <1>11, <1>12, <2>1, <2>2
<1>15. CASE d.monitored /\ ~(d.loaded /\ ~d.sent)
  <2>1. r.file = g /\ r.view = told
    BY <1>1, <1>15
  <2> QED BY <1>4, <1>9, <1>10, <1>11, <1>12, <1>15, <2>1
<1> QED BY <1>13, <1>14, <1>15

(***************************************************************************)
(* The steps of the folder and of the view: types, and what a view holds.  *)
(***************************************************************************)
\* The handlers are not told, and nothing becomes ready, is hidden or shown again.
LEMMA NothingToldInv ==
  ASSUME Types, ViewInv, view' = view, file' \in [Names -> Records],
         \A n \in Names :
           /\ file'[n].gen = file[n].gen /\ file'[n].hidden = file[n].hidden
           /\ file'[n].toggled = file[n].toggled
           /\ file'[n].lacks = "nothing" =>
                file[n].lacks = "nothing" /\ (file[n].silent => file'[n].silent),
         dir'.loaded => dir.loaded, past'.stopped = past.stopped
  PROVE  ViewInv'
<1>1. view \in Views /\ file \in [Names -> Records]
  BY DEF Types
<1>2. \A o \in Held(view) :
        /\ IsGone(file', o) <=> IsGone(file, o)
        /\ ReadyToLoad(file', o) => /\ ReadyToLoad(file, o)
                                    /\ Unreported(file, o) => Unreported(file', o)
  <2> SUFFICES ASSUME NEW o \in Held(view)
               PROVE
        /\ IsGone(file', o) <=> IsGone(file, o)
        /\ ReadyToLoad(file', o) => /\ ReadyToLoad(file, o)
                                    /\ Unreported(file, o) => Unreported(file', o)
    OBVIOUS
  <2>1. o[1] \in Names
    BY <1>1, HeldFacts DEF Objs
  <2> QED BY <2>1 DEF IsGone, ReadyToLoad, Unreported
<1>3. Listed(file') = Listed(file)
  <2>1. Listed(file') \subseteq Names /\ Listed(file) \subseteq Names
    BY DEF Listed
  <2>2. \A n \in Names : n \in Listed(file) <=> file[n].gen \in Nat \ {0}
    BY <1>1, RecordFacts
  <2>3. \A n \in Names : n \in Listed(file') <=> file'[n].gen \in Nat \ {0}
    BY RecordFacts
  <2> QED BY <2>1, <2>2, <2>3
<1>4. Awaited(view, file')
  <2>1. view.nonReady \subseteq Held(view)
    BY <1>1, HeldFacts
  <2> QED BY <1>2, <2>1 DEF ViewInv, Awaited
<1>5. Complete(view, file) => Complete(view, file')
  <2>1. view.newAdded \cup view.nonReady \cup view.oldAdded \cup view.shown \subseteq Held(view)
    BY <1>1, HeldFacts
  <2>2. \A n \in Listed(file) : n \in Names
    BY DEF Listed
  <2>3. \A n \in Listed(file) : Sorted(view, file, n) <=> Sorted(view, file', n)
    BY <2>2 DEF Sorted
  <2> QED BY <1>2, <1>3, <2>1, <2>2, <2>3 DEF Complete
<1>6. Scheduled(view, dir'.loaded)
  BY DEF ViewInv, Scheduled
<1> QED BY <1>4, <1>5, <1>6 DEF ViewInv

\* The view holds nothing.
LEMMA AskedInv ==
  ASSUME view' \in Views, Orderly(view'), view'.step = "asked"
  PROVE  ViewInv'
<1>1. view'.nonReady = {}
  BY DEF Orderly, Held
<1> QED BY <1>1 DEF ViewInv, Scheduled, Awaited, Complete

\* A notification comes after those that are on their way.
LEMMA NotifiedFacts ==
  ASSUME Types, NEW kind \in {"added", "removed", "changed"}, NEW n \in Names, Notified(kind, n)
  PROVE  /\ events' \in Seq(Events)
         /\ \A i \in DOMAIN events : i \in DOMAIN events' /\ events'[i] = events[i]
         /\ ~dir.monitored => events' = events
         /\ dir.monitored =>
              \E j \in DOMAIN events' :
                /\ events'[j].kind = kind /\ events'[j].name = n
                /\ \A i \in DOMAIN events : i < j
                /\ \A i \in DOMAIN events' : i \in DOMAIN events \/ i = j
<1> DEFINE e == [kind |-> kind, name |-> n]
<1>1. events \in Seq(Events) /\ e \in Events /\ e.kind = kind /\ e.name = n
  BY DEF Types, Events
<1>2. events' = IF dir.monitored THEN Append(events, e) ELSE events
  BY DEF Notified
<1> HIDE DEF e
<1>3. CASE ~dir.monitored
  BY <1>1, <1>2, <1>3
<1>4. CASE dir.monitored
  <2>1. /\ events' \in Seq(Events) /\ Len(events') = Len(events) + 1
        /\ \A i \in 1 .. Len(events) : events'[i] = events[i]
        /\ events'[Len(events) + 1] = e
    BY <1>1, <1>2, <1>4, AppendProperties
  <2>2. /\ DOMAIN events = 1 .. Len(events) /\ DOMAIN events' = 1 .. Len(events')
        /\ Len(events) \in Nat
    BY <1>1, <2>1, LenProperties
  <2> DEFINE j == Len(events) + 1
  <2>3. j \in DOMAIN events' /\ events'[j].kind = kind /\ events'[j].name = n
    BY <1>1, <2>1, <2>2
  <2>4. \A i \in DOMAIN events : i < j
    BY <2>2
  <2>5. \A i \in DOMAIN events' : i \in DOMAIN events \/ i = j
    BY <2>1, <2>2
  <2>6. \A i \in DOMAIN events : i \in DOMAIN events' /\ events'[i] = events[i]
    BY <2>1, <2>2
  <2> QED BY <1>4, <2>1, <2>3, <2>4, <2>5, <2>6
<1> QED BY <1>3, <1>4

\* What the world does to a file.
LEMMA AppearTypes ==
  ASSUME Types, ViewInv, NEW n \in Names, Appear(n)
  PROVE  Types' /\ ViewInv'
<1>1. PICK attribute \in {"plain"} \cup (Uses \cap {"hidden"}) :
        disk' = [disk EXCEPT ![n] = attribute]
  BY DEF Appear
<1>2. UNCHANGED << file, view, past >> /\ Notified("added", n)
  BY DEF Appear
<1>3. PICK names \in SUBSET Names : dir' = [dir EXCEPT !.unread = names]
  <2>1. PICK seen \in BOOLEAN : dir' = [dir EXCEPT !.unread = IF seen THEN dir.unread \cup {n} ELSE dir.unread]
    BY DEF Appear
  <2>2. dir.unread \subseteq Names
    BY DEF Types, Dirs
  <2> QED BY <2>1, <2>2
<1>4. disk' \in Infos
  BY <1>1 DEF Types, Infos, Attributes
<1>5. events' \in Seq(Events)
  BY <1>2, NotifiedFacts
<1>6. dir' \in Dirs /\ dir'.loaded = dir.loaded
  BY <1>3 DEF Types, Dirs
<1>7. Types'
  BY <1>2, <1>4, <1>5, <1>6 DEF Types
<1> QED BY <1>2, <1>6, <1>7, NothingToldInv DEF Types

LEMMA OvertakenFacts ==
  ASSUME Types, NEW n \in Names, Overtaken(n)
  PROVE  /\ past' \in Pasts /\ past'.stopped = past.stopped /\ past'.failed = past.failed
         /\ past'.late = past.late /\ past.overtaken \subseteq past'.overtaken
         /\ Underway(n) => n \in past'.overtaken
<1> DEFINE names == IF Underway(n) THEN past.overtaken \cup {n} ELSE past.overtaken
<1>1. past' = [past EXCEPT !.overtaken = names]
  BY DEF Overtaken
<1>2. past \in Pasts
  BY DEF Types
<1>3. names \in SUBSET Names /\ past.overtaken \subseteq names /\ (Underway(n) => n \in names)
  BY <1>2 DEF Pasts
<1> HIDE DEF names
<1>4. /\ past' \in Pasts /\ past'.stopped = past.stopped /\ past'.failed = past.failed
      /\ past'.late = past.late /\ past'.overtaken = names
  BY <1>1, <1>2, <1>3 DEF Pasts
<1> QED BY <1>3, <1>4

LEMMA VanishTypes ==
  ASSUME Types, ViewInv, NEW n \in Names, Vanish(n)
  PROVE  Types' /\ ViewInv'
<1>1. /\ disk' = [disk EXCEPT ![n] = "none"] /\ UNCHANGED << file, view >>
      /\ dir' = [dir EXCEPT !.unread = dir.unread \ {n}]
      /\ Notified("removed", n)
      /\ UNCHANGED past \/ Overtaken(n)
  BY DEF Vanish
<1>2. past' \in Pasts /\ past'.stopped = past.stopped
  BY <1>1, OvertakenFacts DEF Types
<1>3. disk' \in Infos
  BY <1>1 DEF Types, Infos
<1>4. events' \in Seq(Events)
  BY <1>1, NotifiedFacts
<1>5. dir' \in Dirs /\ dir'.loaded = dir.loaded
  BY <1>1 DEF Types, Dirs
<1>6. Types'
  BY <1>1, <1>2, <1>3, <1>4, <1>5 DEF Types
<1> QED BY <1>1, <1>2, <1>5, <1>6, NothingToldInv DEF Types

LEMMA ChangeTypes ==
  ASSUME Types, ViewInv, NEW n \in Names, Change(n)
  PROVE  Types' /\ ViewInv'
<1>1. UNCHANGED << dir, file, view, past >> /\ Notified("changed", n)
  BY DEF Change
<1>2. PICK attribute \in {"plain"} \cup (Uses \cap {"hidden"}) :
        disk' = [disk EXCEPT ![n] = attribute]
  BY DEF Change
<1>3. disk' \in Infos
  BY <1>2 DEF Types, Infos, Attributes
<1>4. events' \in Seq(Events)
  BY <1>1, NotifiedFacts
<1>5. Types'
  BY <1>1, <1>3, <1>4 DEF Types
<1> QED BY <1>1, <1>5, NothingToldInv DEF Types

\* The view is told that the file of n has changed, if there is one.
LEMMA OneChangedInv ==
  ASSUME Types, ViewInv, NEW n \in Names, NEW x \in Records,
         \/ x = NoFile
         \/ x.gen = file[n].gen /\ (~x.toggled => ~file[n].toggled /\ x.hidden = file[n].hidden),
         file' = [file EXCEPT ![n] = x],
         view' = FilesChanged(view, dir, Objects(file, {n} \cap Listed(file))),
         dir' = dir, past'.stopped = past.stopped
  PROVE  /\ file' \in [Names -> Records] /\ view' \in Views /\ IsFiniteSet(Held(view'))
         /\ ViewInv'
<1> DEFINE names == {n} \cap Listed(file)
           changed == Objects(file, names)
<1>1. /\ file \in [Names -> Records] /\ view \in Views /\ IsFiniteSet(Held(view))
      /\ dir.loaded \in BOOLEAN
  BY DEF Types, Dirs
<1>2. file' \in [Names -> Records] /\ file'[n] = x /\ \A m \in Names : m # n => file'[m] = file[m]
  BY <1>1
<1>3. /\ changed \in SUBSET Objs /\ IsFiniteSet(changed)
      /\ \A o \in Objs : o \in changed <=> o[1] \in names /\ file[o[1]].gen = o[2]
  BY <1>1, ObjectsFacts
<1>4. view' = FilesChanged(view, dir, changed)
  OBVIOUS
<1> HIDE DEF changed
<1>5. Told(view, view', dir.loaded, changed, {})
  BY <1>1, <1>3, <1>4, ChangedTold
<1>6. view' \in Views /\ IsFiniteSet(Held(view'))
  BY <1>5 DEF Told
<1>7. Orderly(view') /\ Scheduled(view', dir.loaded)
  BY <1>1, <1>5, ToldOrderly DEF ViewInv
<1>8. ASSUME NEW o \in Held(view)
      PROVE  /\ IsGone(file, o) => IsGone(file', o)
             /\ IsGone(file', o) => IsGone(file, o) \/ o \in changed
             /\ ReadyToLoad(file', o) => \/ ReadyToLoad(file, o) /\ ~Unreported(file, o)
                                         \/ o \in changed \/ Unreported(file', o)
  <2>1. o \in Objs /\ o[1] \in Names /\ o[2] \in Nat \ {0}
    BY <1>1, HeldFacts DEF Objs
  <2>2. CASE o[1] # n
    BY <1>2, <2>1, <2>2 DEF IsGone, ReadyToLoad, Unreported
  <2>3. CASE o[1] = n /\ ~IsGone(file, o)
    <3>1. file[n].gen = o[2] /\ file[n].gen # 0
      BY <2>1, <2>3 DEF IsGone
    <3>2. n \in Listed(file)
      BY <1>1, <3>1, RecordFacts
    <3> QED BY <1>3, <2>1, <2>3, <3>1, <3>2
  <2>4. CASE o[1] = n /\ IsGone(file, o)
    <3>1. IsGone(file', o)
      BY <1>2, <2>1, <2>4, NoFileFacts DEF IsGone
    <3> QED BY <2>4, <3>1 DEF ReadyToLoad, Unreported
  <2> QED BY <2>2, <2>3, <2>4
<1>9. ASSUME NEW m \in Listed(file'), ~file'[m].toggled
      PROVE  /\ m \in Listed(file) /\ file[m].gen = file'[m].gen
             /\ ~file[m].toggled /\ file[m].hidden = file'[m].hidden
  <2>1. m \in Names /\ file'[m] # NoFile
    BY DEF Listed
  <2>2. CASE m = n
    <3>1. x # NoFile /\ x.gen # 0
      BY <1>2, <2>1, <2>2, RecordFacts
    <3>2. n \in Listed(file)
      BY <1>1, <3>1, RecordFacts
    <3> QED BY <1>2, <1>9, <2>2, <3>1, <3>2
  <2>3. CASE m # n
    BY <1>2, <1>9, <2>1, <2>3 DEF Listed
  <2> QED BY <2>2, <2>3
<1>10. Reported(view, file, file', changed, {}) /\ Heard(view, file, file', changed)
  BY <1>8, <1>9 DEF Reported, Heard
<1>11. Awaited(view', file')
  BY <1>1, <1>5, <1>10, ToldAwaited DEF ViewInv
<1>12. Complete(view, file) => Complete(view', file')
  BY <1>1, <1>5, <1>10, ToldComplete
<1> QED BY <1>2, <1>6, <1>7, <1>11, <1>12 DEF ViewInv

\* The first notification is taken from the queue.
LEMMA TakenFromQueue ==
  ASSUME Types, events # << >>, events' = Tail(events)
  PROVE  /\ events' \in Seq(Events) /\ Head(events) \in Events
         /\ 1 \in DOMAIN events /\ Head(events) = events[1]
         /\ \A i \in DOMAIN events' :
              i \in Nat /\ i + 1 \in DOMAIN events /\ events'[i] = events[i + 1]
         /\ \A i \in DOMAIN events :
              i \in Nat /\ (i # 1 => i - 1 \in DOMAIN events' /\ events'[i - 1] = events[i])
<1>1. events \in Seq(Events)
  BY DEF Types
<1>2. /\ events' \in Seq(Events) /\ Head(events) \in Events /\ Len(events') = Len(events) - 1
      /\ \A i \in 1 .. Len(events') : events'[i] = events[i + 1]
  BY <1>1, HeadTailProperties
<1>3. /\ DOMAIN events = 1 .. Len(events) /\ DOMAIN events' = 1 .. Len(events')
      /\ Len(events) \in Nat /\ Len(events) # 0
  BY <1>1, <1>2, LenProperties, EmptySeq
<1>4. Head(events) = events[1]
  BY <1>1
<1>5. \A i \in DOMAIN events : i # 1 => i - 1 \in DOMAIN events' /\ events'[i - 1] = events[i]
  <2> SUFFICES ASSUME NEW i \in 1 .. Len(events), i # 1
               PROVE  i - 1 \in 1 .. Len(events') /\ events'[i - 1] = events[i]
    BY <1>3
  <2>1. i - 1 \in 1 .. Len(events')
    BY <1>2, <1>3
  <2>2. events'[i - 1] = events[(i - 1) + 1]
    BY <1>2, <2>1
  <2> QED BY <1>3, <2>1, <2>2
<1> QED BY <1>2, <1>3, <1>4, <1>5

LEMMA NotifyTypes ==
  ASSUME Types, ViewInv, Notify
  PROVE  Types' /\ ViewInv'
<1> DEFINE e == Head(events)
           n == e.name
<1>1. events # << >> /\ events' = Tail(events) /\ UNCHANGED << disk, changes >>
  BY DEF Notify
<1>2. events' \in Seq(Events) /\ n \in Names
  BY <1>1, TakenFromQueue DEF Events
<1>3. \/ NotifyAdded(n)
      \/ NotifyRemoved(n)
      \/ NotifyChanged(n) /\ n \in Listed(file)
      \/ UNCHANGED << dir, file, view, past >>
  BY DEF Notify, Concerns
<1> HIDE DEF n
<1>4. file \in [Names -> Records] /\ dir \in Dirs /\ past \in Pasts
  BY DEF Types
<1>5. CASE NotifyAdded(n) /\ n \in Listed(file)
  <2>1. /\ UNCHANGED << dir, file, past >>
        /\ view' = FilesChanged(view, dir, Objects(file, {n}))
    BY <1>5 DEF NotifyAdded
  <2>2. {n} = {n} \cap Listed(file) /\ file' = [file EXCEPT ![n] = file[n]] /\ file[n] \in Records
    BY <1>2, <1>4, <1>5, <2>1
  <2>3. ViewInv' /\ view' \in Views /\ IsFiniteSet(Held(view'))
    BY <1>2, <2>1, <2>2, OneChangedInv
  <2> QED BY <1>1, <1>2, <2>1, <2>3 DEF Types
<1>6. CASE NotifyAdded(n) /\ n \notin Listed(file)
  <2>1. /\ dir' = [dir EXCEPT !.queries = [dir.queries EXCEPT ![n] = dir.queries[n] + 2]]
        /\ UNCHANGED << file, view, past >>
    BY <1>6 DEF NotifyAdded
  <2>2. dir.queries \in [Names -> Nat]
    BY <1>4 DEF Dirs
  <2>3. [dir.queries EXCEPT ![n] = dir.queries[n] + 2] \in [Names -> Nat]
    BY <1>2, <2>2
  <2>4. dir' \in Dirs /\ dir'.loaded = dir.loaded
    BY <1>4, <2>1, <2>3 DEF Dirs
  <2>5. ViewInv'
    BY <1>4, <2>1, <2>4, NothingToldInv
  <2> QED BY <1>1, <1>2, <2>1, <2>4, <2>5 DEF Types
<1>7. CASE NotifyRemoved(n)
  <2>1. /\ file' = [file EXCEPT ![n] = NoFile] /\ UNCHANGED dir
        /\ view' = FilesChanged(view, dir, Objects(file, {n} \cap Listed(file)))
        /\ Overtaken(n)
    BY <1>7 DEF NotifyRemoved
  <2>2. past' \in Pasts /\ past'.stopped = past.stopped
    BY <1>2, <2>1, OvertakenFacts
  <2>3. ViewInv' /\ view' \in Views /\ IsFiniteSet(Held(view')) /\ file' \in [Names -> Records]
    BY <1>2, <2>1, <2>2, NoFileFacts, OneChangedInv
  <2> QED BY <1>1, <1>2, <2>1, <2>2, <2>3 DEF Types
<1>8. CASE NotifyChanged(n) /\ n \in Listed(file)
  <2> DEFINE x == Invalid(file[n])
  <2>1. /\ file' = [file EXCEPT ![n] = x] /\ UNCHANGED << dir, past >>
        /\ view' = FilesChanged(view, dir, Objects(file, {n}))
    BY <1>8 DEF NotifyChanged
  <2>2. {n} = {n} \cap Listed(file)
    BY <1>8
  <2>3. /\ x \in Records /\ x.gen = file[n].gen /\ x.hidden = file[n].hidden
        /\ x.toggled = file[n].toggled
    BY <1>2, <1>4, InvalidFacts
  <2> HIDE DEF x
  <2>4. ViewInv' /\ view' \in Views /\ IsFiniteSet(Held(view')) /\ file' \in [Names -> Records]
    BY <1>2, <2>1, <2>2, <2>3, OneChangedInv
  <2> QED BY <1>1, <1>2, <2>1, <2>4 DEF Types
<1>9. CASE UNCHANGED << dir, file, view, past >>
  <2>1. ViewInv'
    BY <1>4, <1>9, NothingToldInv
  <2> QED BY <1>1, <1>2, <1>9, <2>1 DEF Types
<1> QED BY <1>3, <1>5, <1>6, <1>7, <1>8, <1>9

LEMMA NoInfosFacts ==
  /\ NoInfos \in Infos /\ \A n \in Names : NoInfos[n] = "none"
  /\ \A infos \in Infos : infos = NoInfos <=> \A n \in Names : infos[n] = "none"
BY DEF NoInfos, Infos

LEMMA LoadOneFacts ==
  ASSUME NEW d \in Dirs, NEW infos \in Infos
  PROVE  LET e == LoadOne(d, infos) IN
         /\ e \in Dirs /\ e.monitored = d.monitored /\ e.other = d.other /\ e.loaded = d.loaded
         /\ e.load = d.load /\ e.unread = d.unread /\ e.queries = d.queries
         /\ e.batch = d.batch /\ e.answers = d.answers /\ e.idle
         /\ \A n \in Names : e.pending[n] = IF infos[n] # "none" THEN infos[n] ELSE d.pending[n]
<1> DEFINE p == [n \in Names |-> IF infos[n] # "none" THEN infos[n] ELSE d.pending[n]]
           e == LoadOne(d, infos)
<1>1. d.pending \in Infos
  BY DEF Dirs
<1>2. p \in Infos
  BY <1>1 DEF Infos
<1>3. \A n \in Names : p[n] = IF infos[n] # "none" THEN infos[n] ELSE d.pending[n]
  OBVIOUS
<1>4. e = [d EXCEPT !.pending = p, !.idle = TRUE]
  BY DEF LoadOne
<1> HIDE DEF p
<1> SUFFICES
         /\ e \in Dirs /\ e.monitored = d.monitored /\ e.other = d.other /\ e.loaded = d.loaded
         /\ e.load = d.load /\ e.unread = d.unread /\ e.queries = d.queries
         /\ e.batch = d.batch /\ e.answers = d.answers /\ e.idle
         /\ \A n \in Names : e.pending[n] = IF infos[n] # "none" THEN infos[n] ELSE d.pending[n]
  OBVIOUS
<1> HIDE DEF e
<1>5. /\ e \in Dirs /\ e.monitored = d.monitored /\ e.other = d.other /\ e.loaded = d.loaded
      /\ e.load = d.load /\ e.unread = d.unread /\ e.queries = d.queries
      /\ e.batch = d.batch /\ e.answers = d.answers /\ e.idle
      /\ e.pending = p
  BY <1>2, <1>4 DEF Dirs
<1> QED BY <1>3, <1>5

\* GIO has answered the query of a new file.
LEMMA QueryNewFileFacts ==
  ASSUME Types, NEW n \in Names, QueryNewFile(n)
  PROVE  /\ dir' \in Dirs /\ dir'.monitored = dir.monitored /\ dir'.other = dir.other
         /\ dir'.loaded = dir.loaded /\ dir'.load = dir.load /\ dir'.unread = dir.unread
         /\ dir'.idle = dir.idle /\ dir'.batch = dir.batch /\ dir'.pending = dir.pending
         /\ \A m \in Names : m # n => dir'.queries[m] = dir.queries[m]
         /\ \A m \in Names, a \in Attributes :
              dir'.answers[m][a] = IF m = n /\ a = disk[n] THEN dir.answers[m][a] + 1
                                   ELSE dir.answers[m][a]
         /\ UNCHANGED << disk, events, file, view, past >>
<1> DEFINE q == [dir.queries EXCEPT ![n] = dir.queries[n] - 1]
           read == [dir EXCEPT !.queries = q]
           more == [dir.answers[n] EXCEPT ![disk[n]] = dir.answers[n][disk[n]] + 1]
           all == [dir.answers EXCEPT ![n] = more]
<1>1. disk \in Infos /\ dir \in Dirs /\ dir.queries \in [Names -> Nat] /\ dir.queries[n] > 0
      /\ dir.answers \in [Names -> [Attributes -> Nat]]
  BY DEF Types, Dirs, QueryNewFile
<1>2. q \in [Names -> Nat] /\ \A m \in Names : m # n => q[m] = dir.queries[m]
  BY <1>1
<1>3. dir' = IF n \in Present THEN [read EXCEPT !.answers = [read.answers EXCEPT
                     ![n] = [read.answers[n] EXCEPT ![disk[n]] = read.answers[n][disk[n]] + 1]]]
             ELSE read
  BY DEF QueryNewFile
<1> HIDE DEF q
<1>4. /\ read \in Dirs /\ read.monitored = dir.monitored /\ read.other = dir.other
      /\ read.loaded = dir.loaded /\ read.load = dir.load /\ read.batch = dir.batch
      /\ read.unread = dir.unread /\ read.queries = q /\ read.pending = dir.pending
      /\ read.idle = dir.idle /\ read.answers = dir.answers
  BY <1>1, <1>2 DEF Dirs
<1> HIDE DEF read
<1>5. UNCHANGED << disk, events, file, view, past >>
  BY DEF QueryNewFile
<1>6. CASE n \in Present
  <2>1. disk[n] \in Attributes
    BY <1>1, <1>6 DEF Present, Infos
  <2>2. /\ more \in [Attributes -> Nat]
        /\ \A a \in Attributes : more[a] = IF a = disk[n] THEN dir.answers[n][a] + 1
                                           ELSE dir.answers[n][a]
    BY <1>1, <2>1
  <2>3. dir' = [read EXCEPT !.answers = all]
    BY <1>3, <1>4, <1>6
  <2> HIDE DEF more
  <2>4. /\ all \in [Names -> [Attributes -> Nat]]
        /\ \A m \in Names : all[m] = IF m = n THEN more ELSE dir.answers[m]
    BY <1>1, <2>2
  <2> HIDE DEF all
  <2>5. /\ dir' \in Dirs /\ dir'.monitored = dir.monitored /\ dir'.other = dir.other
        /\ dir'.loaded = dir.loaded /\ dir'.load = dir.load /\ dir'.unread = dir.unread
        /\ dir'.idle = dir.idle /\ dir'.batch = dir.batch /\ dir'.pending = dir.pending
        /\ dir'.queries = q /\ dir'.answers = all
    BY <1>4, <2>3, <2>4 DEF Dirs
  <2> QED BY <1>2, <1>5, <2>2, <2>4, <2>5
<1>7. CASE n \notin Present
  <2>1. \A a \in Attributes : a # disk[n]
    BY <1>1, <1>7 DEF Present, Attributes
  <2> QED BY <1>2, <1>3, <1>4, <1>5, <1>7, <2>1
<1> QED BY <1>6, <1>7

LEMMA QueryNewFileTypes ==
  ASSUME Types, ViewInv, NEW n \in Names, QueryNewFile(n)
  PROVE  Types' /\ ViewInv'
<1>1. /\ dir' \in Dirs /\ dir'.loaded = dir.loaded
      /\ UNCHANGED << disk, events, file, view, past >>
  BY QueryNewFileFacts
<1>2. ViewInv'
  BY <1>1, NothingToldInv DEF Types
<1> QED BY <1>1, <1>2 DEF Types

\* What becomes of the directory when the info of a new file arrives.
LEMMA NewFileInfoFacts ==
  ASSUME Types, NEW n \in Names, NEW a \in Attributes, NewFileInfo(n, a)
  PROVE  /\ dir' \in Dirs /\ dir'.monitored = dir.monitored /\ dir'.other = dir.other
         /\ dir'.loaded = dir.loaded /\ dir'.load = dir.load /\ dir'.unread = dir.unread
         /\ dir'.idle /\ dir'.batch = dir.batch /\ dir'.queries = dir.queries
         /\ dir.answers[n][a] > 0
         /\ \A m \in Names, b \in Attributes :
              dir'.answers[m][b] = IF m = n /\ b = a THEN dir.answers[m][b] - 1
                                   ELSE dir.answers[m][b]
         /\ \A m \in Names : dir'.pending[m] = IF m = n THEN a ELSE dir.pending[m]
         /\ UNCHANGED << disk, events, file, view, past >>
<1> DEFINE less == [dir.answers[n] EXCEPT ![a] = dir.answers[n][a] - 1]
           all == [dir.answers EXCEPT ![n] = less]
           read == [dir EXCEPT !.answers = all]
           infos == [NoInfos EXCEPT ![n] = a]
<1>1. /\ dir \in Dirs /\ dir.answers \in [Names -> [Attributes -> Nat]] /\ dir.answers[n][a] > 0
      /\ a # "none"
  BY DEF Types, Dirs, NewFileInfo, Attributes
<1>2. /\ less \in [Attributes -> Nat]
      /\ \A b \in Attributes : less[b] = IF b = a THEN dir.answers[n][b] - 1 ELSE dir.answers[n][b]
  BY <1>1
<1>3. dir' = LoadOne(read, infos)
  BY DEF NewFileInfo
<1> HIDE DEF less
<1>4. /\ all \in [Names -> [Attributes -> Nat]]
      /\ \A m \in Names : all[m] = IF m = n THEN less ELSE dir.answers[m]
  BY <1>1, <1>2
<1> HIDE DEF all
<1>5. /\ read \in Dirs /\ read.monitored = dir.monitored /\ read.other = dir.other
      /\ read.loaded = dir.loaded /\ read.load = dir.load /\ read.batch = dir.batch
      /\ read.unread = dir.unread /\ read.queries = dir.queries /\ read.pending = dir.pending
      /\ read.answers = all
  BY <1>1, <1>4 DEF Dirs
<1>6. infos \in Infos /\ \A m \in Names : infos[m] = IF m = n THEN a ELSE "none"
  BY DEF NoInfos, Infos
<1> HIDE DEF read, infos
<1>7. /\ dir' \in Dirs /\ dir'.monitored = read.monitored /\ dir'.other = read.other
      /\ dir'.loaded = read.loaded /\ dir'.load = read.load /\ dir'.unread = read.unread
      /\ dir'.queries = read.queries /\ dir'.batch = read.batch /\ dir'.answers = read.answers
      /\ dir'.idle
      /\ \A m \in Names : dir'.pending[m] = IF infos[m] # "none" THEN infos[m] ELSE read.pending[m]
  BY <1>3, <1>5, <1>6, LoadOneFacts
<1>8. UNCHANGED << disk, events, file, view, past >>
  BY DEF NewFileInfo
<1> QED BY <1>1, <1>2, <1>4, <1>5, <1>6, <1>7, <1>8

LEMMA NewFileInfoTypes ==
  ASSUME Types, ViewInv, NEW n \in Names, NEW a \in Attributes, NewFileInfo(n, a)
  PROVE  Types' /\ ViewInv'
<1>1. /\ dir' \in Dirs /\ dir'.loaded = dir.loaded
      /\ UNCHANGED << disk, events, file, view, past >>
  BY NewFileInfoFacts
<1>2. ViewInv'
  BY <1>1, NothingToldInv DEF Types
<1> QED BY <1>1, <1>2 DEF Types

\* The enumeration has read a file on.
LEMMA ReadNextFacts ==
  ASSUME Types, NEW n \in Names, ReadNext(n)
  PROVE  /\ dir' \in Dirs /\ dir'.monitored = dir.monitored /\ dir'.other = dir.other
         /\ dir'.loaded = dir.loaded /\ dir'.load = dir.load /\ dir'.queries = dir.queries
         /\ dir'.answers = dir.answers /\ dir'.pending = dir.pending /\ dir'.idle = dir.idle
         /\ n \in dir.unread /\ dir'.unread = dir.unread \ {n}
         /\ \A m \in Names : dir'.batch[m] = IF m = n THEN disk[n] ELSE dir.batch[m]
         /\ UNCHANGED << disk, events, file, view, past >>
<1> DEFINE b == [dir.batch EXCEPT ![n] = disk[n]]
<1>1. disk \in Infos /\ dir \in Dirs /\ dir.batch \in Infos /\ dir.unread \subseteq Names
  BY DEF Types, Dirs
<1>2. b \in Infos /\ \A m \in Names : b[m] = IF m = n THEN disk[n] ELSE dir.batch[m]
  BY <1>1 DEF Infos
<1>3. dir' = [dir EXCEPT !.unread = dir.unread \ {n}, !.batch = b]
  BY DEF ReadNext
<1> HIDE DEF b
<1>4. /\ dir' \in Dirs /\ dir'.monitored = dir.monitored /\ dir'.other = dir.other
      /\ dir'.loaded = dir.loaded /\ dir'.load = dir.load /\ dir'.queries = dir.queries
      /\ dir'.answers = dir.answers /\ dir'.pending = dir.pending /\ dir'.idle = dir.idle
      /\ dir'.unread = dir.unread \ {n} /\ dir'.batch = b
  BY <1>1, <1>2, <1>3 DEF Dirs
<1>5. n \in dir.unread /\ UNCHANGED << disk, events, file, view, past >>
  BY DEF ReadNext
<1> QED BY <1>2, <1>4, <1>5

LEMMA ReadNextTypes ==
  ASSUME Types, ViewInv, NEW n \in Names, ReadNext(n)
  PROVE  Types' /\ ViewInv'
<1>1. /\ dir' \in Dirs /\ dir'.loaded = dir.loaded
      /\ UNCHANGED << disk, events, file, view, past >>
  BY ReadNextFacts
<1>2. ViewInv'
  BY <1>1, NothingToldInv DEF Types
<1> QED BY <1>1, <1>2 DEF Types

\* What becomes of the directory when a batch has been read.
LEMMA MoreFilesFacts ==
  ASSUME Types, MoreFiles
  PROVE  /\ dir' \in Dirs /\ dir'.monitored = dir.monitored /\ dir'.other = dir.other
         /\ dir'.loaded = dir.loaded /\ dir'.load = dir.load /\ dir'.queries = dir.queries
         /\ dir'.answers = dir.answers /\ dir'.unread = dir.unread /\ dir'.idle
         /\ \E n \in Names : dir.batch[n] # "none"
         /\ \A n \in Names : dir'.batch[n] = "none"
         /\ \A n \in Names : dir'.pending[n] = IF dir.batch[n] # "none" THEN dir.batch[n]
                                               ELSE dir.pending[n]
         /\ UNCHANGED << disk, events, file, view, past >>
<1> DEFINE e == LoadOne(dir, dir.batch)
<1>1. dir \in Dirs /\ dir.batch \in Infos
  BY DEF Types, Dirs
<1>2. /\ dir' = [e EXCEPT !.batch = NoInfos] /\ dir.batch # NoInfos
      /\ UNCHANGED << disk, events, file, view, past >>
  BY DEF MoreFiles
<1> HIDE DEF e
<1>3. /\ e \in Dirs /\ e.monitored = dir.monitored /\ e.other = dir.other /\ e.loaded = dir.loaded
      /\ e.load = dir.load /\ e.unread = dir.unread /\ e.queries = dir.queries
      /\ e.answers = dir.answers /\ e.idle
      /\ \A n \in Names : e.pending[n] = IF dir.batch[n] # "none" THEN dir.batch[n] ELSE dir.pending[n]
  BY <1>1, LoadOneFacts DEF e
<1>4. /\ dir' \in Dirs /\ dir'.monitored = e.monitored /\ dir'.other = e.other
      /\ dir'.loaded = e.loaded /\ dir'.load = e.load /\ dir'.unread = e.unread
      /\ dir'.queries = e.queries /\ dir'.answers = e.answers /\ dir'.idle = e.idle
      /\ dir'.pending = e.pending /\ dir'.batch = NoInfos
  BY <1>2, <1>3, NoInfosFacts DEF Dirs
<1> QED BY <1>1, <1>2, <1>3, <1>4, NoInfosFacts

LEMMA MoreFilesTypes ==
  ASSUME Types, ViewInv, MoreFiles
  PROVE  Types' /\ ViewInv'
<1>1. /\ dir' \in Dirs /\ dir'.loaded = dir.loaded
      /\ UNCHANGED << disk, events, file, view, past >>
  BY MoreFilesFacts
<1>2. ViewInv'
  BY <1>1, NothingToldInv DEF Types
<1> QED BY <1>1, <1>2 DEF Types

LEMMA DequeueTypes ==
  ASSUME Types, ViewInv, DequeuePending
  PROVE  Types' /\ ViewInv'
<1>1. PICK unchanged \in SUBSET Names : Becomes(Dequeue(dir, view, file, unchanged))
  BY DEF DequeuePending
<1> DEFINE r == Dequeue(dir, view, file, unchanged)
<1>2. UNCHANGED << disk, events, past, changes >>
  BY DEF DequeuePending
<1>3. /\ dir \in Dirs /\ view \in Views /\ IsFiniteSet(Held(view)) /\ file \in [Names -> Records]
      /\ Orderly(view) /\ Scheduled(view, dir.loaded)
  BY DEF Types, ViewInv
<1>4. dir' = r.dir /\ file' = r.file /\ view' = r.view
  BY <1>1 DEF Becomes
<1>5. /\ r.dir \in Dirs /\ r.dir.loaded = dir.loaded
  BY <1>3, DequeueIs
<1>6. /\ r.file \in [Names -> Records] /\ r.view \in Views /\ IsFiniteSet(Held(r.view))
      /\ Orderly(r.view)
      /\ Scheduled(r.view, dir.loaded)
      /\ Awaited(view, file) => Awaited(r.view, r.file)
      /\ Complete(view, file) => Complete(r.view, r.file)
  BY <1>3, DequeueInv
<1> HIDE DEF r
<1>7. ViewInv'
  BY <1>2, <1>4, <1>5, <1>6 DEF ViewInv
<1> QED BY <1>2, <1>4, <1>5, <1>6, <1>7 DEF Types

LEMMA ConfirmedFacts ==
  ASSUME NEW f \in Records, NEW b \in BOOLEAN, f = NoFile => ~b
  PROVE  LET g == [f EXCEPT !.unconfirmed = b] IN
         /\ g \in Records /\ (g = NoFile <=> f = NoFile)
         /\ g.gen = f.gen /\ g.unconfirmed = b /\ g.lacks = f.lacks /\ g.answer = f.answer
         /\ g.hidden = f.hidden /\ g.silent = f.silent /\ g.toggled = f.toggled
<1> DEFINE g == [f EXCEPT !.unconfirmed = b]
<1>1. f \in AnyRecord
  BY NoFileFacts DEF Records, Known
<1>2. /\ g \in AnyRecord
      /\ g.gen = f.gen /\ g.unconfirmed = b /\ g.lacks = f.lacks /\ g.answer = f.answer
      /\ g.hidden = f.hidden /\ g.silent = f.silent /\ g.toggled = f.toggled
  BY <1>1 DEF AnyRecord
<1> HIDE DEF g
<1>3. CASE f \in Known
  <2>1. g \in Known
    BY <1>2, <1>3 DEF Known
  <2> QED BY <1>2, <1>3, <2>1, NoFileFacts DEF Records, g
<1>4. CASE f = NoFile
  <2>1. g = NoFile
    BY <1>2, <1>4, NoFileFacts DEF AnyRecord
  <2> QED BY <1>2, <1>4, <2>1, NoFileFacts DEF g
<1> QED BY <1>3, <1>4 DEF Records

\* A load begins: what is listed is to be confirmed.
LEMMA StartLoadFacts ==
  ASSUME Types, StartLoad
  PROVE  /\ dir' \in Dirs /\ dir'.monitored = dir.monitored /\ dir'.other = dir.other
         /\ dir'.loaded = dir.loaded /\ dir'.load /\ dir'.queries = dir.queries
         /\ dir'.answers = dir.answers /\ dir'.batch = dir.batch
         /\ dir'.unread = Present /\ dir'.pending = dir.pending /\ dir'.idle = dir.idle
         /\ dir.monitored /\ ~dir.loaded /\ ~dir.load
         /\ file' \in [Names -> Records]
         /\ \A n \in Names : /\ file'[n].gen = file[n].gen /\ file'[n].lacks = file[n].lacks
                             /\ file'[n].hidden = file[n].hidden
                             /\ file'[n].silent = file[n].silent
                             /\ file'[n].toggled = file[n].toggled
                             /\ file'[n].answer = file[n].answer
         /\ Listed(file') = Listed(file)
         /\ \A n \in Listed(file) : file'[n].unconfirmed
         /\ UNCHANGED << disk, events, view, past >>
<1>1. /\ dir' = [dir EXCEPT !.load = TRUE, !.unread = Present]
      /\ dir.monitored /\ ~dir.loaded /\ ~dir.load
      /\ UNCHANGED << disk, events, view, past >>
      /\ file' = [n \in Names |-> IF n \in Listed(file)
                                  THEN [file[n] EXCEPT !.unconfirmed = TRUE] ELSE NoFile]
  BY DEF StartLoad
<1>2. Present \in SUBSET Names /\ dir \in Dirs /\ file \in [Names -> Records]
  BY DEF Present, Types
<1>3. /\ dir' \in Dirs /\ dir'.monitored = dir.monitored /\ dir'.other = dir.other
      /\ dir'.loaded = dir.loaded /\ dir'.load /\ dir'.queries = dir.queries
      /\ dir'.answers = dir.answers /\ dir'.batch = dir.batch
      /\ dir'.unread = Present /\ dir'.pending = dir.pending /\ dir'.idle = dir.idle
  BY <1>1, <1>2 DEF Dirs
<1>4. ASSUME NEW n \in Names
      PROVE  /\ file'[n] \in Records /\ file'[n].gen = file[n].gen
             /\ file'[n].lacks = file[n].lacks /\ file'[n].hidden = file[n].hidden
             /\ file'[n].silent = file[n].silent /\ file'[n].toggled = file[n].toggled
             /\ file'[n].answer = file[n].answer
             /\ n \in Listed(file') <=> n \in Listed(file)
             /\ n \in Listed(file) => file'[n].unconfirmed
  <2>1. CASE n \in Listed(file)
    <3> DEFINE f == file[n]
               g == [f EXCEPT !.unconfirmed = TRUE]
    <3>1. f \in Records /\ f # NoFile
      BY <1>2, <2>1 DEF Listed
    <3>2. file'[n] = g
      BY <1>1, <2>1
    <3> HIDE DEF f
    <3>4. /\ g \in Records /\ (g = NoFile <=> f = NoFile)
          /\ g.gen = f.gen /\ g.unconfirmed = TRUE /\ g.lacks = f.lacks /\ g.answer = f.answer
          /\ g.hidden = f.hidden /\ g.silent = f.silent /\ g.toggled = f.toggled
      BY <3>1, ConfirmedFacts
    <3> HIDE DEF g
    <3>3. /\ file'[n] \in Records /\ file'[n] # NoFile
          /\ file'[n].gen = file[n].gen /\ file'[n].lacks = file[n].lacks
          /\ file'[n].hidden = file[n].hidden
          /\ file'[n].silent = file[n].silent /\ file'[n].toggled = file[n].toggled
          /\ file'[n].answer = file[n].answer /\ file'[n].unconfirmed = TRUE
      BY <3>1, <3>2, <3>4 DEF f
    <3> QED BY <2>1, <3>3 DEF Listed
  <2>2. CASE n \notin Listed(file)
    <3>1. file[n] = NoFile /\ file'[n] = NoFile
      BY <1>1, <1>2, <2>2, RecordFacts
    <3> QED BY <2>2, <3>1, NoFileFacts DEF Listed
  <2> QED BY <2>1, <2>2
<1>5. file' \in [Names -> Records]
  <2>1. file' = [n \in Names |-> file'[n]]
    BY <1>1
  <2> QED BY <1>4, <2>1
<1>6. Listed(file') = Listed(file)
  BY <1>4 DEF Listed
<1>7. \A n \in Listed(file) : file'[n].unconfirmed
  BY <1>4 DEF Listed
<1> QED BY <1>1, <1>3, <1>4, <1>5, <1>6, <1>7

LEMMA StartLoadTypes ==
  ASSUME Types, ViewInv, StartLoad
  PROVE  Types' /\ ViewInv'
<1>1. /\ dir' \in Dirs /\ dir'.loaded = dir.loaded
      /\ file' \in [Names -> Records]
      /\ \A n \in Names : /\ file'[n].gen = file[n].gen /\ file'[n].lacks = file[n].lacks
                          /\ file'[n].hidden = file[n].hidden
                          /\ file'[n].silent = file[n].silent
                          /\ file'[n].toggled = file[n].toggled
      /\ UNCHANGED << disk, events, view, past >>
  BY StartLoadFacts
<1>2. ViewInv'
  BY <1>1, NothingToldInv DEF Types
<1> QED BY <1>1, <1>2 DEF Types

LEMMA CancelFacts ==
  ASSUME NEW d \in Dirs
  PROVE  LET c == FileListCancel(d) IN
         /\ c \in Dirs /\ c.monitored = d.monitored /\ c.other = d.other /\ c.loaded = d.loaded
         /\ ~c.load /\ c.queries = d.queries /\ c.answers = d.answers
         /\ c.unread = {} /\ c.pending = NoInfos /\ c.batch = NoInfos
<1> DEFINE b == [d EXCEPT !.load = FALSE, !.unread = {}, !.batch = NoInfos]
           c == [b EXCEPT !.pending = NoInfos, !.idle = FALSE]
<1>1. /\ b \in Dirs /\ b.monitored = d.monitored /\ b.other = d.other /\ b.loaded = d.loaded
      /\ ~b.load /\ b.queries = d.queries /\ b.answers = d.answers
      /\ b.unread = {} /\ b.batch = NoInfos
  BY NoInfosFacts DEF Dirs
<1>2. FileListCancel(d) = c
  BY DEF FileListCancel
<1> HIDE DEF b
<1>3. /\ c \in Dirs /\ c.monitored = b.monitored /\ c.other = b.other /\ c.loaded = b.loaded
      /\ c.load = b.load /\ c.queries = b.queries /\ c.answers = b.answers
      /\ c.unread = b.unread /\ c.pending = NoInfos /\ c.batch = b.batch
  BY <1>1, NoInfosFacts DEF Dirs
<1> HIDE DEF c
<1> QED BY <1>1, <1>2, <1>3

\* A reload forgets what was being read, and that anything was ready.
LEMMA ForceReloadFacts ==
  ASSUME Types, ForceReload
  PROVE  /\ dir' \in Dirs /\ dir'.monitored = dir.monitored /\ dir'.other = dir.other
         /\ ~dir'.loaded /\ ~dir'.load /\ dir'.queries = dir.queries
         /\ dir'.answers = dir.answers /\ dir'.unread = {}
         /\ \A n \in Names : dir'.pending[n] = "none" /\ dir'.batch[n] = "none"
         /\ file' \in [Names -> Records]
         /\ \A n \in Names : /\ file'[n].gen = file[n].gen /\ file'[n].lacks = "info"
                             /\ file'[n].hidden = file[n].hidden
                             /\ file'[n].toggled = file[n].toggled
                             /\ file'[n].answer = "none"
         /\ Listed(file') = Listed(file)
         /\ UNCHANGED << disk, events, view, past >>
<1>1. /\ dir' = [FileListCancel(dir) EXCEPT !.loaded = FALSE]
      /\ UNCHANGED << disk, events, view, past >>
      /\ file' = [n \in Names |-> [Invalid(file[n]) EXCEPT !.answer = "none"]]
  BY DEF ForceReload
<1>2. dir \in Dirs /\ file \in [Names -> Records]
  BY DEF Types
<1> DEFINE c == FileListCancel(dir)
<1>3. /\ c \in Dirs /\ c.monitored = dir.monitored /\ c.other = dir.other
      /\ ~c.load /\ c.queries = dir.queries /\ c.answers = dir.answers
      /\ c.unread = {} /\ c.pending = NoInfos /\ c.batch = NoInfos
  BY <1>2, CancelFacts
<1>4. dir' = [c EXCEPT !.loaded = FALSE]
  BY <1>1
<1> HIDE DEF c
<1>5. /\ dir' \in Dirs /\ dir'.monitored = dir.monitored /\ dir'.other = dir.other
      /\ ~dir'.loaded /\ ~dir'.load /\ dir'.queries = dir.queries /\ dir'.answers = dir.answers
      /\ dir'.unread = {} /\ dir'.pending = NoInfos /\ dir'.batch = NoInfos
  BY <1>3, <1>4 DEF Dirs
<1>6. \A n \in Names : /\ file'[n] \in Records /\ (file'[n] = NoFile <=> file[n] = NoFile)
                       /\ file'[n].gen = file[n].gen /\ file'[n].lacks = "info"
                       /\ file'[n].hidden = file[n].hidden
                       /\ file'[n].toggled = file[n].toggled
                       /\ file'[n].answer = "none"
  <2> SUFFICES ASSUME NEW n \in Names
               PROVE  /\ file'[n] \in Records /\ (file'[n] = NoFile <=> file[n] = NoFile)
                      /\ file'[n].gen = file[n].gen /\ file'[n].lacks = "info"
                      /\ file'[n].hidden = file[n].hidden
                      /\ file'[n].toggled = file[n].toggled
                      /\ file'[n].answer = "none"
    OBVIOUS
  <2> DEFINE f == Invalid(file[n])
  <2>1. /\ f \in Records /\ (f = NoFile <=> file[n] = NoFile)
        /\ f.gen = file[n].gen /\ f.lacks = "info"
        /\ f.hidden = file[n].hidden /\ f.toggled = file[n].toggled
    BY <1>2, InvalidFacts
  <2>2. file'[n] = [f EXCEPT !.answer = "none"]
    BY <1>1
  <2> HIDE DEF f
  <2>3. CASE f = NoFile
    BY <2>1, <2>2, <2>3, NoFileFacts DEF NoFile
  <2>4. CASE f # NoFile
    BY <2>1, <2>2, <2>4, NoFileFacts DEF Records, Known, AnyRecord
  <2> QED BY <2>3, <2>4
<1>7. file' \in [Names -> Records]
  <2>1. file' = [n \in Names |-> file'[n]]
    BY <1>1
  <2> QED BY <1>6, <2>1
<1>8. Listed(file') = Listed(file)
  BY <1>6 DEF Listed
<1> QED BY <1>1, <1>5, <1>6, <1>7, <1>8, NoInfosFacts

LEMMA ForceReloadTypes ==
  ASSUME Types, ViewInv, ForceReload
  PROVE  Types' /\ ViewInv'
<1>1. /\ dir' \in Dirs /\ ~dir'.loaded
      /\ file' \in [Names -> Records]
      /\ \A n \in Names : /\ file'[n].gen = file[n].gen /\ file'[n].lacks = "info"
                          /\ file'[n].hidden = file[n].hidden
                          /\ file'[n].toggled = file[n].toggled
      /\ UNCHANGED << disk, events, view, past >>
  BY ForceReloadFacts
<1>2. ViewInv'
  BY <1>1, NothingToldInv DEF Types
<1> QED BY <1>1, <1>2 DEF Types

\* GIO has answered the query for the info of a file.
LEMMA QueryInfoFacts ==
  ASSUME Types, NEW n \in Names, QueryInfo(n)
  PROVE  /\ file' \in [Names -> Records] /\ Listed(file') = Listed(file) /\ dir.monitored
         /\ n \in Listed(file)
         /\ file'[n].gen = file[n].gen /\ file'[n].lacks = "info"
         /\ file'[n].unconfirmed = file[n].unconfirmed
         /\ file'[n].hidden = file[n].hidden /\ file'[n].toggled = file[n].toggled
         /\ file'[n].answer = IF n \in Present THEN disk[n] ELSE "missing"
         /\ \A m \in Names : m # n => file'[m] = file[m]
         /\ UNCHANGED << disk, events, dir, view, past >>
<1> DEFINE a == IF n \in Present THEN disk[n] ELSE "missing"
           x == [file[n] EXCEPT !.answer = a]
<1>1. /\ disk \in Infos /\ file \in [Names -> Records]
  BY DEF Types
<1>2. /\ dir.monitored /\ n \in Listed(file) /\ file[n].lacks = "info"
      /\ file' = [file EXCEPT ![n] = x]
      /\ UNCHANGED << disk, events, dir, view, past >>
  BY DEF QueryInfo
<1>3. a \in Answers
  BY <1>1 DEF Infos, Present, Answers
<1>4. file[n] \in Known
  BY <1>1, <1>2, RecordFacts
<1> HIDE DEF a
<1>5. /\ x \in Known /\ x.gen = file[n].gen /\ x.lacks = file[n].lacks
      /\ x.unconfirmed = file[n].unconfirmed /\ x.hidden = file[n].hidden
      /\ x.toggled = file[n].toggled /\ x.answer = a
  BY <1>3, <1>4 DEF Known, AnyRecord
<1> HIDE DEF x
<1>6. x \in Records /\ x # NoFile
  BY <1>5, NoFileFacts DEF Records
<1>7. /\ file' \in [Names -> Records] /\ file'[n] = x
      /\ \A m \in Names : m # n => file'[m] = file[m]
  BY <1>1, <1>2, <1>6
<1>8. Listed(file') = Listed(file)
  BY <1>2, <1>6, <1>7 DEF Listed
<1> QED BY <1>2, <1>5, <1>7, <1>8 DEF a

LEMMA QueryInfoTypes ==
  ASSUME Types, ViewInv, NEW n \in Names, QueryInfo(n)
  PROVE  Types' /\ ViewInv'
<1>1. /\ file' \in [Names -> Records]
      /\ \A m \in Names : /\ file'[m].gen = file[m].gen /\ file'[m].hidden = file[m].hidden
                          /\ file'[m].toggled = file[m].toggled
                          /\ file'[m].lacks = "nothing" => file'[m] = file[m]
      /\ UNCHANGED << disk, events, dir, view, past >>
  BY QueryInfoFacts
<1>2. ViewInv'
  BY <1>1, NothingToldInv DEF Types
<1> QED BY <1>1, <1>2 DEF Types

LEMMA InfoArrivesFacts ==
  ASSUME Types, NEW n \in Names, InfoArrives(n)
  PROVE  /\ file' \in [Names -> Records] /\ n \in Listed(file)
         /\ \/ file'[n] = NoFile
            \/ /\ file'[n].gen = file[n].gen
               /\ ~file'[n].toggled => ~file[n].toggled /\ file'[n].hidden = file[n].hidden
         /\ file[n].answer = "missing" => file'[n] = NoFile
         /\ file[n].answer # "missing" =>
              /\ n \in Listed(file') /\ file'[n].answer = "none"
              /\ file'[n].unconfirmed = file[n].unconfirmed
         /\ \A m \in Names : m # n => file'[m] = file[m]
         /\ file' = [file EXCEPT ![n] = file'[n]]
         /\ view' = FilesChanged(view, dir, Objects(file, {n} \cap Listed(file)))
         /\ UNCHANGED << disk, events, dir, past >>
<1> DEFINE a == file[n].answer
           x == IF a = "missing" THEN NoFile ELSE UpdateInfo(file[n], n, a)
<1>1. file \in [Names -> Records]
  BY DEF Types
<1>2. /\ a # "none" /\ file' = [file EXCEPT ![n] = x]
      /\ view' = FilesChanged(view, dir, Objects(file, {n}))
      /\ UNCHANGED << disk, events, dir, past >>
  BY DEF InfoArrives
<1>3. n \in Listed(file) /\ file[n] \in Known
  BY <1>1, <1>2, RecordFacts
<1>4. {n} = {n} \cap Listed(file)
  BY <1>3
<1>5. /\ x \in Records
      /\ a = "missing" => x = NoFile
      /\ a # "missing" => /\ x \in Known /\ x.gen = file[n].gen
                          /\ x.unconfirmed = file[n].unconfirmed /\ x.answer = "none"
                          /\ ~x.toggled => ~file[n].toggled /\ x.hidden = file[n].hidden
  <2>1. CASE a = "missing"
    BY <2>1, NoFileFacts
  <2>2. CASE a # "missing"
    <3> DEFINE u == UpdateInfo(file[n], n, a)
    <3>1. /\ u \in Known /\ u.gen = file[n].gen /\ u.unconfirmed = file[n].unconfirmed
          /\ u.answer = "none" /\ u.silent = file[n].silent
          /\ ~u.toggled => ~file[n].toggled /\ u.hidden = file[n].hidden
      BY <1>3, UpdateInfoFacts
    <3>2. x = u
      BY <2>2
    <3> HIDE DEF x, u
    <3> QED BY <2>2, <3>1, <3>2 DEF Records
  <2> QED BY <2>1, <2>2
<1> HIDE DEF x
<1>6. /\ file' \in [Names -> Records] /\ file'[n] = x
      /\ \A m \in Names : m # n => file'[m] = file[m]
  BY <1>1, <1>2, <1>5
<1>7. a # "missing" => n \in Listed(file')
  BY <1>5, <1>6, NoFileFacts DEF Listed
<1> QED BY <1>2, <1>3, <1>4, <1>5, <1>6, <1>7

LEMMA InfoArrivesTypes ==
  ASSUME Types, ViewInv, NEW n \in Names, InfoArrives(n)
  PROVE  Types' /\ ViewInv'
<1> DEFINE x == file'[n]
<1>1. /\ file' \in [Names -> Records]
      /\ \/ x = NoFile
         \/ /\ x.gen = file[n].gen
            /\ ~x.toggled => ~file[n].toggled /\ x.hidden = file[n].hidden
      /\ file' = [file EXCEPT ![n] = x]
      /\ view' = FilesChanged(view, dir, Objects(file, {n} \cap Listed(file)))
      /\ UNCHANGED << disk, events, dir, past >>
  BY InfoArrivesFacts
<1>2. x \in Records
  BY <1>1
<1> HIDE DEF x
<1>3. ViewInv' /\ view' \in Views /\ IsFiniteSet(Held(view'))
  BY <1>1, <1>2, OneChangedInv
<1> QED BY <1>1, <1>3 DEF Types

LEMMA LinkArrivesFacts ==
  ASSUME Types, NEW n \in Names, LinkArrives(n)
  PROVE  /\ file' \in [Names -> Records] /\ Listed(file') = Listed(file)
         /\ n \in Listed(file) /\ dir.monitored
         /\ file'[n].gen = file[n].gen /\ file'[n].toggled = file[n].toggled
         /\ file'[n].hidden = file[n].hidden
         /\ file'[n].unconfirmed = file[n].unconfirmed /\ file'[n].answer = file[n].answer
         /\ \A m \in Names : m # n => file'[m] = file[m]
         /\ file' = [file EXCEPT ![n] = file'[n]]
         /\ view' = FilesChanged(view, dir, Objects(file, {n} \cap Listed(file)))
         /\ UNCHANGED << disk, events, dir, past >>
<1> DEFINE x == [file[n] EXCEPT !.lacks = "nothing"]
<1>1. file \in [Names -> Records]
  BY DEF Types
<1>2. /\ dir.monitored /\ file[n].lacks = "link" /\ file' = [file EXCEPT ![n] = x]
      /\ view' = FilesChanged(view, dir, Objects(file, {n}))
      /\ UNCHANGED << disk, events, dir, past >>
  BY DEF LinkArrives
<1>3. n \in Listed(file) /\ file[n] \in Known
  <2>1. n \in Listed(file)
    BY <1>1, <1>2, RecordFacts
  <2> QED BY <1>1, <2>1, RecordFacts
<1>4. {n} = {n} \cap Listed(file)
  BY <1>3
<1>5. /\ x \in Known /\ x.gen = file[n].gen /\ x.unconfirmed = file[n].unconfirmed
      /\ x.answer = file[n].answer /\ x.hidden = file[n].hidden /\ x.toggled = file[n].toggled
  BY <1>3, ArrivedFacts
<1> HIDE DEF x
<1>6. x \in Records /\ x # NoFile
  BY <1>5, NoFileFacts DEF Records
<1>7. /\ file' \in [Names -> Records] /\ file'[n] = x
      /\ \A m \in Names : m # n => file'[m] = file[m]
  BY <1>1, <1>2, <1>6
<1>8. Listed(file') = Listed(file)
  BY <1>3, <1>6, <1>7 DEF Listed
<1> QED BY <1>2, <1>3, <1>4, <1>5, <1>7, <1>8

LEMMA LinkArrivesTypes ==
  ASSUME Types, ViewInv, NEW n \in Names, LinkArrives(n)
  PROVE  Types' /\ ViewInv'
<1> DEFINE x == file'[n]
<1>1. /\ file' \in [Names -> Records]
      /\ x.gen = file[n].gen /\ x.toggled = file[n].toggled /\ x.hidden = file[n].hidden
      /\ file' = [file EXCEPT ![n] = x]
      /\ view' = FilesChanged(view, dir, Objects(file, {n} \cap Listed(file)))
      /\ UNCHANGED << disk, events, dir, past >>
  BY LinkArrivesFacts
<1>2. x \in Records
  BY <1>1
<1> HIDE DEF x
<1>3. ViewInv' /\ view' \in Views /\ IsFiniteSet(Held(view'))
  BY <1>1, <1>2, OneChangedInv
<1> QED BY <1>1, <1>3 DEF Types

\* A load ends: the idle callback runs at once.
Loaded(d) == [d EXCEPT !.loaded = TRUE, !.sent = FALSE]

Ended(r) == [r EXCEPT !.dir.load = FALSE, !.dir.unread = {}, !.dir.batch = NoInfos]

LEMMA LoadDoneFacts ==
  ASSUME NEW d \in Dirs, d.loaded, NEW v, NEW files, NEW unchanged,
         Becomes(Ended(Dequeue(d, v, files, unchanged)))
  PROVE  /\ file' = Dequeue(d, v, files, unchanged).file
         /\ view' = Dequeue(d, v, files, unchanged).view
         /\ d.monitored => file' = After(d, v, files, unchanged)
         /\ dir' \in Dirs /\ dir'.monitored = d.monitored /\ dir'.other = d.other
         /\ dir'.loaded /\ ~dir'.load /\ dir'.queries = d.queries /\ dir'.answers = d.answers
         /\ dir'.unread = {}
         /\ \A n \in Names : dir'.pending[n] = "none" /\ dir'.batch[n] = "none"
<1> DEFINE r == Dequeue(d, v, files, unchanged)
           left == Ended(r)
<1>1. d.monitored => r.file = After(d, v, files, unchanged)
  BY DequeueIs
<1>2. r = [dir |-> r.dir, file |-> r.file, view |-> r.view]
  BY DequeueIs
<1>3. /\ r.dir \in Dirs /\ r.dir.pending = NoInfos
      /\ r.dir.monitored = d.monitored /\ r.dir.loaded = d.loaded
      /\ r.dir.queries = d.queries /\ r.dir.other = d.other /\ r.dir.answers = d.answers
  <2>1. r.dir \in Dirs /\ r.dir.pending = NoInfos
    BY DequeueIs
  <2>2. r.dir.loaded = d.loaded
    BY DequeueIs
  <2>4. r.dir.monitored = d.monitored
    BY DequeueIs
  <2>3. r.dir.queries = d.queries /\ r.dir.other = d.other /\ r.dir.answers = d.answers
    BY DequeueIs
  <2> QED BY <2>1, <2>2, <2>3, <2>4
<1>4. dir' = left.dir /\ file' = left.file /\ view' = left.view
  BY DEF Becomes
<1> HIDE DEF r
<1>5. /\ left.dir = [r.dir EXCEPT !.load = FALSE, !.unread = {}, !.batch = NoInfos]
      /\ left.file = r.file /\ left.view = r.view
  BY <1>2 DEF Ended
<1> HIDE DEF left
<1>6. dir' = [r.dir EXCEPT !.load = FALSE, !.unread = {}, !.batch = NoInfos]
      /\ file' = r.file /\ view' = r.view
  BY <1>4, <1>5
<1>7. /\ dir' \in Dirs /\ dir'.monitored = r.dir.monitored /\ dir'.other = r.dir.other
      /\ dir'.loaded = r.dir.loaded /\ ~dir'.load /\ dir'.queries = r.dir.queries
      /\ dir'.answers = r.dir.answers /\ dir'.unread = {} /\ dir'.pending = r.dir.pending
      /\ dir'.batch = NoInfos
  BY <1>3, <1>6, NoInfosFacts DEF Dirs
<1> QED BY <1>1, <1>3, <1>6, <1>7, NoInfosFacts DEF r

LEMMA LoadedFacts ==
  ASSUME NEW d \in Dirs
  PROVE  /\ Loaded(d) \in Dirs /\ Loaded(d).loaded /\ ~Loaded(d).sent
         /\ Loaded(d).pending = d.pending /\ Loaded(d).batch = d.batch
         /\ Loaded(d).monitored = d.monitored /\ Loaded(d).other = d.other
         /\ Loaded(d).queries = d.queries /\ Loaded(d).answers = d.answers
BY DEF Dirs, Loaded

LEMMA LoadEndsFacts ==
  ASSUME Types, NEW unchanged, Becomes(LoadDone(dir, view, file, FALSE, unchanged)),
         past' = [past EXCEPT !.failed = FALSE]
  PROVE  /\ file' = Dequeue(Loaded(dir), view, file, unchanged).file
         /\ view' = Dequeue(Loaded(dir), view, file, unchanged).view
         /\ dir.monitored => file' = After(Loaded(dir), view, file, unchanged)
         /\ dir' \in Dirs /\ dir'.monitored = dir.monitored /\ dir'.other = dir.other
         /\ dir'.loaded /\ ~dir'.load /\ dir'.queries = dir.queries /\ dir'.unread = {}
         /\ dir'.answers = dir.answers
         /\ \A n \in Names : dir'.pending[n] = "none" /\ dir'.batch[n] = "none"
         /\ past' \in Pasts /\ past'.stopped = past.stopped /\ ~past'.failed
         /\ past'.overtaken = past.overtaken /\ past'.late = past.late
<1>1. dir \in Dirs
  BY DEF Types
<1>2. Becomes(Ended(Dequeue(Loaded(dir), view, file, unchanged)))
  BY DEF LoadDone, Loaded, Ended
<1>3. past' \in Pasts /\ past'.stopped = past.stopped /\ ~past'.failed
      /\ past'.overtaken = past.overtaken /\ past'.late = past.late
  BY DEF Types, Pasts
<1> DEFINE d == Loaded(dir)
<1>4. /\ d \in Dirs /\ d.loaded /\ d.monitored = dir.monitored /\ d.other = dir.other
      /\ d.queries = dir.queries /\ d.answers = dir.answers
  BY <1>1, LoadedFacts
<1>a. Becomes(Ended(Dequeue(d, view, file, unchanged)))
  BY <1>2
<1> HIDE DEF d
<1>5. /\ file' = Dequeue(d, view, file, unchanged).file
      /\ view' = Dequeue(d, view, file, unchanged).view
      /\ d.monitored => file' = After(d, view, file, unchanged)
      /\ dir' \in Dirs /\ dir'.monitored = d.monitored /\ dir'.other = d.other
      /\ dir'.loaded /\ ~dir'.load /\ dir'.queries = d.queries /\ dir'.answers = d.answers
      /\ dir'.unread = {}
      /\ \A n \in Names : dir'.pending[n] = "none" /\ dir'.batch[n] = "none"
  BY <1>a, <1>4, LoadDoneFacts
<1> QED BY <1>3, <1>4, <1>5 DEF d

LEMMA LoadEndsTypes ==
  ASSUME Types, Loading, ViewInv, LoadEnds
  PROVE  Types' /\ ViewInv'
<1> DEFINE d == Loaded(dir)
<1>1. PICK unchanged \in SUBSET Names : Becomes(LoadDone(dir, view, file, FALSE, unchanged))
  BY DEF LoadEnds
<1> DEFINE r == Dequeue(d, view, file, unchanged)
<1>2. dir.load /\ past' = [past EXCEPT !.failed = FALSE] /\ UNCHANGED << disk, events >>
  BY DEF LoadEnds
<1>3. /\ file' = r.file /\ view' = r.view /\ dir' \in Dirs /\ dir'.loaded
      /\ past' \in Pasts /\ past'.stopped = past.stopped
  BY <1>1, <1>2, LoadEndsFacts
<1>4. /\ view \in Views /\ IsFiniteSet(Held(view)) /\ file \in [Names -> Records] /\ dir \in Dirs
      /\ Orderly(view) /\ dir.monitored
  BY <1>2 DEF Types, ViewInv, Loading
<1>5. d \in Dirs /\ d.loaded /\ ~d.sent /\ d.monitored
  BY <1>4, LoadedFacts
<1> HIDE DEF d
<1>6. /\ r.file \in [Names -> Records] /\ r.view \in Views /\ IsFiniteSet(Held(r.view))
      /\ Orderly(r.view)
      /\ Scheduled(r.view, d.loaded)
      /\ Awaited(view, file) => Awaited(r.view, r.file)
      /\ Complete(view, file) => Complete(r.view, r.file)
  BY <1>4, <1>5, DequeueInv
<1> HIDE DEF r
<1>7. Scheduled(view', dir'.loaded)
  BY <1>3, <1>5, <1>6 DEF Scheduled
<1>8. ViewInv'
  BY <1>3, <1>6, <1>7 DEF ViewInv
<1> QED BY <1>2, <1>3, <1>6, <1>8 DEF Types

\* A load fails: what is listed is taken to be there, and the view stops.
Assumed(files) == [n \in Names |-> [files[n] EXCEPT !.unconfirmed = FALSE]]

LEMMA AssumedFacts ==
  ASSUME NEW files \in [Names -> Records]
  PROVE  /\ Assumed(files) \in [Names -> Records]
         /\ \A n \in Names : /\ ~Assumed(files)[n].unconfirmed
                             /\ Assumed(files)[n].answer = files[n].answer
                             /\ n \in Listed(Assumed(files)) <=> n \in Listed(files)
<1> DEFINE known == Assumed(files)
<1>1. known = [n \in Names |-> known[n]] /\ \A n \in Names : known[n] = [files[n] EXCEPT !.unconfirmed = FALSE]
  BY DEF Assumed
<1>a. \A n \in Names : files[n] \in Records
  OBVIOUS
<1> HIDE DEF known
<1>2. ASSUME NEW n \in Names
      PROVE  /\ known[n] \in Records /\ (known[n] = NoFile <=> files[n] = NoFile)
             /\ known[n].unconfirmed = FALSE /\ known[n].answer = files[n].answer
  <2> DEFINE f == files[n]
  <2>1. f \in Records /\ known[n] = [f EXCEPT !.unconfirmed = FALSE]
    BY <1>1, <1>a
  <2> HIDE DEF f
  <2> QED BY <2>1, ConfirmedFacts DEF f
<1>3. known \in [Names -> Records]
  BY <1>1, <1>2
<1> QED BY <1>2, <1>3 DEF Listed, known

LEMMA LoadFailsFacts ==
  ASSUME Types, NEW unchanged, Becomes(LoadDone(dir, view, file, TRUE, unchanged)),
         past' = [past EXCEPT !.failed = TRUE, !.stopped = TRUE]
  PROVE  LET told == IF view.step = "underway" THEN Stop(view) ELSE view IN
         /\ file' = Dequeue(Loaded(dir), told, Assumed(file), unchanged).file
         /\ view' = Dequeue(Loaded(dir), told, Assumed(file), unchanged).view
         /\ dir.monitored => file' = After(Loaded(dir), told, Assumed(file), unchanged)
         /\ dir' \in Dirs /\ dir'.monitored = dir.monitored /\ dir'.other = dir.other
         /\ dir'.loaded /\ ~dir'.load /\ dir'.queries = dir.queries /\ dir'.unread = {}
         /\ dir'.answers = dir.answers
         /\ \A n \in Names : dir'.pending[n] = "none" /\ dir'.batch[n] = "none"
         /\ past' \in Pasts /\ past'.stopped /\ past'.failed
         /\ past'.overtaken = past.overtaken /\ past'.late = past.late
<1> DEFINE told == IF view.step = "underway" THEN Stop(view) ELSE view
           known == Assumed(file)
           d == Loaded(dir)
<1>1. dir \in Dirs
  BY DEF Types
<1>2. Becomes(Ended(Dequeue(d, told, known, unchanged)))
  BY DEF LoadDone, Loaded, Assumed, Ended
<1>3. past' \in Pasts /\ past'.stopped /\ past'.failed
      /\ past'.overtaken = past.overtaken /\ past'.late = past.late
  BY DEF Types, Pasts
<1>4. /\ d \in Dirs /\ d.loaded /\ d.monitored = dir.monitored /\ d.other = dir.other
      /\ d.queries = dir.queries /\ d.answers = dir.answers
  BY <1>1, LoadedFacts
<1> HIDE DEF d, told, known
<1>5. /\ file' = Dequeue(d, told, known, unchanged).file
      /\ view' = Dequeue(d, told, known, unchanged).view
      /\ d.monitored => file' = After(d, told, known, unchanged)
      /\ dir' \in Dirs /\ dir'.monitored = d.monitored /\ dir'.other = d.other
      /\ dir'.loaded /\ ~dir'.load /\ dir'.queries = d.queries /\ dir'.answers = d.answers
      /\ dir'.unread = {}
      /\ \A n \in Names : dir'.pending[n] = "none" /\ dir'.batch[n] = "none"
  BY <1>2, <1>4, LoadDoneFacts
<1> QED BY <1>3, <1>4, <1>5 DEF d, told, known

LEMMA LoadFailsTypes ==
  ASSUME Types, Loading, ViewInv, LoadFails
  PROVE  Types' /\ ViewInv'
<1> DEFINE d == Loaded(dir)
           known == Assumed(file)
           told == IF view.step = "underway" THEN Stop(view) ELSE view
<1>1. PICK unchanged \in SUBSET Names : Becomes(LoadDone(dir, view, file, TRUE, unchanged))
  BY DEF LoadFails
<1> DEFINE r == Dequeue(d, told, known, unchanged)
<1>2. dir.load /\ past' = [past EXCEPT !.failed = TRUE, !.stopped = TRUE]
      /\ UNCHANGED << disk, events >>
  BY DEF LoadFails
<1>3. /\ file' = r.file /\ view' = r.view /\ dir' \in Dirs /\ dir'.loaded
      /\ past' \in Pasts /\ past'.stopped
  BY <1>1, <1>2, LoadFailsFacts
<1>4. /\ view \in Views /\ IsFiniteSet(Held(view)) /\ file \in [Names -> Records] /\ dir \in Dirs
      /\ Orderly(view) /\ dir.monitored
  BY <1>2 DEF Types, ViewInv, Loading
<1>5. d \in Dirs /\ d.loaded /\ ~d.sent /\ d.monitored
  BY <1>4, LoadedFacts
<1>6. known \in [Names -> Records]
  BY <1>4, AssumedFacts
<1>7. /\ told \in Views /\ IsFiniteSet(Held(told)) /\ Orderly(told) /\ Awaited(told, known)
  <2>1. CASE view.step = "underway"
    BY <1>4, <2>1, StoppedView
  <2>2. CASE view.step # "underway"
    <3>1. view.nonReady = {}
      BY <1>4, <2>2 DEF Orderly, Held, Views
    <3> QED BY <1>4, <2>2, <3>1 DEF Awaited
  <2> QED BY <2>1, <2>2
<1> HIDE DEF d, known, told
<1>8. /\ r.file \in [Names -> Records] /\ r.view \in Views /\ IsFiniteSet(Held(r.view))
      /\ Orderly(r.view)
      /\ Scheduled(r.view, d.loaded)
      /\ Awaited(told, known) => Awaited(r.view, r.file)
  BY <1>5, <1>6, <1>7, DequeueInv
<1> HIDE DEF r
<1>9. Scheduled(view', dir'.loaded)
  BY <1>3, <1>5, <1>8 DEF Scheduled
<1>10. ViewInv'
  BY <1>3, <1>7, <1>8, <1>9 DEF ViewInv
<1> QED BY <1>2, <1>3, <1>8, <1>10 DEF Types

LEMMA LeavesFacts ==
  ASSUME Types, LastMonitorLeaves
  PROVE  /\ dir' \in Dirs /\ ~dir'.monitored /\ ~dir'.other /\ ~dir'.loaded /\ ~dir'.load
         /\ dir'.answers = dir.answers
         /\ dir'.unread = {}
         /\ \A n \in Names : dir'.pending[n] = "none" /\ dir'.batch[n] = "none"
         /\ file' \in [Names -> Records]
         /\ \A n \in Listed(file') : n \in Listed(file)
         /\ "kept" \notin Uses => \A n \in Names : file'[n] = NoFile
<1>1. PICK kept \in IF "kept" \in Uses THEN SUBSET Listed(file) ELSE {{}} :
        file' = [n \in Names |-> IF n \in kept THEN [file[n] EXCEPT !.answer = "none"] ELSE NoFile]
  BY DEF LastMonitorLeaves
<1>2. dir' = [StopMonitoring(dir) EXCEPT !.other = FALSE]
  BY DEF LastMonitorLeaves
<1>3. dir \in Dirs /\ file \in [Names -> Records]
  BY DEF Types
<1> DEFINE c == FileListCancel(dir)
<1>4. /\ c \in Dirs /\ ~c.load /\ c.answers = dir.answers
      /\ c.unread = {} /\ c.pending = NoInfos /\ c.batch = NoInfos
  BY <1>3, CancelFacts
<1>5. StopMonitoring(dir) = [c EXCEPT !.monitored = FALSE, !.loaded = FALSE]
  BY DEF StopMonitoring
<1> HIDE DEF c
<1> DEFINE s == StopMonitoring(dir)
<1>6. /\ s \in Dirs /\ ~s.load /\ ~s.monitored /\ ~s.loaded
      /\ s.unread = {} /\ s.pending = NoInfos /\ s.batch = NoInfos /\ s.answers = dir.answers
  BY <1>4, <1>5 DEF Dirs
<1> HIDE DEF s
<1>7. /\ dir' \in Dirs /\ ~dir'.monitored /\ ~dir'.other /\ ~dir'.loaded /\ ~dir'.load
      /\ dir'.unread = {} /\ dir'.pending = NoInfos /\ dir'.batch = NoInfos
      /\ dir'.answers = dir.answers
  BY <1>2, <1>6 DEF Dirs, s
<1>8. kept \subseteq Listed(file) /\ ("kept" \notin Uses => kept = {})
  OBVIOUS
<1>9. ASSUME NEW n \in Names
      PROVE  file'[n] \in Records /\ (n \in kept \/ file'[n] = NoFile)
  <2>1. CASE n \in kept
    <3>1. file[n] \in Known
      BY <1>3, <1>8, <2>1, RecordFacts
    <3>2. [file[n] EXCEPT !.answer = "none"] \in Known
      BY <3>1 DEF Known, AnyRecord, Answers
    <3> QED BY <1>1, <2>1, <3>2 DEF Records
  <2>2. CASE n \notin kept
    BY <1>1, <2>2, NoFileFacts
  <2> QED BY <2>1, <2>2
<1>10. file' \in [Names -> Records]
  <2>1. file' = [n \in Names |-> file'[n]]
    BY <1>1
  <2> QED BY <1>9, <2>1
<1>11. \A n \in Listed(file') : n \in Listed(file)
  BY <1>8, <1>9 DEF Listed
<1>12. "kept" \notin Uses => \A n \in Names : file'[n] = NoFile
  BY <1>8, <1>9
<1> QED BY <1>7, <1>10, <1>11, <1>12, NoInfosFacts

LEMMA LateFacts ==
  ASSUME Types
  PROVE  /\ Late(past) \in Pasts /\ Late(past).stopped = past.stopped
         /\ Late(past).failed = past.failed /\ Late(past).overtaken = past.overtaken
         /\ past.late \subseteq Late(past).late
         /\ \A i \in DOMAIN events : events[i].name \in Late(past).late
<1>1. events \in Seq(Events) /\ past \in Pasts
  BY DEF Types
<1>2. \A i \in DOMAIN events : events[i] \in Events /\ events[i] \in Range(events)
  BY <1>1, ElementOfSeq, LenProperties DEF Range
<1>3. \A e \in Range(events) : e \in Events
  BY <1>2 DEF Range
<1> DEFINE names == {e.name : e \in Range(events)}
<1>4. names \subseteq Names /\ \A i \in DOMAIN events : events[i].name \in names
  BY <1>2, <1>3 DEF Events
<1>5. Late(past) = [past EXCEPT !.late = past.late \cup names]
  BY DEF Late
<1> HIDE DEF names
<1>6. /\ Late(past) \in Pasts /\ Late(past).stopped = past.stopped
      /\ Late(past).failed = past.failed /\ Late(past).overtaken = past.overtaken
      /\ Late(past).late = past.late \cup names
  BY <1>1, <1>4, <1>5 DEF Pasts
<1> QED BY <1>4, <1>6

LEMMA OtherWindowTypes ==
  ASSUME Types, ViewInv, OtherWindow
  PROVE  Types' /\ ViewInv'
<1>1. UNCHANGED << disk, events, view >>
  BY DEF OtherWindow
<1>2. view \in Views /\ Orderly(view)
  BY DEF Types, ViewInv
<1>3. CASE dir.other /\ view.step # "underway"
  <2>1. LastMonitorLeaves /\ past' = Late(past)
    BY <1>3 DEF OtherWindow
  <2>2. dir' \in Dirs /\ file' \in [Names -> Records]
    BY <2>1, LeavesFacts
  <2>3. past' \in Pasts
    BY <2>1, LateFacts
  <2>4. view.step = "asked"
    BY <1>2, <1>3 DEF Views
  <2>5. ViewInv'
    BY <1>1, <1>2, <2>4, AskedInv
  <2> QED BY <1>1, <2>2, <2>3, <2>5 DEF Types
<1>4. CASE ~(dir.other /\ view.step # "underway")
  <2>1. dir' = [dir EXCEPT !.other = ~dir.other, !.monitored = TRUE] /\ UNCHANGED << file, past >>
    BY <1>4 DEF OtherWindow
  <2>2. dir' \in Dirs /\ dir'.loaded = dir.loaded
    BY <2>1 DEF Types, Dirs
  <2>3. ViewInv'
    BY <1>1, <2>1, <2>2, NothingToldInv DEF Types
  <2> QED BY <1>1, <2>1, <2>2, <2>3 DEF Types
<1> QED BY <1>3, <1>4

LEMMA LoadDirectoryTypes ==
  ASSUME Types, ViewInv, NEW v \in Views, v.needsReload => v.frozen, LoadDirectory(v),
         UNCHANGED << disk, events >>
  PROVE  Types' /\ ViewInv'
<1>1. view' = Cleared(v)
  BY DEF LoadDirectory
<1>2. view' \in Views /\ IsFiniteSet(Held(view')) /\ view'.step = "asked" /\ Orderly(view')
  BY <1>1, ClearedView
<1>3. ViewInv'
  BY <1>2, AskedInv
<1>4. CASE v.step = "underway" /\ ~dir.other
  <2>1. LastMonitorLeaves /\ past' = [Late(past) EXCEPT !.stopped = FALSE]
    BY <1>4 DEF LoadDirectory
  <2>2. dir' \in Dirs /\ file' \in [Names -> Records]
    BY <2>1, LeavesFacts
  <2>3. Late(past) \in Pasts
    BY LateFacts
  <2>4. past' \in Pasts
    BY <2>1, <2>3 DEF Pasts
  <2> QED BY <1>2, <1>3, <2>2, <2>4 DEF Types
<1>5. CASE ~(v.step = "underway" /\ ~dir.other)
  <2>1. UNCHANGED << dir, file >> /\ past' = [past EXCEPT !.stopped = FALSE]
    BY <1>5 DEF LoadDirectory
  <2>2. past' \in Pasts
    BY <2>1 DEF Types, Pasts
  <2> QED BY <1>2, <1>3, <2>1, <2>2 DEF Types
<1> QED BY <1>4, <1>5

LEMMA LoadTypes ==
  ASSUME Types, ViewInv, Load
  PROVE  Types' /\ ViewInv'
BY LoadDirectoryTypes DEF Load, Types, ViewInv, Orderly

LEMMA FinishLoadingTypes ==
  ASSUME Types, ViewInv, FinishLoading
  PROVE  Types' /\ ViewInv'
<1> DEFINE scheduled == [view EXCEPT !.step = "underway", !.display = view.display \/ dir.loaded]
           monitored == [dir EXCEPT !.monitored = TRUE]
           added == Objects(file, Listed(file))
<1>1. /\ view.step = "asked" /\ dir' = monitored
      /\ view' = FilesAdded(scheduled, monitored, added)
      /\ UNCHANGED << disk, events, file, past, changes >>
  BY DEF FinishLoading
<1>2. /\ view \in Views /\ dir \in Dirs /\ file \in [Names -> Records]
  BY DEF Types
<1>3. /\ monitored \in Dirs /\ monitored.loaded = dir.loaded
      /\ dir.loaded \in BOOLEAN
  BY <1>2 DEF Dirs
<1>4. /\ scheduled \in Views /\ scheduled.step = "underway" /\ (dir.loaded => scheduled.display)
      /\ scheduled.needsReload = view.needsReload /\ scheduled.frozen = view.frozen
      /\ scheduled.shown = view.shown /\ scheduled.newAdded = view.newAdded
      /\ scheduled.newChanged = view.newChanged /\ scheduled.nonReady = view.nonReady
      /\ scheduled.oldAdded = view.oldAdded /\ scheduled.oldChanged = view.oldChanged
  <2>1. (view.display \/ dir.loaded) \in BOOLEAN
    OBVIOUS
  <2> QED BY <1>2, <2>1 DEF Views
<1>5. /\ added \in SUBSET Objs /\ IsFiniteSet(added)
      /\ \A o \in Objs : o \in added <=> o[1] \in Listed(file) /\ file[o[1]].gen = o[2]
  BY <1>2, ObjectsFacts
<1> HIDE DEF scheduled, monitored, added
<1>6. Held(view) = {}
  BY <1>1 DEF ViewInv, Orderly
<1>7. Held(scheduled) = {} /\ IsFiniteSet(Held(scheduled))
  <2>1. Held(scheduled) = {}
    BY <1>4, <1>6 DEF Held
  <2> QED BY <2>1, FS_EmptySet
<1>8. Told(scheduled, view', dir.loaded, {}, added)
  <2>1. monitored.loaded \in BOOLEAN
    BY <1>3
  <2>2. Told(scheduled, FilesAdded(scheduled, monitored, added), monitored.loaded, {}, added)
    BY <1>4, <1>5, <1>7, <2>1, AddedTold
  <2> QED BY <1>1, <1>3, <2>2
<1>9. view' \in Views /\ IsFiniteSet(Held(view'))
  BY <1>8 DEF Told
<1>10. Orderly(scheduled) /\ Scheduled(scheduled, dir.loaded)
  <2>1. view.needsReload => view.frozen
    BY DEF ViewInv, Orderly
  <2>2. scheduled.newAdded = {} /\ scheduled.nonReady = {}
    BY <1>7 DEF Held
  <2> QED BY <1>4, <2>1, <2>2 DEF Orderly, Scheduled
<1>11. Orderly(view') /\ Scheduled(view', dir.loaded)
  BY <1>4, <1>7, <1>8, <1>10, ToldOrderly
<1>12. view'.nonReady = {} /\ view'.shown = {} /\ view'.oldAdded = {}
       /\ view'.newChanged \subseteq {} /\ view'.step = "underway"
       /\ (~view'.needsReload => view'.newAdded = added)
  <2>1. scheduled.shown = {} /\ scheduled.nonReady = {} /\ scheduled.oldAdded = {}
        /\ scheduled.newChanged = {} /\ scheduled.newAdded = {}
    BY <1>7 DEF Held
  <2> QED BY <1>4, <1>8, <2>1 DEF Told
<1>13. Awaited(view', file)
  BY <1>12 DEF Awaited
<1>14. Complete(view', file)
  <2>1. \A o \in added : ~IsGone(file, o)
    BY <1>5 DEF IsGone
  <2>2. \A n \in Listed(file) : << n, file[n].gen >> \in added
    BY DEF added, Objects
  <2> QED BY <1>12, <2>1, <2>2 DEF Complete, Sorted
<1>15. ViewInv'
  BY <1>1, <1>3, <1>11, <1>13, <1>14 DEF ViewInv
<1> QED BY <1>1, <1>3, <1>9, <1>15 DEF Types

LEMMA DisplayTypes ==
  ASSUME Types, ViewInv, Display
  PROVE  Types' /\ ViewInv'
<1>1. /\ view' = DisplayPendingFiles([view EXCEPT !.display = FALSE], dir, file)
      /\ UNCHANGED << disk, events, dir, file, past, changes >>
  BY DEF Display
<1>2. view \in Views /\ IsFiniteSet(Held(view)) /\ Orderly(view)
  BY DEF Types, ViewInv
<1>3. /\ view' \in Views /\ IsFiniteSet(Held(view')) /\ Orderly(view')
      /\ Scheduled(view', dir.loaded)
      /\ Awaited(view, file) => Awaited(view', file)
      /\ Complete(view, file) => Complete(view', file)
  BY <1>1, <1>2, DisplayedInv DEF Types
<1>4. ViewInv'
  BY <1>1, <1>3 DEF ViewInv
<1> QED BY <1>1, <1>3, <1>4 DEF Types

LEMMA StopLoadingTypes ==
  ASSUME Types, ViewInv, StopLoading
  PROVE  Types' /\ ViewInv'
<1>1. /\ view' = Stop(view) /\ past' = [past EXCEPT !.stopped = TRUE]
      /\ UNCHANGED << disk, events, dir, file >>
  BY DEF StopLoading
<1>2. /\ view' \in Views /\ IsFiniteSet(Held(view'))
      /\ Orderly(view') /\ Scheduled(view', dir.loaded) /\ Awaited(view', file)
  BY <1>1, StoppedView DEF Types, ViewInv
<1>3. past' \in Pasts /\ past'.stopped
  BY <1>1 DEF Types, Pasts
<1>4. ViewInv'
  BY <1>1, <1>2, <1>3 DEF ViewInv
<1> QED BY <1>1, <1>2, <1>3, <1>4 DEF Types

LEMMA FreezeTypes ==
  ASSUME Types, ViewInv, Freeze
  PROVE  Types' /\ ViewInv'
<1>1. /\ view' = [view EXCEPT !.frozen = TRUE, !.queued = 0, !.needsReload = FALSE]
      /\ ~view.frozen
      /\ UNCHANGED << disk, events, dir, file, past >>
  BY DEF Freeze
<1>2. ~view.needsReload
  BY <1>1 DEF ViewInv, Orderly
<1>3. /\ view' \in Views /\ view'.step = view.step
      /\ view'.frozen /\ ~view'.needsReload
      /\ view'.shown = view.shown /\ view'.newAdded = view.newAdded
      /\ view'.newChanged = view.newChanged /\ view'.nonReady = view.nonReady
      /\ view'.oldAdded = view.oldAdded /\ view'.oldChanged = view.oldChanged
  BY <1>1 DEF Types, Views
<1>4. Held(view') = Held(view)
  BY <1>3 DEF Held
<1>5. Orderly(view') /\ Scheduled(view', dir.loaded)
  BY <1>3, <1>4 DEF ViewInv, Orderly, Scheduled
<1>6. Awaited(view, file) => Awaited(view', file)
  BY <1>2, <1>3 DEF Awaited
<1>7. Complete(view, file) => Complete(view', file)
  BY <1>2, <1>3 DEF Complete, Sorted
<1>8. ViewInv'
  BY <1>1, <1>5, <1>6, <1>7 DEF ViewInv
<1> QED BY <1>1, <1>3, <1>4, <1>8 DEF Types

LEMMA UnfreezeTypes ==
  ASSUME Types, ViewInv, Unfreeze
  PROVE  Types' /\ ViewInv'
<1> DEFINE thawed == [view EXCEPT !.frozen = FALSE, !.needsReload = FALSE]
<1>1. /\ thawed \in Views /\ thawed.step = view.step /\ ~thawed.frozen /\ ~thawed.needsReload
      /\ thawed.shown = view.shown /\ thawed.newAdded = view.newAdded
      /\ thawed.newChanged = view.newChanged /\ thawed.nonReady = view.nonReady
      /\ thawed.oldAdded = view.oldAdded /\ thawed.oldChanged = view.oldChanged
  BY DEF Types, Views
<1>2. UNCHANGED << disk, events >>
  BY DEF Unfreeze
<1>3. CASE view.needsReload
  <2>1. LoadDirectory(thawed)
    BY <1>3 DEF Unfreeze
  <2> HIDE DEF thawed
  <2> QED BY <1>1, <1>2, <2>1, LoadDirectoryTypes
<1>4. CASE ~view.needsReload
  <2>1. view' = [thawed EXCEPT !.display = TRUE] /\ UNCHANGED << dir, file, past >>
    BY <1>4 DEF Unfreeze
  <2> HIDE DEF thawed
  <2>2. /\ view' \in Views /\ view'.step = view.step /\ ~view'.frozen /\ ~view'.needsReload
        /\ view'.display
        /\ view'.shown = view.shown /\ view'.newAdded = view.newAdded
        /\ view'.newChanged = view.newChanged /\ view'.nonReady = view.nonReady
        /\ view'.oldAdded = view.oldAdded /\ view'.oldChanged = view.oldChanged
    BY <1>1, <2>1 DEF Views
  <2>3. Held(view') = Held(view)
    BY <2>2 DEF Held
  <2>4. Orderly(view') /\ Scheduled(view', dir.loaded)
    BY <2>2, <2>3 DEF ViewInv, Orderly, Scheduled
  <2>5. Awaited(view, file) => Awaited(view', file)
    BY <1>4, <2>2 DEF Awaited
  <2>6. Complete(view, file) => Complete(view', file)
    BY <1>4, <2>2 DEF Complete, Sorted
  <2>7. ViewInv'
    BY <2>1, <2>4, <2>5, <2>6 DEF ViewInv
  <2> QED BY <1>2, <2>1, <2>2, <2>3, <2>7 DEF Types
<1> QED BY <1>3, <1>4

(***************************************************************************)
(* The steps, and what the list owes to the disk.                          *)
(***************************************************************************)
LEMMA PostedGrows ==
  ASSUME Types, NEW kind \in {"added", "removed", "changed"}, NEW n \in Names, Notified(kind, n)
  PROVE  /\ \A k, m : Posted(k, m) => Posted(k, m)'
         /\ dir.monitored => Posted(kind, n)'
BY NotifiedFacts DEF Posted

\* The names keep their order when a notification is added that is no removal, or
\* of a name that is not there.
LEMMA OrderGrows ==
  ASSUME Types, InOrder, NEW kind \in {"added", "removed", "changed"}, NEW n \in Names,
         Notified(kind, n), dir'.monitored = dir.monitored, past'.late = past.late,
         \A m \in Present' \ Present : m = n /\ kind = "added",
         kind = "removed" => n \notin Present'
  PROVE  InOrder'
<1>1. /\ \A i \in DOMAIN events : i \in DOMAIN events' /\ events'[i] = events[i]
      /\ ~dir.monitored => events' = events
      /\ dir.monitored =>
           \E j \in DOMAIN events' :
             /\ events'[j].kind = kind /\ events'[j].name = n
             /\ \A i \in DOMAIN events : i < j
             /\ \A i \in DOMAIN events' : i \in DOMAIN events \/ i = j
  BY NotifiedFacts
<1>2. ~dir'.monitored => \A i \in DOMAIN events' : events'[i].name \in past'.late
  BY <1>1 DEF InOrder
<1>3. ASSUME NEW m \in Present' \ past'.late, NEW i \in DOMAIN events',
             events'[i].kind = "removed", events'[i].name = m
      PROVE  \E j \in DOMAIN events' : i < j /\ events'[j].kind = "added" /\ events'[j].name = m
  <2>1. i \in DOMAIN events /\ events[i].kind = "removed" /\ events[i].name = m
    BY <1>1, <1>3
  <2>2. CASE m \in Present
    <3>1. \E j \in DOMAIN events : i < j /\ events[j].kind = "added" /\ events[j].name = m
      BY <2>1, <2>2 DEF InOrder
    <3> QED BY <1>1, <3>1
  <2>3. CASE m \notin Present
    <3>1. m = n /\ kind = "added"
      BY <2>3
    <3>2. dir.monitored
      BY <2>1 DEF InOrder
    <3> QED BY <1>1, <2>1, <3>1, <3>2
  <2> QED BY <2>2, <2>3
<1> QED BY <1>2, <1>3 DEF InOrder

LEMMA AppearFolder ==
  ASSUME Types, FolderInv, NEW n \in Names, Appear(n)
  PROVE  FolderInv'
<1>1. disk[n] = "none" /\ UNCHANGED << file, view, past >> /\ Notified("added", n)
  BY DEF Appear
<1>a. PICK attribute \in Attributes : disk' = [disk EXCEPT ![n] = attribute]
  BY DEF Appear, Attributes
<1>2. PICK seen \in BOOLEAN :
        /\ seen => dir.load
        /\ dir' = [dir EXCEPT !.unread = IF seen THEN dir.unread \cup {n} ELSE dir.unread]
  BY DEF Appear
<1>3. Present' = Present \cup {n} /\ n \notin Present
  BY <1>1, <1>a DEF Types, Infos, Present, Attributes
<1>4. /\ dir'.monitored = dir.monitored /\ dir'.loaded = dir.loaded /\ dir'.load = dir.load
      /\ dir'.pending = dir.pending /\ dir'.queries = dir.queries
      /\ dir'.batch = dir.batch /\ dir'.answers = dir.answers
      /\ dir'.unread = IF seen THEN dir.unread \cup {n} ELSE dir.unread
  BY <1>2 DEF Types, Dirs
<1>5. /\ \A k, m : Posted(k, m) => Posted(k, m)'
      /\ dir.monitored => Posted("added", n)'
  BY <1>1, PostedGrows
<1>b. \A m \in Names : (Underway(m)' <=> Underway(m)) /\ (Removed(m) => Removed(m)')
  BY <1>1, <1>4, <1>5 DEF Underway, Removed
<1>6. Loading'
  BY <1>1, <1>2, <1>3, <1>4 DEF FolderInv, Loading
<1>7. InfosAreOvertaken'
  BY <1>1, <1>3, <1>4, <1>b DEF FolderInv, InfosAreOvertaken
<1>8. Ghosts'
  BY <1>1, <1>3, <1>4, <1>b DEF FolderInv, Ghosts, Listed
<1>9. ASSUME "kept" \notin Uses PROVE Unowned' /\ InOrder' /\ Missed'
  <2>1. Unowned /\ InOrder /\ Missed /\ Loading
    BY <1>9 DEF FolderInv
  <2>2. Unowned'
    BY <1>1, <1>3, <1>4, <1>b, <2>1 DEF Unowned, Listed
  <2>3. InOrder'
    BY <1>1, <1>3, <1>4, <2>1, OrderGrows
  <2>4. ASSUME ~(past'.failed /\ dir'.loaded), NEW m \in Present' \ (past'.late \cup past'.overtaken)
        PROVE  OnItsWay(m)'
    <3>1. CASE m = n
      BY <1>4, <1>5, <2>1, <3>1 DEF Loading, OnItsWay
    <3>2. CASE m # n
      <4>1. OnItsWay(m)
        BY <1>1, <1>3, <1>4, <2>1, <2>4, <3>2 DEF Missed
      <4> QED BY <1>1, <1>3, <1>4, <1>5, <1>b, <4>1 DEF OnItsWay, Present
    <3> QED BY <3>1, <3>2
  <2> QED BY <2>2, <2>3, <2>4 DEF Missed
<1> QED BY <1>6, <1>7, <1>8, <1>9 DEF FolderInv

LEMMA VanishFolder ==
  ASSUME Types, FolderInv, NEW n \in Names, Vanish(n)
  PROVE  FolderInv'
<1>1. /\ disk[n] # "none" /\ disk' = [disk EXCEPT ![n] = "none"]
      /\ UNCHANGED << file, view >> /\ Notified("removed", n)
      /\ dir' = [dir EXCEPT !.unread = dir.unread \ {n}]
  BY DEF Vanish
<1>2. /\ past'.late = past.late /\ past'.failed = past.failed
      /\ past.overtaken \subseteq past'.overtaken
      /\ ~dir.monitored /\ Underway(n) => n \in past'.overtaken
  BY OvertakenFacts DEF Vanish
<1>3. Present' = Present \ {n}
  BY <1>1 DEF Types, Infos, Present
<1>4. /\ dir'.monitored = dir.monitored /\ dir'.loaded = dir.loaded /\ dir'.load = dir.load
      /\ dir'.pending = dir.pending /\ dir'.queries = dir.queries
      /\ dir'.batch = dir.batch /\ dir'.answers = dir.answers
      /\ dir'.unread = dir.unread \ {n}
  BY <1>1 DEF Types, Dirs
<1>5. /\ \A k, m : Posted(k, m) => Posted(k, m)'
      /\ dir.monitored => Posted("removed", n)'
  BY <1>1, PostedGrows
<1>a. /\ \A m \in Names : (Underway(m)' <=> Underway(m)) /\ (Removed(m) => Removed(m)')
      /\ dir.monitored \/ Underway(n) => Removed(n)'
  BY <1>1, <1>2, <1>4, <1>5 DEF Underway, Removed
<1>6. Loading'
  BY <1>1, <1>3, <1>4 DEF FolderInv, Loading
<1>7. InfosAreOvertaken'
  BY <1>3, <1>a DEF FolderInv, InfosAreOvertaken
<1>8. Ghosts'
  BY <1>1, <1>2, <1>3, <1>4, <1>a DEF FolderInv, Ghosts, Loading, Listed
<1>9. ASSUME "kept" \notin Uses PROVE Unowned' /\ InOrder' /\ Missed'
  <2>1. Unowned /\ InOrder /\ Missed /\ Loading
    BY <1>9 DEF FolderInv
  <2>2. Unowned'
    <3>1. Listed(file)' = Listed(file) /\ Listed(file) \subseteq Names
      BY <1>1 DEF Listed
    <3>2. ASSUME NEW m \in Listed(file) \ Present'
          PROVE  Removed(m)'
      BY <1>3, <1>a, <2>1, <3>1 DEF Unowned
    <3>3. ASSUME NEW m \in Listed(file), dir.load, file[m].unconfirmed
          PROVE  m \in dir'.unread \/ dir'.batch[m] # "none" \/ dir'.pending[m] # "none" \/ Removed(m)'
      <4>1. CASE m = n
        BY <1>a, <2>1, <3>1, <3>3, <4>1 DEF Loading
      <4>2. CASE m # n
        BY <1>4, <1>a, <2>1, <3>1, <3>3, <4>2 DEF Unowned
      <4> QED BY <4>1, <4>2
    <3> QED BY <1>1, <1>4, <1>a, <2>1, <3>1, <3>2, <3>3 DEF Unowned
  <2>3. InOrder'
    BY <1>1, <1>2, <1>3, <1>4, <2>1, OrderGrows
  <2>4. ASSUME ~(past'.failed /\ dir'.loaded), NEW m \in Present' \ (past'.late \cup past'.overtaken)
        PROVE  OnItsWay(m)'
    <3>1. m # n /\ OnItsWay(m)
      BY <1>2, <1>3, <1>4, <2>1, <2>4 DEF Missed
    <3> QED BY <1>1, <1>3, <1>4, <1>5, <1>a, <3>1 DEF OnItsWay, Present
  <2> QED BY <2>2, <2>3, <2>4 DEF Missed
<1> QED BY <1>6, <1>7, <1>8, <1>9 DEF FolderInv

LEMMA ChangeFolder ==
  ASSUME Types, FolderInv, NEW n \in Names, Change(n)
  PROVE  FolderInv'
<1>1. disk[n] # "none" /\ UNCHANGED << dir, file, view, past >> /\ Notified("changed", n)
  BY DEF Change
<1>2. PICK attribute \in {"plain", "hidden"} : disk' = [disk EXCEPT ![n] = attribute]
  BY DEF Change
<1>3. Present' = Present
  BY <1>1, <1>2 DEF Types, Infos, Present
<1>4. \A k, m : Posted(k, m) => Posted(k, m)'
  BY <1>1, PostedGrows
<1>a. \A m \in Names : (Underway(m)' <=> Underway(m)) /\ (Removed(m) => Removed(m)')
  BY <1>1, <1>4 DEF Underway, Removed
<1>5. Loading'
  BY <1>1, <1>3 DEF FolderInv, Loading
<1>6. InfosAreOvertaken'
  BY <1>3, <1>a DEF FolderInv, InfosAreOvertaken
<1>7. Ghosts'
  BY <1>1, <1>3, <1>a DEF FolderInv, Ghosts, Listed
<1>8. ASSUME "kept" \notin Uses PROVE Unowned' /\ InOrder' /\ Missed'
  <2>1. Unowned /\ InOrder /\ Missed
    BY <1>8 DEF FolderInv
  <2>2. Unowned'
    BY <1>1, <1>3, <1>a, <2>1 DEF Unowned, Listed
  <2>3. InOrder'
    BY <1>1, <1>3, <2>1, OrderGrows
  <2>4. Missed'
    BY <1>1, <1>3, <1>4, <1>a, <2>1 DEF Missed, OnItsWay, Present
  <2> QED BY <2>2, <2>3, <2>4
<1> QED BY <1>5, <1>6, <1>7, <1>8 DEF FolderInv

\* The first notification may be forgotten once it has been acted upon.
LEMMA PostedShrinks ==
  ASSUME Types, events # << >>, events' = Tail(events)
  PROVE  \A k, m : Posted(k, m) =>
           Posted(k, m)' \/ (Head(events).kind = k /\ Head(events).name = m)
<1>1. /\ Head(events) = events[1]
      /\ \A i \in DOMAIN events : i # 1 => i - 1 \in DOMAIN events' /\ events'[i - 1] = events[i]
  BY TakenFromQueue
<1> QED BY <1>1 DEF Posted

LEMMA OrderShrinks ==
  ASSUME Types, InOrder, events # << >>, events' = Tail(events), dir'.monitored = dir.monitored,
         past'.late = past.late, Present' = Present
  PROVE  InOrder'
<1>1. /\ \A i \in DOMAIN events' :
           i \in Nat /\ i + 1 \in DOMAIN events /\ events'[i] = events[i + 1]
      /\ \A i \in DOMAIN events :
           i \in Nat /\ (i # 1 => i - 1 \in DOMAIN events' /\ events'[i - 1] = events[i])
  BY TakenFromQueue
<1>2. ~dir'.monitored => \A i \in DOMAIN events' : events'[i].name \in past'.late
  BY <1>1 DEF InOrder
<1>3. ASSUME NEW m \in Present' \ past'.late, NEW i \in DOMAIN events',
             events'[i].kind = "removed", events'[i].name = m
      PROVE  \E j \in DOMAIN events' : i < j /\ events'[j].kind = "added" /\ events'[j].name = m
  <2>1. i \in Nat /\ i + 1 \in DOMAIN events /\ events'[i] = events[i + 1]
    BY <1>1
  <2>2. PICK j \in DOMAIN events : i + 1 < j /\ events[j].kind = "added" /\ events[j].name = m
    BY <1>3, <2>1 DEF InOrder
  <2>3. j \in Nat /\ j # 1 /\ j - 1 \in DOMAIN events' /\ events'[j - 1] = events[j] /\ i < j - 1
    BY <1>1, <2>1, <2>2
  <2> QED BY <2>2, <2>3
<1> QED BY <1>2, <1>3 DEF InOrder

LEMMA NotifyAddedFolder ==
  ASSUME Types, FolderInv, events # << >>, events' = Tail(events), disk' = disk,
         NEW n \in Names, Head(events).kind = "added", Head(events).name = n, dir.monitored,
         NotifyAdded(n)
  PROVE  FolderInv'
<1>1. /\ UNCHANGED << file, past >>
      /\ n \notin Listed(file) =>
           dir' = [dir EXCEPT !.queries = [dir.queries EXCEPT ![n] = dir.queries[n] + 2]]
      /\ n \in Listed(file) => dir' = dir
  BY DEF NotifyAdded
<1>2. /\ dir'.monitored = dir.monitored /\ dir'.loaded = dir.loaded /\ dir'.load = dir.load
      /\ dir'.pending = dir.pending /\ dir'.unread = dir.unread
      /\ dir'.batch = dir.batch /\ dir'.answers = dir.answers
      /\ \A m \in Names : dir.queries[m] > 0 => dir'.queries[m] > 0
      /\ n \notin Listed(file) => dir'.queries[n] > 0
  <2>1. dir \in Dirs /\ dir.queries \in [Names -> Nat]
    BY DEF Types, Dirs
  <2>2. CASE n \in Listed(file)
    BY <1>1, <2>1, <2>2
  <2>3. CASE n \notin Listed(file)
    <3> DEFINE q == [dir.queries EXCEPT ![n] = dir.queries[n] + 2]
    <3>1. (\A m \in Names : dir.queries[m] > 0 => q[m] > 0) /\ q[n] > 0
      BY <2>1
    <3> HIDE DEF q
    <3>2. dir' = [dir EXCEPT !.queries = q]
      BY <1>1, <2>3 DEF q
    <3>3. /\ dir'.monitored = dir.monitored /\ dir'.loaded = dir.loaded /\ dir'.load = dir.load
          /\ dir'.pending = dir.pending /\ dir'.unread = dir.unread /\ dir'.queries = q
          /\ dir'.batch = dir.batch /\ dir'.answers = dir.answers
      BY <2>1, <3>2 DEF Dirs
    <3> QED BY <3>1, <3>3
  <2> QED BY <2>2, <2>3
<1>3. Present' = Present
  BY DEF Present
<1>4. \A k, m : Posted(k, m) => Posted(k, m)' \/ (k = "added" /\ m = n)
  BY PostedShrinks
<1>a. \A m \in Names : (Underway(m)' <=> Underway(m)) /\ (Removed(m) => Removed(m)')
  BY <1>1, <1>2, <1>4 DEF Underway, Removed
<1>5. Loading'
  BY <1>1, <1>2, <1>3 DEF FolderInv, Loading
<1>6. InfosAreOvertaken'
  BY <1>3, <1>a DEF FolderInv, InfosAreOvertaken
<1>7. Ghosts'
  BY <1>1, <1>2, <1>3, <1>a DEF FolderInv, Ghosts, Listed
<1>8. ASSUME "kept" \notin Uses PROVE Unowned' /\ InOrder' /\ Missed'
  <2>1. Unowned /\ InOrder /\ Missed
    BY <1>8 DEF FolderInv
  <2>2. Unowned'
    BY <1>1, <1>2, <1>3, <1>a, <2>1 DEF Unowned, Listed
  <2>3. InOrder'
    BY <1>1, <1>2, <1>3, <2>1, OrderShrinks
  <2>4. ASSUME ~(past'.failed /\ dir'.loaded), NEW m \in Present' \ (past'.late \cup past'.overtaken)
        PROVE  OnItsWay(m)'
    <3>1. OnItsWay(m) /\ m \in Names
      BY <1>1, <1>2, <1>3, <2>1, <2>4 DEF Missed, Present
    <3>2. dir.queries[m] > 0 => dir'.queries[m] > 0
      BY <1>2, <3>1
    <3>3. Posted("added", m) => Posted("added", m)' \/ m = n
      BY <1>4
    <3> QED BY <1>1, <1>2, <1>a, <3>1, <3>2, <3>3 DEF OnItsWay
  <2> QED BY <2>2, <2>3, <2>4 DEF Missed
<1> QED BY <1>5, <1>6, <1>7, <1>8 DEF FolderInv

\* The file is gone, unless the notification of its successor is on its way.
LEMMA NotifyRemovedFolder ==
  ASSUME Types, FolderInv, events # << >>, events' = Tail(events), disk' = disk,
         NEW n \in Names, Head(events).kind = "removed", Head(events).name = n,
         NotifyRemoved(n)
  PROVE  FolderInv'
<1>1. file' = [file EXCEPT ![n] = NoFile] /\ dir' = dir
  BY DEF NotifyRemoved
<1>2. /\ past'.late = past.late /\ past'.failed = past.failed
      /\ past.overtaken \subseteq past'.overtaken
      /\ Underway(n) => n \in past'.overtaken
  BY OvertakenFacts DEF NotifyRemoved
<1>3. Present' = Present
  BY DEF Present
<1>4. \A k, m : Posted(k, m) => Posted(k, m)' \/ (k = "removed" /\ m = n)
  BY PostedShrinks
<1>5. /\ Listed(file)' = Listed(file) \ {n}
      /\ \A m \in Names \ {n} : file'[m] = file[m]
      /\ ~file'[n].unconfirmed
  BY <1>1, NoFileFacts DEF Types, Listed
<1>a. /\ \A m \in Names : /\ Underway(m)' <=> Underway(m)
                          /\ m # n /\ Removed(m) => Removed(m)'
      /\ Underway(n) => Removed(n)'
  BY <1>1, <1>2, <1>4 DEF Underway, Removed
<1>6. Loading'
  BY <1>1, <1>3, <1>5 DEF FolderInv, Loading
<1>7. InfosAreOvertaken'
  BY <1>3, <1>a DEF FolderInv, InfosAreOvertaken
<1>8. Ghosts'
  BY <1>1, <1>2, <1>3, <1>5, <1>a DEF FolderInv, Ghosts, Listed
<1>9. ASSUME "kept" \notin Uses PROVE Unowned' /\ InOrder' /\ Missed'
  <2>1. Unowned /\ InOrder /\ Missed
    BY <1>9 DEF FolderInv
  <2>2. Unowned'
    <3>1. ASSUME NEW m \in Listed(file)'
          PROVE  m \in Listed(file) /\ m # n /\ file'[m] = file[m]
      BY <1>5 DEF Listed
    <3>2. ASSUME NEW m \in Listed(file), m # n, Removed(m)
          PROVE  Removed(m)'
      BY <1>a, <3>2 DEF Listed
    <3> QED BY <1>1, <1>3, <1>5, <2>1, <3>1, <3>2 DEF Unowned
  <2>3. InOrder'
    BY <1>1, <1>2, <1>3, <2>1, OrderShrinks
  <2>4. ASSUME ~(past'.failed /\ dir'.loaded), NEW m \in Present' \ (past'.late \cup past'.overtaken)
        PROVE  OnItsWay(m)'
    <3>1. CASE m # n
      <4>1. OnItsWay(m)
        BY <1>1, <1>2, <1>3, <2>1, <2>4 DEF Missed
      <4>2. m \in Listed(file) => m \in Listed(file)'
        BY <1>5, <3>1
      <4>3. Posted("added", m) => Posted("added", m)'
        BY <1>4
      <4> QED BY <1>1, <1>3, <1>a, <4>1, <4>2, <4>3, <2>4 DEF OnItsWay, Present
    <3>2. CASE m = n
      <4>1. 1 \in DOMAIN events /\ events[1].kind = "removed" /\ events[1].name = n
        BY TakenFromQueue
      <4>2. n \in Present \ past.late
        BY <1>2, <1>3, <2>4, <3>2
      <4>3. PICK j \in DOMAIN events : 1 < j /\ events[j].kind = "added" /\ events[j].name = n
        BY <2>1, <4>1, <4>2 DEF InOrder
      <4>4. Posted("added", n)
        BY <4>3 DEF Posted
      <4>5. Posted("added", n)'
        BY <1>4, <4>4
      <4> QED BY <3>2, <4>5 DEF OnItsWay
    <3> QED BY <3>1, <3>2
  <2> QED BY <2>2, <2>3, <2>4 DEF Missed
<1> QED BY <1>6, <1>7, <1>8, <1>9 DEF FolderInv

\* Nothing is done for a notification that no longer concerns anybody, and one of
\* a change leaves the list as it is.
LEMMA NotifyOtherFolder ==
  ASSUME Types, FolderInv, events # << >>, events' = Tail(events), disk' = disk,
         Head(events).kind # "removed",
         Head(events).kind = "added" => ~dir.monitored,
         dir' = dir, past' = past,
         \A n \in Names : /\ n \in Listed(file)' <=> n \in Listed(file)
                          /\ file'[n].unconfirmed = file[n].unconfirmed
                          /\ file'[n].answer = file[n].answer
  PROVE  FolderInv'
<1>1. Present' = Present /\ Listed(file)' = Listed(file) /\ Listed(file) \subseteq Names
  BY DEF Present, Listed
<1>2. \A m : /\ Posted("removed", m) => Posted("removed", m)'
             /\ dir.monitored /\ Posted("added", m) => Posted("added", m)'
  BY PostedShrinks
<1>a. \A m \in Names : (Underway(m)' <=> Underway(m)) /\ (Removed(m) => Removed(m)')
  BY <1>2 DEF Underway, Removed
<1>3. Loading'
  BY <1>1 DEF FolderInv, Loading
<1>4. InfosAreOvertaken'
  BY <1>1, <1>a DEF FolderInv, InfosAreOvertaken
<1>5. Ghosts'
  BY <1>1, <1>a DEF FolderInv, Ghosts
<1>6. ASSUME "kept" \notin Uses PROVE Unowned' /\ InOrder' /\ Missed'
  <2>1. Unowned /\ InOrder /\ Missed /\ Loading
    BY <1>6 DEF FolderInv
  <2>2. Unowned'
    BY <1>1, <1>a, <2>1 DEF Unowned
  <2>3. InOrder'
    BY <1>1, <2>1, OrderShrinks
  <2>4. Missed'
    BY <1>1, <1>2, <1>a, <2>1 DEF Missed, OnItsWay, Loading, Present
  <2> QED BY <2>2, <2>3, <2>4
<1> QED BY <1>3, <1>4, <1>5, <1>6 DEF FolderInv

LEMMA NotifyFolder ==
  ASSUME Types, FolderInv, Notify
  PROVE  FolderInv'
<1> DEFINE e == Head(events)
           n == e.name
<1>1. events # << >> /\ events' = Tail(events) /\ disk' = disk
  BY DEF Notify
<1>2. e \in Events /\ n \in Names /\ e.kind \in {"added", "removed", "changed"}
  BY <1>1, TakenFromQueue DEF Events
<1>3. CASE e.kind = "added" /\ dir.monitored /\ NotifyAdded(n)
  BY <1>1, <1>2, <1>3, NotifyAddedFolder
<1>4. CASE e.kind = "removed" /\ NotifyRemoved(n)
  BY <1>1, <1>2, <1>4, NotifyRemovedFolder
<1>5. CASE e.kind = "changed" /\ n \in Listed(file) /\ NotifyChanged(n)
  <2>1. file' = [file EXCEPT ![n] = Invalid(file[n])] /\ UNCHANGED << dir, past >>
    BY <1>5 DEF NotifyChanged
  <2>2. file \in [Names -> Records] /\ file[n] \in Records
    BY <1>2 DEF Types
  <2>3. /\ Invalid(file[n]) = NoFile <=> file[n] = NoFile
        /\ Invalid(file[n]).unconfirmed = file[n].unconfirmed
        /\ Invalid(file[n]).answer = file[n].answer
    BY <2>2, InvalidFacts
  <2>5. \A m \in Names : /\ m \in Listed(file)' <=> m \in Listed(file)
                         /\ file'[m].unconfirmed = file[m].unconfirmed
                         /\ file'[m].answer = file[m].answer
    BY <1>2, <2>1, <2>2, <2>3 DEF Listed
  <2> QED BY <1>1, <1>2, <1>5, <2>1, <2>5, NotifyOtherFolder
<1>6. CASE ~Concerns(e) /\ UNCHANGED << dir, file, past >>
  <2>1. e.kind # "removed" /\ (e.kind = "added" => ~dir.monitored)
    BY <1>6 DEF Concerns
  <2>2. \A m \in Names : m \in Listed(file)' <=> m \in Listed(file)
    BY <1>6 DEF Listed
  <2> QED BY <1>1, <1>6, <2>1, <2>2, NotifyOtherFolder
<1>7. \/ Concerns(e) /\ e.kind = "added" /\ NotifyAdded(n)
      \/ Concerns(e) /\ e.kind = "removed" /\ NotifyRemoved(n)
      \/ Concerns(e) /\ e.kind = "changed" /\ NotifyChanged(n)
      \/ ~Concerns(e) /\ UNCHANGED << dir, file, past >>
  BY DEF Notify
<1>8. /\ Concerns(e) /\ e.kind = "added" => dir.monitored
      /\ Concerns(e) /\ e.kind = "changed" => n \in Listed(file)
  BY DEF Concerns
<1> QED BY <1>3, <1>4, <1>5, <1>6, <1>7, <1>8

\* The list stays as it is while what is read of it moves on: nothing that is under
\* way is lost, and nothing new is under way of a file that is gone.
LEMMA ReadFolder ==
  ASSUME Types, FolderInv, UNCHANGED << disk, events, file, past >>,
         dir'.monitored = dir.monitored, dir'.loaded = dir.loaded, dir'.load = dir.load,
         dir'.unread \subseteq dir.unread,
         \A m \in Names : dir'.batch[m] # "none" => dir.load,
         \A m \in Names \ Present : Underway(m)' => Underway(m),
         \A m \in Names : Underway(m) => Underway(m)',
         \A m \in Present : dir.queries[m] > 0 \/ m \in dir.unread =>
           dir'.queries[m] > 0 \/ m \in dir'.unread \/ Underway(m)',
         \A m \in Names :
           m \in dir.unread \/ dir.batch[m] # "none" \/ dir.pending[m] # "none" =>
             m \in dir'.unread \/ dir'.batch[m] # "none" \/ dir'.pending[m] # "none"
  PROVE  FolderInv'
<1>1. /\ Present' = Present /\ Listed(file)' = Listed(file)
      /\ Listed(file) \subseteq Names /\ Present \subseteq Names
      /\ \A k, m : Posted(k, m) <=> Posted(k, m)'
  BY DEF Present, Posted, Listed
<1>2. \A m \in Names : Removed(m)' <=> Removed(m)
  BY <1>1 DEF Removed
<1>3. Loading'
  BY <1>1 DEF FolderInv, Loading
<1>4. InfosAreOvertaken'
  BY <1>1, <1>2 DEF FolderInv, InfosAreOvertaken
<1>5. Ghosts'
  BY <1>1, <1>2 DEF FolderInv, Ghosts
<1>6. ASSUME "kept" \notin Uses PROVE Unowned' /\ InOrder' /\ Missed'
  <2>1. Unowned /\ InOrder /\ Missed
    BY <1>6 DEF FolderInv
  <2>2. Unowned'
    BY <1>1, <1>2, <2>1 DEF Unowned
  <2>3. InOrder'
    BY <1>1, <2>1 DEF InOrder
  <2>4. ASSUME ~(past'.failed /\ dir'.loaded), NEW m \in Present' \ (past'.late \cup past'.overtaken)
        PROVE  OnItsWay(m)'
    <3>1. OnItsWay(m) /\ m \in Present /\ m \in Names
      BY <1>1, <2>1, <2>4 DEF Missed
    <3>2. CASE dir.queries[m] > 0 \/ m \in dir.unread
      BY <3>1, <3>2 DEF OnItsWay
    <3>3. CASE ~(dir.queries[m] > 0 \/ m \in dir.unread)
      BY <1>1, <3>1, <3>3 DEF OnItsWay
    <3> QED BY <3>2, <3>3
  <2> QED BY <2>2, <2>3, <2>4 DEF Missed
<1> QED BY <1>3, <1>4, <1>5, <1>6 DEF FolderInv

LEMMA QueryNewFileFolder ==
  ASSUME Types, FolderInv, NEW n \in Names, QueryNewFile(n)
  PROVE  FolderInv'
<1>1. /\ dir'.monitored = dir.monitored /\ dir'.loaded = dir.loaded /\ dir'.load = dir.load
      /\ dir'.unread = dir.unread /\ dir'.batch = dir.batch /\ dir'.pending = dir.pending
      /\ \A m \in Names : m # n => dir'.queries[m] = dir.queries[m]
      /\ \A m \in Names, a \in Attributes :
           dir'.answers[m][a] = IF m = n /\ a = disk[n] THEN dir.answers[m][a] + 1
                                ELSE dir.answers[m][a]
      /\ UNCHANGED << disk, events, file, past >>
  BY QueryNewFileFacts
<1>2. \A m \in Names, a \in Attributes : dir.answers[m][a] \in Nat
  BY DEF Types, Dirs
<1>3. n \in Present => disk[n] \in Attributes
  BY DEF Types, Infos, Present
<1>4. \A m \in Names : Underway(m) => Underway(m)'
  BY <1>1, <1>2 DEF Underway
<1>5. \A m \in Names \ Present : Underway(m)' => Underway(m)
  <2>1. ASSUME NEW m \in Names \ Present, NEW a \in Attributes
        PROVE  dir'.answers[m][a] = dir.answers[m][a]
    BY <1>1 DEF Present, Attributes
  <2> QED BY <1>1, <2>1 DEF Underway
<1>6. n \in Present => Underway(n)'
  <2>1. ASSUME n \in Present PROVE dir'.answers[n][disk[n]] > 0 /\ disk[n] \in Attributes
    BY <1>1, <1>2, <1>3, <2>1
  <2> QED BY <2>1 DEF Underway
<1>7. \A m \in Present : m \in Names
  BY DEF Present
<1>8. \A m \in Names : dir'.batch[m] # "none" => dir.load
  BY <1>1 DEF FolderInv, Loading
<1>9. \A m \in Present : dir.queries[m] > 0 \/ m \in dir.unread =>
        dir'.queries[m] > 0 \/ m \in dir'.unread \/ Underway(m)'
  BY <1>1, <1>6, <1>7
<1> QED BY <1>1, <1>4, <1>5, <1>8, <1>9, ReadFolder

LEMMA NewFileInfoFolder ==
  ASSUME Types, FolderInv, NEW n \in Names, NEW a \in Attributes, NewFileInfo(n, a)
  PROVE  FolderInv'
<1>1. /\ dir'.monitored = dir.monitored /\ dir'.loaded = dir.loaded /\ dir'.load = dir.load
      /\ dir'.unread = dir.unread /\ dir'.batch = dir.batch /\ dir'.queries = dir.queries
      /\ dir.answers[n][a] > 0
      /\ \A m \in Names, b \in Attributes :
           dir'.answers[m][b] = IF m = n /\ b = a THEN dir.answers[m][b] - 1
                                ELSE dir.answers[m][b]
      /\ \A m \in Names : dir'.pending[m] = IF m = n THEN a ELSE dir.pending[m]
      /\ UNCHANGED << disk, events, file, past >>
  BY NewFileInfoFacts
<1>2. a # "none"
  BY DEF Attributes
<1>3. Underway(n) /\ Underway(n)'
  BY <1>1, <1>2 DEF Underway
<1>4. \A m \in Names : Underway(m)' <=> Underway(m)
  <2>1. ASSUME NEW m \in Names, m # n PROVE Underway(m)' <=> Underway(m)
    BY <1>1, <2>1 DEF Underway
  <2> QED BY <1>3, <2>1
<1>5. \A m \in Names : dir'.batch[m] # "none" => dir.load
  BY <1>1 DEF FolderInv, Loading
<1>6. \A m \in Names :
        m \in dir.unread \/ dir.batch[m] # "none" \/ dir.pending[m] # "none" =>
          m \in dir'.unread \/ dir'.batch[m] # "none" \/ dir'.pending[m] # "none"
  BY <1>1, <1>2
<1>7. \A m \in Present : dir.queries[m] > 0 \/ m \in dir.unread =>
        dir'.queries[m] > 0 \/ m \in dir'.unread \/ Underway(m)'
  BY <1>1
<1> QED BY <1>1, <1>4, <1>5, <1>6, <1>7, ReadFolder

LEMMA ReadNextFolder ==
  ASSUME Types, FolderInv, NEW n \in Names, ReadNext(n)
  PROVE  FolderInv'
<1>1. /\ dir'.monitored = dir.monitored /\ dir'.loaded = dir.loaded /\ dir'.load = dir.load
      /\ dir'.queries = dir.queries /\ dir'.answers = dir.answers /\ dir'.pending = dir.pending
      /\ n \in dir.unread /\ dir'.unread = dir.unread \ {n}
      /\ \A m \in Names : dir'.batch[m] = IF m = n THEN disk[n] ELSE dir.batch[m]
      /\ UNCHANGED << disk, events, file, past >>
  BY ReadNextFacts
<1>2. n \in Present /\ disk[n] # "none" /\ dir.load
  BY <1>1 DEF FolderInv, Loading, Present
<1>3. \A m \in Names : dir.batch[m] # "none" => dir'.batch[m] # "none"
  BY <1>1, <1>2
<1>4. \A m \in Names : Underway(m) => Underway(m)'
  BY <1>1, <1>3 DEF Underway
<1>5. \A m \in Names \ Present : Underway(m)' => Underway(m)
  BY <1>1, <1>2 DEF Underway
<1>6. Underway(n)' /\ dir'.batch[n] # "none"
  BY <1>1, <1>2 DEF Underway
<1>7. /\ \A m \in Names : dir'.batch[m] # "none" => dir.load
      /\ \A m \in Present : dir.queries[m] > 0 \/ m \in dir.unread =>
           dir'.queries[m] > 0 \/ m \in dir'.unread \/ Underway(m)'
      /\ \A m \in Names :
           m \in dir.unread \/ dir.batch[m] # "none" \/ dir.pending[m] # "none" =>
             m \in dir'.unread \/ dir'.batch[m] # "none" \/ dir'.pending[m] # "none"
  BY <1>1, <1>2, <1>3, <1>6
<1>8. dir'.unread \subseteq dir.unread
  BY <1>1
<1> QED BY <1>1, <1>4, <1>5, <1>7, <1>8, ReadFolder

LEMMA MoreFilesFolder ==
  ASSUME Types, FolderInv, MoreFiles
  PROVE  FolderInv'
<1>1. /\ dir'.monitored = dir.monitored /\ dir'.loaded = dir.loaded /\ dir'.load = dir.load
      /\ dir'.queries = dir.queries /\ dir'.answers = dir.answers /\ dir'.unread = dir.unread
      /\ \A n \in Names : dir'.batch[n] = "none"
      /\ \A n \in Names : dir'.pending[n] = IF dir.batch[n] # "none" THEN dir.batch[n]
                                            ELSE dir.pending[n]
      /\ UNCHANGED << disk, events, file, past >>
  BY MoreFilesFacts
<1>2. \A m \in Names : Underway(m)' <=> Underway(m)
  BY <1>1 DEF Underway
<1>3. /\ \A m \in Names : dir'.batch[m] # "none" => dir.load
      /\ \A m \in Present : dir.queries[m] > 0 \/ m \in dir.unread =>
           dir'.queries[m] > 0 \/ m \in dir'.unread \/ Underway(m)'
      /\ \A m \in Names :
           m \in dir.unread \/ dir.batch[m] # "none" \/ dir.pending[m] # "none" =>
             m \in dir'.unread \/ dir'.batch[m] # "none" \/ dir'.pending[m] # "none"
  BY <1>1 DEF Present
<1> QED BY <1>1, <1>2, <1>3, ReadFolder

LEMMA DequeueFolder ==
  ASSUME Types, FolderInv, DequeuePending
  PROVE  FolderInv'
<1>1. PICK unchanged \in SUBSET Names : Becomes(Dequeue(dir, view, file, unchanged))
  BY DEF DequeuePending
<1> DEFINE r == Dequeue(dir, view, file, unchanged)
<1>2. /\ dir \in Dirs /\ IsFiniteSet(Held(view)) /\ file \in [Names -> Records]
      /\ UNCHANGED << disk, events, past >>
  BY DEF Types, DequeuePending
<1>3. dir' = r.dir /\ file' = r.file
  BY <1>1 DEF Becomes
<1>4. /\ ~dir.monitored => r.file = file
      /\ dir.monitored => r.file = After(dir, view, file, unchanged)
  BY <1>2, DequeueIs
<1>a. r.dir.pending = NoInfos /\ r.dir.unread = dir.unread /\ r.dir.queries = dir.queries
  BY <1>2, DequeueIs
<1>b. r.dir.batch = dir.batch /\ r.dir.answers = dir.answers
  BY <1>2, DequeueIs
<1>c. r.dir.loaded = dir.loaded
  BY <1>2, DequeueIs
<1>d. r.dir.monitored = dir.monitored
  BY <1>2, DequeueIs
<1>e. r.dir.load = dir.load
  BY <1>2, DequeueIs
<1> HIDE DEF r
<1>5. /\ dir'.monitored = dir.monitored /\ dir'.loaded = dir.loaded /\ dir'.load = dir.load
      /\ dir'.unread = dir.unread /\ dir'.queries = dir.queries
      /\ dir'.batch = dir.batch /\ dir'.answers = dir.answers
      /\ \A n \in Names : dir'.pending[n] = "none"
  BY <1>3, <1>a, <1>b, <1>c, <1>d, <1>e, NoInfosFacts
<1>6. /\ Present' = Present /\ \A k, m : Posted(k, m) <=> Posted(k, m)'
      /\ Listed(file) \subseteq Names /\ Present \subseteq Names
  BY <1>2 DEF Present, Posted, Listed
<1>7. /\ \A m \in Names : Removed(m)' <=> Removed(m)
      /\ \A m \in Names : Underway(m)' => Underway(m)
      /\ \A m \in Names : Underway(m) /\ dir.pending[m] = "none" => Underway(m)'
  BY <1>2, <1>5, <1>6 DEF Removed, Underway
<1>8. InfosAreOvertaken'
  BY <1>6, <1>7 DEF FolderInv, InfosAreOvertaken
<1>9. CASE ~dir.monitored
  <2>1. file' = file /\ ~dir.load /\ ~dir.loaded
    BY <1>3, <1>4, <1>9 DEF FolderInv, Loading
  <2>2. Loading'
    BY <1>5, <1>6, <2>1 DEF FolderInv, Loading
  <2>3. Ghosts'
    BY <1>5, <2>1 DEF Ghosts
  <2>4. ASSUME "kept" \notin Uses PROVE Unowned' /\ InOrder' /\ Missed'
    <3>1. Unowned /\ InOrder /\ Missed
      BY <2>4 DEF FolderInv
    <3>2. Listed(file)' = {}
      BY <1>9, <2>1, <3>1 DEF Unowned, Listed
    <3>3. Unowned'
      BY <3>2 DEF Unowned
    <3>4. InOrder'
      BY <1>2, <1>5, <1>6, <3>1 DEF InOrder
    <3>5. Missed'
      BY <1>5, <2>1 DEF Missed, OnItsWay
    <3> QED BY <3>3, <3>4, <3>5
  <2> QED BY <1>8, <2>2, <2>3, <2>4 DEF FolderInv
<1>10. CASE dir.monitored
  <2>1. /\ \A n \in Names :
              /\ dir.pending[n] # "none" => /\ n \in Listed(file') /\ ~file'[n].unconfirmed
                                            /\ file'[n].answer = "none"
              /\ dir.pending[n] = "none" /\ dir.loaded /\ file[n].unconfirmed => file'[n] = NoFile
              /\ dir.pending[n] = "none" /\ ~(dir.loaded /\ file[n].unconfirmed) =>
                   /\ n \in Listed(file') <=> n \in Listed(file)
                   /\ file'[n].unconfirmed = file[n].unconfirmed
                   /\ file'[n].answer = file[n].answer
              /\ dir.loaded => ~file'[n].unconfirmed
    <3>1. file' = After(dir, view, file, unchanged)
      BY <1>3, <1>4, <1>10
    <3> QED BY <1>2, <3>1, ListAfter
  <2>2. \A n \in Names : ~(dir.loaded /\ file[n].unconfirmed)
    BY DEF FolderInv, Loading
  <2>3. /\ Listed(file)' = Listed(file') /\ Listed(file') \subseteq Names
        /\ \A n \in Names : dir.pending[n] = "none" =>
             /\ n \in Listed(file') <=> n \in Listed(file)
             /\ file'[n].unconfirmed = file[n].unconfirmed
             /\ file'[n].answer = file[n].answer
    BY <2>1, <2>2 DEF Listed
  <2>4. Loading'
    BY <1>5, <1>6, <2>1 DEF FolderInv, Loading
  <2>5. \A n \in Names \ Present : dir.pending[n] # "none" => Removed(n)
    BY DEF FolderInv, InfosAreOvertaken, Underway
  <2>6. Ghosts'
    <3> SUFFICES ASSUME NEW n \in Listed(file') \ Present
                 PROVE  \/ Removed(n)
                        \/ (dir.loaded => past.failed) /\ (dir.load => file'[n].unconfirmed)
      BY <1>2, <1>5, <1>6, <1>7, <2>3 DEF Ghosts
    <3>1. CASE dir.pending[n] # "none"
      BY <2>3, <2>5, <3>1
    <3>2. CASE dir.pending[n] = "none"
      BY <2>3, <3>2 DEF FolderInv, Ghosts
    <3> QED BY <3>1, <3>2
  <2>7. ASSUME "kept" \notin Uses PROVE Unowned' /\ InOrder' /\ Missed'
    <3>1. Unowned /\ InOrder /\ Missed
      BY <2>7 DEF FolderInv
    <3>2. Unowned'
      <4>1. ASSUME NEW n \in Listed(file') \ Present
            PROVE  Removed(n)
        BY <2>3, <2>5, <3>1 DEF Unowned
      <4>2. ASSUME NEW n \in Listed(file'), dir.load, file'[n].unconfirmed
            PROVE  n \in dir.unread \/ dir.batch[n] # "none" \/ Removed(n)
        <5>1. dir.pending[n] = "none"
          BY <2>1, <2>3, <4>2
        <5> QED BY <2>3, <3>1, <4>2, <5>1 DEF Unowned
      <4>3. ASSUME NEW n \in Listed(file'), file'[n].answer = "missing"
            PROVE  Removed(n)
        <5>1. dir.pending[n] = "none"
          BY <2>1, <2>3, <4>3
        <5> QED BY <2>3, <3>1, <4>3, <5>1 DEF Unowned
      <4> QED BY <1>2, <1>5, <1>6, <1>7, <1>10, <2>3, <4>1, <4>2, <4>3 DEF Unowned
    <3>3. InOrder'
      BY <1>2, <1>5, <1>6, <3>1 DEF InOrder
    <3>4. ASSUME ~(past'.failed /\ dir'.loaded), NEW m \in Present' \ (past'.late \cup past'.overtaken)
          PROVE  OnItsWay(m)'
      <4>1. OnItsWay(m) /\ m \in Names
        BY <1>2, <1>5, <1>6, <3>1, <3>4 DEF Missed
      <4>2. CASE dir.pending[m] # "none"
        BY <2>1, <2>3, <4>1, <4>2 DEF OnItsWay
      <4>3. CASE dir.pending[m] = "none"
        BY <1>5, <1>6, <1>7, <2>3, <4>1, <4>3 DEF OnItsWay
      <4> QED BY <4>2, <4>3
    <3> QED BY <3>2, <3>3, <3>4 DEF Missed
  <2> QED BY <1>8, <2>4, <2>6, <2>7 DEF FolderInv
<1> QED BY <1>9, <1>10

LEMMA StartLoadFolder ==
  ASSUME Types, FolderInv, StartLoad
  PROVE  FolderInv'
<1>1. /\ dir'.monitored = dir.monitored /\ dir'.loaded = dir.loaded /\ dir'.load
      /\ dir'.queries = dir.queries /\ dir'.answers = dir.answers /\ dir'.batch = dir.batch
      /\ dir'.unread = Present /\ dir'.pending = dir.pending
      /\ dir.monitored /\ ~dir.loaded /\ ~dir.load
      /\ Listed(file') = Listed(file)
      /\ \A n \in Names : file'[n].answer = file[n].answer
      /\ \A n \in Listed(file) : file'[n].unconfirmed
      /\ UNCHANGED << disk, events, past >>
  BY StartLoadFacts
<1>2. /\ Present' = Present /\ \A k, m : Posted(k, m) <=> Posted(k, m)'
      /\ Listed(file)' = Listed(file) /\ Listed(file) \subseteq Names
  BY <1>1 DEF Present, Posted, Listed
<1>a. \A m \in Names : (Underway(m)' <=> Underway(m)) /\ (Removed(m)' <=> Removed(m))
  BY <1>1, <1>2 DEF Underway, Removed
<1>3. Loading'
  BY <1>1, <1>2 DEF Loading
<1>4. InfosAreOvertaken'
  BY <1>2, <1>a DEF FolderInv, InfosAreOvertaken
<1>5. Ghosts'
  BY <1>1, <1>2 DEF Ghosts
<1>6. ASSUME "kept" \notin Uses PROVE Unowned' /\ InOrder' /\ Missed'
  <2>1. Unowned /\ InOrder
    BY <1>6 DEF FolderInv
  <2>2. Unowned'
    BY <1>1, <1>2, <1>a, <2>1 DEF Unowned
  <2>3. InOrder'
    BY <1>1, <1>2, <2>1 DEF InOrder
  <2>4. Missed'
    BY <1>1, <1>2 DEF Missed, OnItsWay
  <2> QED BY <2>2, <2>3, <2>4
<1> QED BY <1>3, <1>4, <1>5, <1>6 DEF FolderInv

LEMMA LoadEndsFolder ==
  ASSUME Types, FolderInv, LoadEnds
  PROVE  FolderInv'
<1> DEFINE d == Loaded(dir)
<1>1. PICK unchanged \in SUBSET Names : Becomes(LoadDone(dir, view, file, FALSE, unchanged))
  BY DEF LoadEnds
<1>2. /\ dir.load /\ dir.unread = {} /\ dir.batch = NoInfos
      /\ past' = [past EXCEPT !.failed = FALSE] /\ UNCHANGED << disk, events >>
  BY DEF LoadEnds
<1>3. /\ dir.monitored => file' = After(d, view, file, unchanged)
      /\ dir'.monitored = dir.monitored /\ dir'.answers = dir.answers
      /\ dir'.loaded /\ ~dir'.load /\ dir'.queries = dir.queries /\ dir'.unread = {}
      /\ \A n \in Names : dir'.pending[n] = "none" /\ dir'.batch[n] = "none"
      /\ ~past'.failed /\ past'.overtaken = past.overtaken /\ past'.late = past.late
  BY <1>1, <1>2, LoadEndsFacts
<1>4. /\ IsFiniteSet(Held(view)) /\ file \in [Names -> Records]
      /\ d \in Dirs /\ d.loaded /\ d.pending = dir.pending
      /\ \A n \in Names : dir.batch[n] = "none"
  BY <1>2, LoadedFacts, NoInfosFacts DEF Types
<1>5. dir.monitored /\ ~dir.loaded
  BY <1>2 DEF FolderInv, Loading
<1> HIDE DEF d
<1>6. \A n \in Names :
        /\ dir.pending[n] # "none" => n \in Listed(file') /\ file'[n].answer = "none"
        /\ dir.pending[n] = "none" /\ file[n].unconfirmed => file'[n] = NoFile
        /\ dir.pending[n] = "none" /\ ~file[n].unconfirmed =>
             (n \in Listed(file') <=> n \in Listed(file)) /\ file'[n].answer = file[n].answer
        /\ ~file'[n].unconfirmed
  <2>1. file' = After(d, view, file, unchanged)
    BY <1>3, <1>5
  <2> QED BY <1>4, <2>1, ListAfter
<1>7. /\ Present' = Present /\ \A k, m : Posted(k, m) <=> Posted(k, m)'
      /\ Listed(file)' = Listed(file') /\ Listed(file') \subseteq Names /\ Present \subseteq Names
  BY <1>2 DEF Present, Posted, Listed
<1>8. ASSUME NEW n \in Names, dir.pending[n] = "none"
      PROVE  n \in Listed(file') <=> n \in Listed(file) /\ ~file[n].unconfirmed
  BY <1>6, <1>8 DEF Listed
<1>9. Loading'
  BY <1>3, <1>5, <1>6 DEF Loading
<1>10. /\ \A m \in Names : Removed(m)' <=> Removed(m)
       /\ \A m \in Names : Underway(m)' => Underway(m)
       /\ \A m \in Names : Underway(m) /\ dir.pending[m] = "none" => Underway(m)'
  BY <1>3, <1>4, <1>7 DEF Removed, Underway
<1>11. InfosAreOvertaken'
  BY <1>7, <1>10 DEF FolderInv, InfosAreOvertaken
<1>12. ASSUME NEW n \in Listed(file') \ Present
       PROVE  Removed(n)
  <2>1. CASE dir.pending[n] # "none"
    BY <1>7, <2>1 DEF FolderInv, InfosAreOvertaken, Underway
  <2>2. CASE dir.pending[n] = "none"
    BY <1>2, <1>7, <1>8, <2>2 DEF FolderInv, Ghosts
  <2> QED BY <2>1, <2>2
<1>13. Ghosts'
  BY <1>7, <1>10, <1>12 DEF Ghosts
<1>14. ASSUME "kept" \notin Uses PROVE Unowned' /\ InOrder' /\ Missed'
  <2>1. Unowned /\ InOrder /\ Missed
    BY <1>14 DEF FolderInv
  <2>2. ASSUME NEW n \in Listed(file'), file'[n].answer = "missing"
        PROVE  Removed(n)
    <3>1. dir.pending[n] = "none"
      BY <1>6, <1>7, <2>2
    <3>2. n \in Listed(file) /\ ~file[n].unconfirmed
      BY <1>7, <1>8, <3>1
    <3>3. file[n].answer = "missing"
      BY <1>6, <1>7, <2>2, <3>1, <3>2
    <3> QED BY <2>1, <3>2, <3>3 DEF Unowned
  <2>3. Unowned'
    BY <1>3, <1>5, <1>7, <1>10, <1>12, <2>2 DEF Unowned
  <2>4. InOrder'
    BY <1>2, <1>3, <1>7, <2>1 DEF InOrder
  <2>5. ASSUME NEW m \in Present' \ (past'.late \cup past'.overtaken)
        PROVE  OnItsWay(m)'
    <3>1. OnItsWay(m) /\ m \in Names /\ m \in Present \ (past.late \cup past.overtaken)
      BY <1>3, <1>5, <1>7, <2>1, <2>5 DEF Missed
    <3>2. CASE Posted("added", m) \/ dir.queries[m] > 0
      BY <1>3, <1>7, <3>2 DEF OnItsWay
    <3>3. CASE dir.pending[m] # "none"
      BY <1>6, <1>7, <3>1, <3>3 DEF OnItsWay
    <3>4. CASE dir.pending[m] = "none" /\ Underway(m)
      BY <1>10, <3>1, <3>4 DEF OnItsWay
    <3>5. CASE dir.pending[m] = "none" /\ m \in Listed(file) /\ ~file[m].unconfirmed
      BY <1>7, <1>8, <3>1, <3>5 DEF OnItsWay
    <3>6. CASE dir.pending[m] = "none" /\ m \in Listed(file) /\ file[m].unconfirmed
      <4>1. Posted("removed", m)
        BY <1>2, <1>4, <2>1, <3>1, <3>6 DEF Unowned, Removed
      <4>2. Posted("added", m)
        BY <2>1, <3>1, <4>1 DEF InOrder, Posted
      <4> QED BY <1>7, <4>2 DEF OnItsWay
    <3> QED BY <1>2, <3>1, <3>2, <3>3, <3>4, <3>5, <3>6 DEF OnItsWay
  <2> QED BY <2>3, <2>4, <2>5 DEF Missed
<1> QED BY <1>9, <1>11, <1>13, <1>14 DEF FolderInv

LEMMA LoadFailsFolder ==
  ASSUME Types, FolderInv, LoadFails
  PROVE  FolderInv'
<1> DEFINE d == Loaded(dir)
           known == Assumed(file)
           told == IF view.step = "underway" THEN Stop(view) ELSE view
<1>1. PICK unchanged \in SUBSET Names : Becomes(LoadDone(dir, view, file, TRUE, unchanged))
  BY DEF LoadFails
<1>2. /\ dir.load /\ past' = [past EXCEPT !.failed = TRUE, !.stopped = TRUE]
      /\ UNCHANGED << disk, events >>
  BY DEF LoadFails
<1>3. /\ dir.monitored => file' = After(d, told, known, unchanged)
      /\ dir'.monitored = dir.monitored /\ dir'.answers = dir.answers
      /\ dir'.loaded /\ ~dir'.load /\ dir'.queries = dir.queries /\ dir'.unread = {}
      /\ \A n \in Names : dir'.pending[n] = "none" /\ dir'.batch[n] = "none"
      /\ past'.failed /\ past'.overtaken = past.overtaken /\ past'.late = past.late
  BY <1>1, <1>2, LoadFailsFacts
<1>4. /\ known \in [Names -> Records]
      /\ \A n \in Names : /\ ~known[n].unconfirmed
                          /\ known[n].answer = file[n].answer
                          /\ n \in Listed(known) <=> n \in Listed(file)
      /\ d \in Dirs /\ d.loaded /\ d.pending = dir.pending
  BY AssumedFacts, LoadedFacts DEF Types
<1>5. IsFiniteSet(Held(told))
  <2>1. Held(Stop(view)) \subseteq Held(view)
    BY DEF Types, Views, Stop, Held
  <2> QED BY <2>1, FS_Subset DEF Types
<1>6. dir.monitored
  BY <1>2 DEF FolderInv, Loading
<1> HIDE DEF d, known, told
<1>7. \A n \in Names :
        /\ dir.pending[n] # "none" => file'[n].answer = "none"
        /\ dir.pending[n] = "none" =>
             (n \in Listed(file') <=> n \in Listed(file)) /\ file'[n].answer = file[n].answer
        /\ ~file'[n].unconfirmed
  <2>1. file' = After(d, told, known, unchanged)
    BY <1>3, <1>6
  <2>2. \A n \in Names :
          /\ d.pending[n] # "none" => file'[n].answer = "none"
          /\ d.pending[n] = "none" /\ ~(d.loaded /\ known[n].unconfirmed) =>
               (n \in Listed(file') <=> n \in Listed(known)) /\ file'[n].answer = known[n].answer
          /\ d.loaded => ~file'[n].unconfirmed
    BY <1>4, <1>5, <2>1, ListAfter
  <2> QED BY <1>4, <2>2
<1>8. /\ Present' = Present /\ \A k, m : Posted(k, m) <=> Posted(k, m)'
      /\ Listed(file)' = Listed(file') /\ Listed(file') \subseteq Names
  BY <1>2 DEF Present, Posted, Listed
<1>9. Loading'
  BY <1>3, <1>6, <1>7 DEF Loading
<1>10. /\ \A m \in Names : Removed(m)' <=> Removed(m)
       /\ \A m \in Names : Underway(m)' => Underway(m)
  BY <1>3, <1>8 DEF Removed, Underway
<1>11. InfosAreOvertaken'
  BY <1>8, <1>10 DEF FolderInv, InfosAreOvertaken
<1>12. Ghosts'
  BY <1>3 DEF Ghosts
<1>13. ASSUME "kept" \notin Uses PROVE Unowned' /\ InOrder' /\ Missed'
  <2>1. Unowned /\ InOrder
    BY <1>13 DEF FolderInv
  <2>2. ASSUME NEW n \in Listed(file') \ Present
        PROVE  Removed(n)
    <3>1. CASE dir.pending[n] # "none"
      BY <1>8, <3>1 DEF FolderInv, InfosAreOvertaken, Underway
    <3>2. CASE dir.pending[n] = "none"
      BY <1>7, <1>8, <2>1, <3>2 DEF Unowned
    <3> QED BY <3>1, <3>2
  <2>3. ASSUME NEW n \in Listed(file'), file'[n].answer = "missing"
        PROVE  Removed(n)
    <3>1. dir.pending[n] = "none"
      BY <1>7, <1>8, <2>3
    <3> QED BY <1>7, <1>8, <2>1, <2>3, <3>1 DEF Unowned
  <2>4. Unowned'
    BY <1>3, <1>6, <1>8, <1>10, <2>2, <2>3 DEF Unowned
  <2>5. InOrder'
    BY <1>2, <1>3, <1>8, <2>1 DEF InOrder
  <2>6. Missed'
    BY <1>3 DEF Missed
  <2> QED BY <2>4, <2>5, <2>6
<1> QED BY <1>9, <1>11, <1>12, <1>13 DEF FolderInv

\* One file changes, or is found gone.
LEMMA OneFileFolder ==
  ASSUME Types, FolderInv, UNCHANGED << disk, events, dir, past >>, NEW n \in Names,
         n \in Listed(file), \A m \in Names : m # n => file'[m] = file[m],
         n \in Listed(file') => file'[n].unconfirmed = file[n].unconfirmed,
         n \notin Listed(file') => ~file'[n].unconfirmed /\ file[n].answer = "missing",
         n \in Listed(file') /\ file'[n].answer = "missing" =>
           file[n].answer = "missing" \/ n \notin Present
  PROVE  FolderInv'
<1>1. /\ Present' = Present /\ \A k, m : Posted(k, m) <=> Posted(k, m)'
      /\ Listed(file)' = Listed(file') /\ Listed(file) \subseteq Names /\ Present \subseteq Names
      /\ Listed(file') \subseteq Listed(file)
      /\ \A m \in Listed(file) : m # n => m \in Listed(file')
  BY DEF Present, Posted, Listed
<1>2. \A m \in Names : (Underway(m)' <=> Underway(m)) /\ (Removed(m)' <=> Removed(m))
  BY <1>1 DEF Underway, Removed
<1>3. \A m \in Names : file'[m].unconfirmed => file[m].unconfirmed
  OBVIOUS
<1>4. \A m \in Listed(file') : file'[m].unconfirmed = file[m].unconfirmed
  BY <1>1
<1>5. Loading'
  BY <1>1, <1>3 DEF FolderInv, Loading
<1>6. InfosAreOvertaken'
  BY <1>1, <1>2 DEF FolderInv, InfosAreOvertaken
<1>7. Ghosts'
  BY <1>1, <1>2, <1>4 DEF FolderInv, Ghosts
<1>8. ASSUME "kept" \notin Uses PROVE Unowned' /\ InOrder' /\ Missed'
  <2>1. Unowned /\ InOrder /\ Missed
    BY <1>8 DEF FolderInv
  <2>2. ASSUME NEW m \in Listed(file'), file'[m].answer = "missing"
        PROVE  Removed(m)
    <3>1. m \in Listed(file) /\ m \in Names
      BY <1>1
    <3>2. file[m].answer = "missing" \/ m \notin Present
      BY <2>2, <3>1
    <3> QED BY <2>1, <3>1, <3>2 DEF Unowned
  <2>3. Unowned'
    BY <1>1, <1>2, <1>4, <2>1, <2>2 DEF Unowned
  <2>4. InOrder'
    BY <1>1, <2>1 DEF InOrder
  <2>5. ASSUME ~(past'.failed /\ dir'.loaded), NEW m \in Present' \ (past'.late \cup past'.overtaken)
        PROVE  OnItsWay(m)'
    <3>1. OnItsWay(m) /\ m \in Names /\ m \in Present \ (past.late \cup past.overtaken)
      BY <1>1, <2>1, <2>5 DEF Missed
    <3>2. CASE m \in Listed(file) => m \in Listed(file')
      BY <1>1, <1>2, <3>1, <3>2 DEF OnItsWay
    <3>3. CASE m \in Listed(file) /\ m \notin Listed(file')
      <4>1. m = n /\ file[m].answer = "missing"
        BY <1>1, <3>3
      <4>2. Posted("removed", m)
        BY <2>1, <3>1, <3>3, <4>1 DEF Unowned, Removed
      <4>3. Posted("added", m)
        BY <2>1, <3>1, <4>2 DEF InOrder, Posted
      <4> QED BY <1>1, <4>3 DEF OnItsWay
    <3> QED BY <3>2, <3>3
  <2> QED BY <2>3, <2>4, <2>5 DEF Missed
<1> QED BY <1>5, <1>6, <1>7, <1>8 DEF FolderInv

LEMMA QueryInfoFolder ==
  ASSUME Types, FolderInv, NEW n \in Names, QueryInfo(n)
  PROVE  FolderInv'
<1>1. /\ Listed(file') = Listed(file) /\ n \in Listed(file)
      /\ file'[n].unconfirmed = file[n].unconfirmed
      /\ file'[n].answer = IF n \in Present THEN disk[n] ELSE "missing"
      /\ \A m \in Names : m # n => file'[m] = file[m]
      /\ UNCHANGED << disk, events, dir, past >>
  BY QueryInfoFacts
<1>2. n \in Present => disk[n] # "missing"
  BY DEF Types, Infos, Present, Attributes
<1> QED BY <1>1, <1>2, OneFileFolder

LEMMA InfoArrivesFolder ==
  ASSUME Types, FolderInv, NEW n \in Names, InfoArrives(n)
  PROVE  FolderInv'
<1>1. /\ n \in Listed(file)
      /\ file[n].answer = "missing" => file'[n] = NoFile
      /\ file[n].answer # "missing" =>
           /\ n \in Listed(file') /\ file'[n].answer = "none"
           /\ file'[n].unconfirmed = file[n].unconfirmed
      /\ \A m \in Names : m # n => file'[m] = file[m]
      /\ UNCHANGED << disk, events, dir, past >>
  BY InfoArrivesFacts
<1>2. CASE file[n].answer = "missing"
  <2>1. n \notin Listed(file') /\ ~file'[n].unconfirmed
    BY <1>1, <1>2, NoFileFacts DEF Listed
  <2> QED BY <1>1, <1>2, <2>1, OneFileFolder
<1>3. CASE file[n].answer # "missing"
  BY <1>1, <1>3, OneFileFolder
<1> QED BY <1>2, <1>3

LEMMA LinkArrivesFolder ==
  ASSUME Types, FolderInv, NEW n \in Names, LinkArrives(n)
  PROVE  FolderInv'
BY LinkArrivesFacts, OneFileFolder

LEMMA ForceReloadFolder ==
  ASSUME Types, FolderInv, ForceReload
  PROVE  FolderInv'
<1>1. /\ dir'.monitored = dir.monitored /\ ~dir'.loaded /\ ~dir'.load
      /\ dir'.queries = dir.queries /\ dir'.answers = dir.answers
      /\ dir'.unread = {}
      /\ \A n \in Names : dir'.pending[n] = "none" /\ dir'.batch[n] = "none"
      /\ Listed(file') = Listed(file)
      /\ \A n \in Names : file'[n].answer = "none"
      /\ UNCHANGED << disk, events, past >>
  BY ForceReloadFacts
<1>2. /\ Present' = Present /\ \A k, m : Posted(k, m) <=> Posted(k, m)'
      /\ Listed(file)' = Listed(file) /\ Listed(file) \subseteq Names
  BY <1>1 DEF Present, Posted, Listed
<1>a. \A m \in Names : (Underway(m)' => Underway(m)) /\ (Removed(m)' <=> Removed(m))
  BY <1>1, <1>2 DEF Underway, Removed
<1>3. Loading' /\ Ghosts' /\ Missed'
  BY <1>1 DEF Loading, Ghosts, Missed, OnItsWay
<1>b. InfosAreOvertaken'
  BY <1>2, <1>a DEF FolderInv, InfosAreOvertaken
<1>4. ASSUME "kept" \notin Uses PROVE Unowned' /\ InOrder'
  <2>1. Unowned /\ InOrder
    BY <1>4 DEF FolderInv
  <2>2. Unowned'
    BY <1>1, <1>2, <1>a, <2>1 DEF Unowned
  <2>3. InOrder'
    BY <1>1, <1>2, <2>1 DEF InOrder
  <2> QED BY <2>2, <2>3
<1> QED BY <1>3, <1>4, <1>b DEF FolderInv

\* The last monitor leaves: what is on its way is late.
LEMMA LeavesFolder ==
  ASSUME Types, FolderInv, LastMonitorLeaves, UNCHANGED << disk, events >>,
         past'.late = Late(past).late, past'.overtaken = past.overtaken
  PROVE  FolderInv'
<1>1. /\ ~dir'.monitored /\ ~dir'.loaded /\ ~dir'.load
      /\ dir'.unread = {} /\ dir'.answers = dir.answers
      /\ \A n \in Names : dir'.pending[n] = "none" /\ dir'.batch[n] = "none"
      /\ "kept" \notin Uses => \A n \in Names : file'[n] = NoFile
  BY LeavesFacts
<1>2. \A i \in DOMAIN events : events[i].name \in past'.late
  BY LateFacts
<1>3. Loading' /\ Ghosts' /\ Missed'
  BY <1>1 DEF Loading, Ghosts, Missed, OnItsWay
<1>a. /\ Present' = Present
      /\ \A m \in Names : (Underway(m)' => Underway(m)) /\ (Removed(m)' <=> Removed(m))
  BY <1>1 DEF Present, Underway, Removed, Posted
<1>b. InfosAreOvertaken'
  BY <1>a DEF FolderInv, InfosAreOvertaken
<1>4. ASSUME "kept" \notin Uses PROVE Unowned' /\ InOrder'
  <2>1. Listed(file)' = {}
    BY <1>1, <1>4 DEF Listed
  <2>2. Unowned'
    BY <2>1 DEF Unowned
  <2>3. InOrder'
    BY <1>2 DEF InOrder
  <2> QED BY <2>2, <2>3
<1> QED BY <1>3, <1>4, <1>b DEF FolderInv

\* The folder is left alone, but for another monitor perhaps.
LEMMA StillFolder ==
  ASSUME Types, FolderInv, UNCHANGED << disk, events, file >>,
         dir.monitored => dir'.monitored, dir'.loaded = dir.loaded, dir'.load = dir.load,
         dir'.unread = dir.unread, dir'.pending = dir.pending, dir'.queries = dir.queries,
         dir'.batch = dir.batch, dir'.answers = dir.answers,
         past'.failed = past.failed, past'.overtaken = past.overtaken, past'.late = past.late
  PROVE  FolderInv'
<1>1. Present' = Present /\ Listed(file)' = Listed(file) /\ \A k, m : Posted(k, m) <=> Posted(k, m)'
  BY DEF Present, Posted, Listed
<1>a. \A m \in Names : (Underway(m)' <=> Underway(m)) /\ (Removed(m)' <=> Removed(m))
  BY <1>1 DEF Underway, Removed
<1>2. Loading'
  BY <1>1 DEF FolderInv, Loading
<1>3. InfosAreOvertaken' /\ Ghosts'
  BY <1>1, <1>a DEF FolderInv, InfosAreOvertaken, Ghosts, Listed
<1>4. ASSUME "kept" \notin Uses PROVE Unowned' /\ InOrder' /\ Missed'
  <2>1. Unowned /\ InOrder /\ Missed
    BY <1>4 DEF FolderInv
  <2>2. Unowned' /\ InOrder'
    BY <1>1, <1>a, <2>1 DEF Unowned, InOrder, Listed
  <2>3. Missed'
    BY <1>1, <1>a, <2>1 DEF Missed, OnItsWay, Present
  <2> QED BY <2>2, <2>3
<1> QED BY <1>2, <1>3, <1>4 DEF FolderInv

LEMMA OtherWindowFolder ==
  ASSUME Types, FolderInv, OtherWindow
  PROVE  FolderInv'
<1>1. UNCHANGED << disk, events >>
  BY DEF OtherWindow
<1>2. CASE dir.other /\ view.step # "underway"
  <2>1. LastMonitorLeaves /\ past' = Late(past)
    BY <1>2 DEF OtherWindow
  <2>2. past'.late = Late(past).late /\ past'.overtaken = past.overtaken
    BY <2>1, LateFacts
  <2> QED BY <1>1, <2>1, <2>2, LeavesFolder
<1>3. CASE ~(dir.other /\ view.step # "underway")
  <2>1. dir' = [dir EXCEPT !.other = ~dir.other, !.monitored = TRUE] /\ UNCHANGED << file, past >>
    BY <1>3 DEF OtherWindow
  <2>2. /\ dir'.monitored /\ dir'.loaded = dir.loaded /\ dir'.load = dir.load
        /\ dir'.unread = dir.unread /\ dir'.pending = dir.pending /\ dir'.queries = dir.queries
        /\ dir'.batch = dir.batch /\ dir'.answers = dir.answers
    BY <2>1 DEF Types, Dirs
  <2> QED BY <1>1, <2>1, <2>2, StillFolder
<1> QED BY <1>2, <1>3

LEMMA LoadDirectoryFolder ==
  ASSUME Types, FolderInv, NEW v, LoadDirectory(v), UNCHANGED << disk, events >>
  PROVE  FolderInv'
<1>1. CASE v.step = "underway" /\ ~dir.other
  <2>1. LastMonitorLeaves /\ past' = [Late(past) EXCEPT !.stopped = FALSE]
    BY <1>1 DEF LoadDirectory
  <2>2. past'.late = Late(past).late /\ past'.overtaken = past.overtaken
    BY <2>1, LateFacts DEF Pasts
  <2> QED BY <2>1, <2>2, LeavesFolder
<1>2. CASE ~(v.step = "underway" /\ ~dir.other)
  <2>1. UNCHANGED << dir, file >> /\ past' = [past EXCEPT !.stopped = FALSE]
    BY <1>2 DEF LoadDirectory
  <2>2. past'.failed = past.failed /\ past'.overtaken = past.overtaken /\ past'.late = past.late
    BY <2>1 DEF Types, Pasts
  <2> QED BY <2>1, <2>2, StillFolder
<1> QED BY <1>1, <1>2

LEMMA FinishLoadingFolder ==
  ASSUME Types, FolderInv, FinishLoading
  PROVE  FolderInv'
<1>1. dir' = [dir EXCEPT !.monitored = TRUE] /\ UNCHANGED << disk, events, file, past >>
  BY DEF FinishLoading
<1>2. /\ dir'.monitored /\ dir'.loaded = dir.loaded /\ dir'.load = dir.load
      /\ dir'.unread = dir.unread /\ dir'.pending = dir.pending /\ dir'.queries = dir.queries
      /\ dir'.batch = dir.batch /\ dir'.answers = dir.answers
  BY <1>1 DEF Types, Dirs
<1> QED BY <1>1, <1>2, StillFolder

LEMMA InfosWait ==
  ASSUME Types, Waiting, Next
  PROVE  Waiting'
<1>1. ASSUME dir'.pending = dir.pending, dir'.idle = dir.idle PROVE Waiting'
  BY <1>1 DEF Waiting
<1>2. ASSUME \A n \in Names : dir'.pending[n] = "none" PROVE Waiting'
  BY <1>2 DEF Waiting
<1>3. dir \in Dirs
  BY DEF Types
<1>4. ASSUME NEW n \in Names, Appear(n) \/ Vanish(n) \/ Change(n)
      PROVE  Waiting'
  <2>1. dir' = dir \/ \E names : dir' = [dir EXCEPT !.unread = names]
    BY <1>4 DEF Appear, Vanish, Change
  <2> QED BY <1>1, <1>3, <2>1 DEF Dirs
<1>5. CASE LoadFails
  <2>1. PICK unchanged \in SUBSET Names : Becomes(LoadDone(dir, view, file, TRUE, unchanged))
    BY <1>5 DEF LoadFails
  <2>2. \A n \in Names : dir'.pending[n] = "none"
    BY <1>5, <2>1, LoadFailsFacts DEF LoadFails
  <2> QED BY <1>2, <2>2
<1>6. CASE ForceReload
  BY <1>2, <1>6, ForceReloadFacts
<1>7. ASSUME LastMonitorLeaves PROVE Waiting'
  BY <1>2, <1>7, LeavesFacts
<1>8. CASE OtherWindow
  <2>1. LastMonitorLeaves \/ dir' = [dir EXCEPT !.other = ~dir.other, !.monitored = TRUE]
    BY <1>8 DEF OtherWindow
  <2> QED BY <1>1, <1>3, <1>7, <2>1 DEF Dirs
<1>9. CASE Load
  <2>1. LastMonitorLeaves \/ dir' = dir
    BY <1>9 DEF Load, LoadDirectory
  <2> QED BY <1>1, <1>7, <2>1
<1>10. CASE Unfreeze
  <2>1. LastMonitorLeaves \/ dir' = dir
    BY <1>10 DEF Unfreeze, LoadDirectory
  <2> QED BY <1>1, <1>7, <2>1
<1>11. CASE StopLoading \/ Freeze \/ Display
  BY <1>1, <1>11 DEF StopLoading, Freeze, Display
<1>12. ASSUME NEW n \in Names, NEW a \in Attributes, NewFileInfo(n, a) PROVE Waiting'
  BY <1>12, NewFileInfoFacts DEF Waiting
<1>a. ASSUME NEW n \in Names, QueryNewFile(n) \/ ReadNext(n) \/ QueryInfo(n) \/ InfoArrives(n)
                             \/ LinkArrives(n)
      PROVE  Waiting'
  BY <1>1, <1>a, QueryNewFileFacts, ReadNextFacts, QueryInfoFacts, InfoArrivesFacts, LinkArrivesFacts
<1>13. CASE Notify
  <2>1. dir' = dir \/ \E queries : dir' = [dir EXCEPT !.queries = queries]
    BY <1>13 DEF Notify, NotifyAdded, NotifyRemoved, NotifyChanged
  <2> QED BY <1>1, <1>3, <2>1 DEF Dirs
<1>14. CASE DequeuePending
  <2>1. PICK unchanged : dir' = Dequeue(dir, view, file, unchanged).dir
    BY <1>14 DEF DequeuePending, Becomes
  <2>2. dir'.pending = NoInfos
    BY <1>3, <2>1, DequeueIs
  <2> QED BY <1>2, <2>2, NoInfosFacts
<1>15. CASE StartLoad
  <2>1. dir' = [dir EXCEPT !.load = TRUE, !.unread = Present]
    BY <1>15 DEF StartLoad
  <2> QED BY <1>1, <1>3, <2>1 DEF Dirs
<1>16. CASE MoreFiles
  BY <1>16, MoreFilesFacts DEF Waiting
<1>17. CASE LoadEnds
  <2>1. PICK unchanged \in SUBSET Names : Becomes(LoadDone(dir, view, file, FALSE, unchanged))
    BY <1>17 DEF LoadEnds
  <2>2. \A n \in Names : dir'.pending[n] = "none"
    BY <1>17, <2>1, LoadEndsFacts DEF LoadEnds
  <2> QED BY <1>2, <2>2
<1>18. CASE FinishLoading
  <2>1. dir' = [dir EXCEPT !.monitored = TRUE]
    BY <1>18 DEF FinishLoading
  <2> QED BY <1>1, <1>3, <2>1 DEF Dirs
<1> QED BY <1>4, <1>5, <1>6, <1>8, <1>9, <1>10, <1>11, <1>12, <1>13, <1>14, <1>15, <1>16, <1>17,
           <1>18, <1>a DEF Next, World, MainLoop, Gio

-----------------------------------------------------------------------------
(***************************************************************************)
(* All steps together.                                                     *)
(***************************************************************************)
Inv == Types /\ Waiting /\ FolderInv /\ ViewInv

LEMMA InitInv == Init => Inv
<1> SUFFICES ASSUME Init PROVE Inv
  OBVIOUS
<1>1. /\ disk \in Infos /\ events = << >> /\ file = [n \in Names |-> NoFile]
      /\ past = [stopped |-> FALSE, failed |-> FALSE, overtaken |-> {}, late |-> {}]
      /\ dir = [monitored |-> FALSE, other |-> FALSE, loaded |-> FALSE, sent |-> FALSE,
                load |-> FALSE, unread |-> {}, batch |-> NoInfos, pending |-> NoInfos,
                idle |-> FALSE, queries |-> [n \in Names |-> 0],
                answers |-> [n \in Names |-> [attribute \in Attributes |-> 0]]]
  BY DEF Init, Infos, Attributes
<1>2. NoInfos \in Infos /\ \A n \in Names : NoInfos[n] = "none"
  BY NoInfosFacts
<1>3. /\ dir \in Dirs /\ ~dir.monitored /\ ~dir.loaded /\ ~dir.load /\ dir.unread = {}
      /\ dir.pending = NoInfos /\ dir.batch = NoInfos
      /\ \A n \in Names, a \in Attributes : dir.answers[n][a] = 0
  <2> DEFINE queries == [n \in Names |-> 0]
             answers == [n \in Names |-> [attribute \in Attributes |-> 0]]
  <2>1. /\ queries \in [Names -> Nat] /\ answers \in [Names -> [Attributes -> Nat]]
        /\ \A n \in Names, a \in Attributes : answers[n][a] = 0
    OBVIOUS
  <2>2. dir = [monitored |-> FALSE, other |-> FALSE, loaded |-> FALSE, sent |-> FALSE,
               load |-> FALSE, unread |-> {}, batch |-> NoInfos, pending |-> NoInfos,
               idle |-> FALSE, queries |-> queries, answers |-> answers]
    BY <1>1
  <2> HIDE DEF queries, answers
  <2> QED BY <1>2, <2>1, <2>2 DEF Dirs
<1>4. /\ file \in [Names -> Records] /\ Listed(file) = {}
      /\ \A n \in Names : ~file[n].unconfirmed
  BY <1>1, NoFileFacts DEF Listed
<1>5. view = Cleared(NoView)
  BY DEF Init
<1>6. /\ view \in Views /\ view.step = "asked" /\ ~view.needsReload /\ Held(view) = {}
      /\ IsFiniteSet(Held(view))
  <2>1. NoView \in Views /\ ~NoView.needsReload
    BY DEF NoView, Views
  <2>2. /\ view \in Views /\ view.step = "asked" /\ IsFiniteSet(Held(view)) /\ Orderly(view)
    BY <1>5, <2>1, ClearedView
  <2>3. view.needsReload = NoView.needsReload
    <3> DEFINE v == NoView
    <3>1. v \in Views
      BY <2>1
    <3> HIDE DEF v
    <3>2. Cleared(v).needsReload = v.needsReload
      BY <3>1 DEF Cleared, Stop, Views
    <3> QED BY <1>5, <3>2 DEF v
  <2> QED BY <2>1, <2>2, <2>3 DEF Orderly
<1>7. past \in Pasts
  BY <1>1 DEF Pasts
<1>8. events \in Seq(Events) /\ DOMAIN events = {}
  BY <1>1
<1>9. Types
  BY <1>1, <1>3, <1>4, <1>6, <1>7, <1>8 DEF Types
<1>10. FolderInv
  <2>1. \A n \in Names : ~Underway(n)
    BY <1>2, <1>3 DEF Underway
  <2> QED BY <1>2, <1>3, <1>4, <1>8, <2>1 DEF FolderInv, Loading, InfosAreOvertaken, Ghosts,
             Unowned, InOrder, Missed, OnItsWay
<1>11. ViewInv
  <2>1. view.newAdded = {} /\ view.nonReady = {} /\ view.shown = {}
    BY <1>6 DEF Held
  <2> QED BY <1>6, <2>1 DEF ViewInv, Orderly, Scheduled, Awaited, Complete
<1>12. Waiting
  BY <1>2, <1>3 DEF Waiting
<1> QED BY <1>9, <1>10, <1>11, <1>12 DEF Inv

\* The steps of the view alone leave the folder as it is.
LEMMA ViewStepsFolder ==
  ASSUME Types, FolderInv, Display \/ StopLoading \/ Freeze
  PROVE  FolderInv'
<1>1. UNCHANGED << disk, events, dir, file >>
  BY DEF Display, StopLoading, Freeze
<1>2. past' = past \/ past' = [past EXCEPT !.stopped = TRUE]
  BY DEF Display, StopLoading, Freeze
<1>3. past'.failed = past.failed /\ past'.overtaken = past.overtaken /\ past'.late = past.late
  BY <1>2 DEF Types, Pasts
<1> QED BY <1>1, <1>3, StillFolder

LEMMA UnfreezeFolder ==
  ASSUME Types, FolderInv, Unfreeze
  PROVE  FolderInv'
<1>1. UNCHANGED << disk, events >>
  BY DEF Unfreeze
<1>2. CASE view.needsReload
  <2>1. \E v : LoadDirectory(v)
    BY <1>2 DEF Unfreeze
  <2> QED BY <1>1, <2>1, LoadDirectoryFolder
<1>3. CASE ~view.needsReload
  BY <1>1, <1>3, StillFolder DEF Unfreeze
<1> QED BY <1>2, <1>3

LEMMA LoadFolder ==
  ASSUME Types, FolderInv, Load
  PROVE  FolderInv'
BY LoadDirectoryFolder DEF Load

LEMMA NextInv == Inv /\ [Next]_vars => Inv'
<1> SUFFICES ASSUME Inv, [Next]_vars PROVE Inv'
  OBVIOUS
<1> USE DEF Inv
<1>1. CASE UNCHANGED vars
  BY <1>1 DEF vars, Types, Waiting, FolderInv, Loading, InfosAreOvertaken, Ghosts, Unowned, InOrder,
       Missed, OnItsWay, Posted, Present, Underway, Removed, ViewInv
<1>2. CASE Next
  <2>1. Waiting'
    BY <1>2, InfosWait
  <2>2. Loading
    BY DEF FolderInv
  <2>3. ASSUME NEW n \in Names, Appear(n) PROVE Inv'
    BY <2>1, <2>3, AppearTypes, AppearFolder
  <2>4. ASSUME NEW n \in Names, Vanish(n) PROVE Inv'
    BY <2>1, <2>4, VanishTypes, VanishFolder
  <2>5. ASSUME NEW n \in Names, Change(n) PROVE Inv'
    BY <2>1, <2>5, ChangeTypes, ChangeFolder
  <2>6. CASE LoadFails
    BY <2>1, <2>2, <2>6, LoadFailsTypes, LoadFailsFolder
  <2>7. CASE ForceReload
    BY <2>1, <2>7, ForceReloadTypes, ForceReloadFolder
  <2>8. CASE OtherWindow
    BY <2>1, <2>8, OtherWindowTypes, OtherWindowFolder
  <2>9. CASE Load
    BY <2>1, <2>9, LoadTypes, LoadFolder
  <2>10. CASE StopLoading
    BY <2>1, <2>10, StopLoadingTypes, ViewStepsFolder
  <2>11. CASE Freeze
    BY <2>1, <2>11, FreezeTypes, ViewStepsFolder
  <2>12. CASE Unfreeze
    BY <2>1, <2>12, UnfreezeTypes, UnfreezeFolder
  <2>13. ASSUME NEW n \in Names, NEW a \in Attributes, NewFileInfo(n, a) PROVE Inv'
    BY <2>1, <2>13, NewFileInfoTypes, NewFileInfoFolder
  <2>14. ASSUME NEW n \in Names, QueryNewFile(n) PROVE Inv'
    BY <2>1, <2>14, QueryNewFileTypes, QueryNewFileFolder
  <2>22. ASSUME NEW n \in Names, ReadNext(n) PROVE Inv'
    BY <2>1, <2>22, ReadNextTypes, ReadNextFolder
  <2>23. ASSUME NEW n \in Names, QueryInfo(n) PROVE Inv'
    BY <2>1, <2>23, QueryInfoTypes, QueryInfoFolder
  <2>24. ASSUME NEW n \in Names, InfoArrives(n) PROVE Inv'
    BY <2>1, <2>24, InfoArrivesTypes, InfoArrivesFolder
  <2>25. ASSUME NEW n \in Names, LinkArrives(n) PROVE Inv'
    BY <2>1, <2>25, LinkArrivesTypes, LinkArrivesFolder
  <2>15. CASE Notify
    BY <2>1, <2>15, NotifyTypes, NotifyFolder
  <2>16. CASE DequeuePending
    BY <2>1, <2>16, DequeueTypes, DequeueFolder
  <2>17. CASE StartLoad
    BY <2>1, <2>17, StartLoadTypes, StartLoadFolder
  <2>18. CASE MoreFiles
    BY <2>1, <2>18, MoreFilesTypes, MoreFilesFolder
  <2>19. CASE LoadEnds
    BY <2>1, <2>2, <2>19, LoadEndsTypes, LoadEndsFolder
  <2>20. CASE FinishLoading
    BY <2>1, <2>20, FinishLoadingTypes, FinishLoadingFolder
  <2>21. CASE Display
    BY <2>1, <2>21, DisplayTypes, ViewStepsFolder
  <2> HIDE DEF Inv
  <2> QED BY <1>2, <2>3, <2>4, <2>5, <2>6, <2>7, <2>8, <2>9, <2>10, <2>11, <2>12, <2>13, <2>14,
             <2>15, <2>16, <2>17, <2>18, <2>19, <2>20, <2>21, <2>22, <2>23, <2>24, <2>25
             DEF Next, World, MainLoop, Gio
<1> QED BY <1>1, <1>2

\* However notifications, loads, queries and displays overtake each other: what
\* is listed and shown is well formed, a folder loads only while it is monitored,
\* the infos wait for their callback, and the folder and its view keep what
\* FolderInv and ViewInv say of them.
THEOREM FolderViewInvariant == Spec => []Inv
BY InitInv, NextInv, PTL DEF Spec

\* A view holds objects of the folder's names, and a load runs only in a folder
\* somebody monitors (baul_directory_monitor_add_internal,
\* baul_directory_stop_monitoring_file_list).
THEOREM FolderViewTypes == Spec => []TypeOK
<1>1. Inv => TypeOK
  <2> SUFFICES ASSUME Inv PROVE TypeOK
    OBVIOUS
  <2>1. Types /\ Loading
    BY DEF Inv, FolderInv
  <2>2. disk \in [Names -> {"none"} \cup Attributes] /\ DOMAIN file = Names
        /\ DOMAIN dir.queries = Names
    BY <2>1 DEF Types, Infos, Dirs
  <2>3. \A o \in Held(view) : o[1] \in Names /\ o[2] > 0
    <3>1. Held(view) \subseteq Objs
      BY <2>1, HeldFacts DEF Types
    <3> QED BY <3>1 DEF Objs
  <2> QED BY <2>1, <2>2, <2>3 DEF TypeOK, Loading
<1> QED BY <1>1, FolderViewInvariant, PTL

\* A file is listed that is not there only if it was removed, or its removal
\* reported, between the moment an info of it was read and the moment the idle
\* callback took it in, or if a load failed: the confirmations of a load, the
\* notifications and the queries leave no other (more_files_callback,
\* new_files_callback, dequeue_pending_idle_callback,
\* baul_directory_notify_files_removed).
THEOREM ListedFilesAreThere == Spec => []GhostsAreOvertaken
<1>1. Inv => GhostsAreOvertaken
  <2> SUFFICES ASSUME Inv, Settled, ~past.failed, NEW n \in Listed(file), n \notin Present
               PROVE  n \in past.overtaken
    BY DEF GhostsAreOvertaken
  <2>1. ~Posted("removed", n)
    BY DEF Settled, Posted
  <2>2. dir.loaded
    BY DEF Settled
  <2> QED BY <2>1, <2>2 DEF Inv, FolderInv, Ghosts, Removed
<1> QED BY <1>1, FolderViewInvariant, PTL

\* If nobody but the view and the other window holds the files, then no file is
\* missed, however the load, the notifications and the answers to them overtake
\* each other, but for those whose notifications outlived the last monitor or
\* overtook an info (baul_directory_notify_files_added, new_files_callback,
\* directory_load_done).
THEOREM NoneIsMissed ==
  ASSUME "kept" \notin Uses
  PROVE  Spec => []NoFileIsMissed
<1>1. Inv => NoFileIsMissed
  <2> SUFFICES ASSUME Inv, Settled, ~past.failed, NEW n \in Present,
                      n \notin past.late \cup past.overtaken
               PROVE  n \in Listed(file)
    BY DEF NoFileIsMissed
  <2>1. Types /\ Waiting /\ Loading /\ Missed
    BY DEF Inv, FolderInv
  <2>2. n \in Names
    BY DEF Present
  <2>3. OnItsWay(n)
    BY <2>1 DEF Missed
  <2>4. ~Posted("added", n)
    BY DEF Settled, Posted
  <2>5. dir.loaded /\ dir.queries[n] = 0 /\ dir.unread = {}
    BY <2>1, <2>2 DEF Settled, Loading
  <2>6. ~Underway(n)
    BY <2>1, <2>2 DEF Settled, Waiting, Loading, Underway
  <2> QED BY <2>3, <2>4, <2>5, <2>6 DEF OnItsWay
<1> QED BY <1>1, FolderViewInvariant, PTL

\* Nothing a view holds is left waiting: what is not displayed is due on a timeout,
\* with the files that are not ready, or when the load is done, and a file it waits
\* for will be reported, unless an unchanged info has made it ready
\* (queue_pending_files, done_loading_callback, display_pending_files,
\* dequeue_pending_idle_callback).
THEOREM NothingIsLeftWaiting == Spec => []NothingIsStranded
<1>1. Inv => NothingIsStranded
  <2> SUFFICES ASSUME Inv, view.step = "underway", ~view.frozen
               PROVE
    /\ view.newAdded \cup view.newChanged \cup view.oldAdded \cup view.oldChanged # {}
         => view.display \/ ~dir.loaded \/ view.nonReady # {}
    /\ \A o \in view.nonReady :
         ~ReadyToLoad(file, o) \/ o \in view.newChanged \/ Unreported(file, o)
    /\ view.loading /\ dir.loaded => view.display \/ view.nonReady # {}
    BY DEF NothingIsStranded
  <2>1. Orderly(view) /\ Scheduled(view, dir.loaded) /\ Awaited(view, file)
    BY DEF Inv, ViewInv
  <2>2. ~view.needsReload
    BY <2>1 DEF Orderly
  <2>3. \A o \in view.nonReady :
          ~ReadyToLoad(file, o) \/ o \in view.newChanged \/ Unreported(file, o)
    BY <2>1, <2>2 DEF Awaited
  <2>4. /\ dir.loaded /\ New(view) # {} => view.display
        /\ dir.loaded /\ Old(view) # {} => view.display \/ view.nonReady # {}
        /\ dir.loaded /\ view.loading => view.display \/ view.nonReady # {}
    BY <2>1 DEF Scheduled
  <2>5. view.newAdded \cup view.newChanged \cup view.oldAdded \cup view.oldChanged
          = New(view) \cup Old(view)
    BY DEF New, Old
  <2> QED BY <2>3, <2>4, <2>5
<1> QED BY <1>1, FolderViewInvariant, PTL

\* A view that has nothing left to display, and waits for no file that an unchanged
\* info made ready behind its back, shows no file that is gone, and of the list it
\* shows the files that are not hidden, but for those that were hidden or shown
\* again since they were listed (process_new_files, process_old_files).
THEOREM ViewsShowTheList == Spec => []ShownIsListed
<1>1. Inv => ShownIsListed
  <2> SUFFICES ASSUME Inv, Settled, view.step = "underway", ~view.display, ~view.frozen,
                      ~past.stopped, \A o \in view.nonReady : ~Unreported(file, o)
               PROVE  /\ view.shown \subseteq Objects(file, Listed(file))
                      /\ \A o \in Objects(file, Listed(file)) :
                           ~file[o[1]].toggled => (o \in view.shown <=> StillShouldShow(file, o))
    BY DEF ShownIsListed
  <2>1. /\ Types /\ Orderly(view) /\ Scheduled(view, dir.loaded) /\ Awaited(view, file)
        /\ Complete(view, file)
    BY DEF Inv, ViewInv
  <2>2. ~view.needsReload /\ dir.loaded
    BY <2>1 DEF Orderly, Settled
  <2>3. view.newAdded = {} /\ view.newChanged = {}
    BY <2>1, <2>2 DEF Scheduled, New
  <2>4. view.nonReady = {}
    <3> SUFFICES ASSUME NEW o \in view.nonReady PROVE FALSE
      OBVIOUS
    <3>1. o[1] \in Names /\ o[2] \in Nat \ {0}
      BY <2>1, HeldFacts DEF Types, Objs
    <3>2. ~ReadyToLoad(file, o)
      BY <2>1, <2>2, <2>3 DEF Awaited
    <3>3. ~IsGone(file, o) /\ file[o[1]].lacks # "nothing"
      BY <3>2 DEF ReadyToLoad
    <3>4. o[1] \in Listed(file)
      BY <2>1, <3>1, <3>3, RecordFacts DEF IsGone, Types
    <3> QED BY <3>1, <3>3, <3>4 DEF Settled
  <2>5. view.oldAdded = {} /\ view.oldChanged = {}
    BY <2>1, <2>2, <2>4 DEF Scheduled, Old
  <2>6. /\ \A n \in Listed(file) : ~file[n].toggled => Sorted(view, file, n)
        /\ \A o \in view.shown : ~IsGone(file, o)
    BY <2>1, <2>2, <2>3, <2>5 DEF Complete
  <2>7. ASSUME NEW o \in view.shown
        PROVE  o \in Objects(file, Listed(file))
    <3>1. o \in Objs /\ o[1] \in Names /\ o[2] \in Nat \ {0}
      BY <2>1, HeldFacts DEF Types, Objs
    <3>2. file[o[1]].gen = o[2]
      BY <2>6 DEF IsGone
    <3>3. o[1] \in Listed(file)
      BY <2>1, <3>1, <3>2, RecordFacts DEF Types
    <3>4. file \in [Names -> Records] /\ Listed(file) \in SUBSET Listed(file)
      BY <2>1 DEF Types
    <3> QED BY <3>1, <3>2, <3>3, <3>4, ObjectsFacts
  <2>8. ASSUME NEW o \in Objects(file, Listed(file)), ~file[o[1]].toggled
        PROVE  o \in view.shown <=> StillShouldShow(file, o)
    <3>1. PICK n \in Listed(file) : o = << n, file[n].gen >>
      BY DEF Objects
    <3>2. o[1] = n /\ o[2] = file[n].gen
      BY <3>1
    <3>3. Sorted(view, file, n)
      BY <2>6, <2>8, <3>2
    <3>4. o \in view.shown <=> ~file[n].hidden
      BY <2>3, <2>4, <2>5, <3>1, <3>3 DEF Sorted
    <3> QED BY <3>2, <3>4 DEF StillShouldShow, IsGone
  <2> QED BY <2>7, <2>8
<1> QED BY <1>1, FolderViewInvariant, PTL
=============================================================================
