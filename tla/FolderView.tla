------------------------------ MODULE FolderView ------------------------------
(* One folder: what is on the disk, the list of files its BaulDirectory     *)
(* keeps (read by a load, kept up by change notifications:                  *)
(* baul-directory-async.c, baul-directory.c), and a view that shows the     *)
(* list, a batch of changes at a time (fm-directory-view.c).                *)
EXTENDS Naturals, Sequences, FiniteSets, SequencesExt

CONSTANTS
  Names,
  Links,        \* the files that are links, of which more than the info is read
  Uses,         \* what the user and the world do besides creating files
  MaxQueued,    \* MAX_QUEUED_UPDATES
  MaxChanges    \* bound on what the user and the world do

ASSUME NamesAssumption == IsFiniteSet(Names) /\ Links \subseteq Names
ASSUME BoundsAssumption == MaxQueued \in Nat /\ MaxChanges \in Nat

VARIABLES
  disk,      \* what a name is on the disk: nothing, a plain or a hidden file
  events,    \* the change notifications on their way, oldest first
  dir,       \* the BaulDirectory
  file,      \* its file list: the BaulFile of a name, or NoFile
  view,      \* the FMDirectoryView
  past,      \* what the properties remember of the past
  changes

vars == << disk, events, dir, file, view, past, changes >>

Attributes == {"plain", "hidden"}

\* What a file lacks before it is ready, and what GIO has read for its query
\* (get_info_in_progress). Ghosts: it has become ready and no handler was told; it
\* was hidden, or shown again, after it was listed.
NoFile == [gen |-> 0, unconfirmed |-> FALSE, lacks |-> "info", answer |-> "none",
           hidden |-> FALSE, silent |-> FALSE, toggled |-> FALSE]

Present == {n \in Names : disk[n] # "none"}

(***************************************************************************)
(* File objects.  A view may hold one whose file is gone; its name may     *)
(* meanwhile belong to another one, hence the generation.                  *)
(***************************************************************************)
Objects(files, names) == {<< n, files[n].gen >> : n \in names}

Listed(files) == {n \in Names : files[n] # NoFile}

IsGone(files, o) == files[o[1]].gen # o[2]

Held(v) == v.shown \cup v.newAdded \cup v.newChanged \cup v.nonReady
           \cup v.oldAdded \cup v.oldChanged

\* The address of an object that nobody holds any more is used again.
FreshGen(v, n) ==
  CHOOSE g \in 1..(1 + Cardinality(Held(v))) : << n, g >> \notin Held(v)

\* baul_file_check_if_ready: nothing more is to be known of a file that is gone.
ReadyToLoad(files, o) == IsGone(files, o) \/ files[o[1]].lacks = "nothing"

ShouldShow(files, o) == IsGone(files, o) \/ ~files[o[1]].hidden

StillShouldShow(files, o) == ~IsGone(files, o) /\ ~files[o[1]].hidden

(***************************************************************************)
(* The view.                                                               *)
(***************************************************************************)
NoView == [step |-> "asked", loading |-> FALSE, shown |-> {}, newAdded |-> {},
           newChanged |-> {}, nonReady |-> {}, oldAdded |-> {}, oldChanged |-> {},
           display |-> FALSE, frozen |-> FALSE, queued |-> 0, needsReload |-> FALSE]

\* queue_pending_files
QueuePendingFiles(v, d, objects, list) ==
  LET queued == IF v.frozen THEN v.queued + Cardinality(objects) ELSE v.queued IN
  IF objects = {} \/ v.needsReload THEN v
  ELSE IF queued > MaxQueued /\ v.frozen THEN [v EXCEPT !.needsReload = TRUE]
  ELSE [v EXCEPT !.queued = queued,
                 ![list] = @ \cup objects,
                 !.display = @ \/ ~v.loading \/ d.loaded]

\* The signals of the directory reach a view that has connected to them.
FilesChanged(v, d, objects) ==
  IF v.step = "underway" THEN QueuePendingFiles(v, d, objects, "newChanged") ELSE v

FilesAdded(v, d, objects) ==
  IF v.step = "underway" THEN QueuePendingFiles(v, d, objects, "newAdded") ELSE v

\* Mutant: a file that is not ready is not remembered.
ProcessNewFilesReadyOnly(v, files) ==
  LET ready  == {o \in v.newAdded : ShouldShow(files, o) /\ ReadyToLoad(files, o)}
      others == {o \in v.newChanged : ShouldShow(files, o) /\ ReadyToLoad(files, o)}
  IN [v EXCEPT !.newAdded = {}, !.newChanged = {},
               !.oldAdded = @ \cup ready, !.oldChanged = @ \cup others]

\* A changed file that was hidden in between is dropped, unless it was waited for.
ProcessNewFiles(v, files) ==
  LET added   == {o \in v.newAdded : ShouldShow(files, o)}
      ready   == {o \in added : ReadyToLoad(files, o)}
      waiting == (v.nonReady \ ready) \cup (added \ ready)
      settled == {o \in v.newChanged : ReadyToLoad(files, o) \/ ~StillShouldShow(files, o)}
      awaited == settled \cap waiting
      others  == {o \in settled \ waiting : ShouldShow(files, o)}
  IN [v EXCEPT !.newAdded = {},
               !.newChanged = {},
               !.nonReady = waiting \ awaited,
               !.oldAdded = @ \cup ready \cup {o \in awaited : StillShouldShow(files, o)},
               !.oldChanged = @ \cup others]

ProcessOldFiles(v, files) ==
  [v EXCEPT !.shown = (@ \cup v.oldAdded) \ {o \in v.oldChanged : ~StillShouldShow(files, o)},
            !.oldAdded = {},
            !.oldChanged = {}]

DisplayPendingFiles(v, d, files) ==
  LET processed == ProcessOldFiles(ProcessNewFiles(v, files), files) IN
  IF v.frozen THEN v
  ELSE IF d.loaded /\ processed.nonReady = {} THEN [processed EXCEPT !.loading = FALSE]
  ELSE processed

\* Mutant: the display is left to the next change.
DoneLoadingUnscheduled(v, files) ==
  IF v.step = "underway" THEN ProcessNewFiles(v, files) ELSE v

\* done_loading_callback
DoneLoading(v, files) ==
  LET processed == ProcessNewFiles(v, files) IN
  IF v.step # "underway" THEN v
  ELSE [processed EXCEPT !.display = @ \/ processed.nonReady = {}]

\* fm_directory_view_stop: what was not displayed is forgotten; the monitor it
\* removes is nobody's, so the directory goes on.
Stop(v) ==
  [v EXCEPT !.newAdded = {}, !.newChanged = {}, !.nonReady = {}, !.oldAdded = {},
            !.oldChanged = {}, !.display = FALSE, !.loading = FALSE]

\* load_directory
Cleared(v) == [Stop(v) EXCEPT !.shown = {}, !.loading = TRUE, !.step = "asked"]

(***************************************************************************)
(* The directory.                                                          *)
(***************************************************************************)
\* Infos by name.
NoInfos == [n \in Names |-> "none"]

\* file_list_cancel: the answers to the queries of new files are not withdrawn.
FileListCancel(d) ==
  [d EXCEPT !.load = FALSE, !.unread = {}, !.batch = NoInfos, !.pending = NoInfos,
            !.idle = FALSE]

\* baul_directory_stop_monitoring_file_list
StopMonitoring(d) == [FileListCancel(d) EXCEPT !.monitored = FALSE, !.loaded = FALSE]

\* directory_load_one
LoadOne(d, infos) ==
  [d EXCEPT !.pending = [n \in Names |-> IF infos[n] # "none" THEN infos[n] ELSE @[n]],
            !.idle = TRUE]

\* baul_file_new_from_info
NewFromInfo(v, n, attribute) ==
  [NoFile EXCEPT !.gen = FreshGen(v, n), !.lacks = IF n \in Links THEN "link" ELSE "nothing",
                 !.hidden = attribute = "hidden"]

\* baul_file_update_info: what was lacking but the link's own data is there, and a
\* query for it is cancelled.
UpdateInfo(f, n, attribute) ==
  [f EXCEPT !.lacks = IF @ # "info" THEN @ ELSE IF n \in Links THEN "link" ELSE "nothing",
            !.answer = "none",
            !.hidden = attribute = "hidden",
            !.toggled = @ \/ f.hidden # (attribute = "hidden")]

\* Mutant: an info does not confirm the file it finds.
TakeInUnconfirmed(v, f, n, attribute) ==
  IF f = NoFile THEN NewFromInfo(v, n, attribute) ELSE UpdateInfo(f, n, attribute)

\* What an info makes of the file of its name.
TakeIn(v, f, n, attribute) ==
  IF f = NoFile THEN NewFromInfo(v, n, attribute)
  ELSE [UpdateInfo(f, n, attribute) EXCEPT !.unconfirmed = FALSE]

\* dequeue_pending_idle_callback: the infos become files, the files that a load
\* has not seen by its end are gone, and the handlers are told. An info that
\* says what was known is no change: of the files in unchanged nobody hears, not
\* even when it has made them ready.
Dequeue(d, v, files, unchanged) ==
  LET infos   == {n \in Names : d.pending[n] # "none"}
      taken   == [n \in Names |-> IF n \in infos
                                  THEN TakeIn(v, files[n], n, d.pending[n]) ELSE files[n]]
      added   == infos \ Listed(files)
      updated == {n \in infos \ added : \/ taken[n].hidden # files[n].hidden
                                        \/ taken[n].lacks # files[n].lacks /\ n \notin unchanged}
      silent  == {n \in (infos \ added) \ updated : taken[n].lacks # files[n].lacks}
      gone    == {n \in Names : d.loaded /\ taken[n].unconfirmed}
      after   == [n \in Names |-> IF n \in gone THEN NoFile
                                  ELSE IF n \in silent THEN [taken[n] EXCEPT !.silent = TRUE]
                                  ELSE taken[n]]
      told    == FilesAdded(FilesChanged(v, d, Objects(taken, updated \cup gone)), d,
                            Objects(taken, added))
      done    == d.loaded /\ ~d.sent
      drained == [d EXCEPT !.pending = NoInfos, !.idle = FALSE]
  IN IF ~d.monitored THEN [dir |-> drained, file |-> files, view |-> v]
     ELSE [dir  |-> [drained EXCEPT !.sent = @ \/ done],
           file |-> after,
           view |-> IF done THEN DoneLoading(told, after) ELSE told]

\* directory_load_done; on an error nothing is known of the unconfirmed files,
\* and the view stops itself (load_error_callback).
LoadDone(d, v, files, failed, unchanged) ==
  LET loaded == [d EXCEPT !.loaded = TRUE, !.sent = FALSE]
      known  == [n \in Names |-> [files[n] EXCEPT !.unconfirmed = FALSE]]
      told   == IF v.step = "underway" THEN Stop(v) ELSE v
      after  == IF failed THEN Dequeue(loaded, told, known, unchanged)
                          ELSE Dequeue(loaded, v, files, unchanged)
  IN [after EXCEPT !.dir.load = FALSE, !.dir.unread = {}, !.dir.batch = NoInfos]
-----------------------------------------------------------------------------
Init ==
  /\ disk \in [Names -> {"none", "plain"}]
  /\ events = << >>
  /\ dir = [monitored |-> FALSE, other |-> FALSE, loaded |-> FALSE, sent |-> FALSE,
            load |-> FALSE, unread |-> {}, batch |-> NoInfos, pending |-> NoInfos,
            idle |-> FALSE, queries |-> [n \in Names |-> 0],
            answers |-> [n \in Names |-> [attribute \in Attributes |-> 0]]]
  /\ file = [n \in Names |-> NoFile]
  /\ view = Cleared(NoView)
  /\ past = [stopped |-> FALSE, failed |-> FALSE, overtaken |-> {}, late |-> {}]
  /\ changes = 0

(***************************************************************************)
(* The world.  A change is notified while the folder is monitored.         *)
(***************************************************************************)
Acts ==
  /\ changes < MaxChanges
  /\ changes' = changes + 1

Notified(kind, n) ==
  events' = IF dir.monitored THEN Append(events, [kind |-> kind, name |-> n]) ELSE events

\* An info of the file has been read for the list and is not yet taken in.
Underway(n) ==
  \/ dir.batch[n] # "none" \/ dir.pending[n] # "none"
  \/ \E attribute \in Attributes : dir.answers[n][attribute] > 0

\* The file is removed, or reported so, and its info is still underway.
Overtaken(n) ==
  past' = [past EXCEPT !.overtaken = IF Underway(n) THEN @ \cup {n} ELSE @]

\* An enumeration under way may see the file or not.
Appear(n) ==
  /\ Acts
  /\ disk[n] = "none"
  /\ \E attribute \in {"plain"} \cup (Uses \cap {"hidden"}) :
       disk' = [disk EXCEPT ![n] = attribute]
  /\ Notified("added", n)
  /\ \E seen \in BOOLEAN :
       /\ seen => dir.load
       /\ dir' = [dir EXCEPT !.unread = IF seen THEN @ \cup {n} ELSE @]
  /\ UNCHANGED << file, view, past >>

Vanish(n) ==
  /\ "delete" \in Uses
  /\ Acts
  /\ disk[n] # "none"
  /\ disk' = [disk EXCEPT ![n] = "none"]
  /\ Notified("removed", n)
  /\ dir' = [dir EXCEPT !.unread = @ \ {n}]
  /\ IF dir.monitored THEN UNCHANGED past ELSE Overtaken(n)
  /\ UNCHANGED << file, view >>

Change(n) ==
  /\ "change" \in Uses
  /\ Acts
  /\ disk[n] # "none"
  /\ \E attribute \in {"plain"} \cup (Uses \cap {"hidden"}) :
       disk' = [disk EXCEPT ![n] = attribute]
  /\ Notified("changed", n)
  /\ UNCHANGED << dir, file, view, past >>

(***************************************************************************)
(* The notifications: baul_directory_notify_files_added, _removed and      *)
(* _changed. The monitor's signal is connected twice, so the info of a new *)
(* file is asked for twice.                                                *)
(***************************************************************************)
NotifyAdded(n) ==
  IF n \in Listed(file)
  THEN /\ view' = FilesChanged(view, dir, Objects(file, {n}))
       /\ UNCHANGED << dir, file, past >>
  ELSE /\ dir' = [dir EXCEPT !.queries[n] = @ + 2]
       /\ UNCHANGED << file, view, past >>

\* Mutant: a removal is left to the next load.
NotifyRemovedUnloaded(n) ==
  /\ file' = [file EXCEPT ![n] = IF dir.loaded THEN @ ELSE NoFile]
  /\ view' = FilesChanged(view, dir, Objects(file, {n} \cap Listed(file)))
  /\ Overtaken(n)
  /\ UNCHANGED dir

NotifyRemoved(n) ==
  /\ file' = [file EXCEPT ![n] = NoFile]
  /\ view' = FilesChanged(view, dir, Objects(file, {n} \cap Listed(file)))
  /\ Overtaken(n)
  /\ UNCHANGED dir

\* What was read is not up to date; a query under way goes on.
Invalid(f) == [f EXCEPT !.lacks = "info", !.silent = FALSE]

NotifyChanged(n) ==
  /\ file' = [file EXCEPT ![n] = Invalid(@)]
  /\ view' = FilesChanged(view, dir, Objects(file, {n}))
  /\ UNCHANGED << dir, past >>

\* Whether somebody cares.
Concerns(e) ==
  CASE e.kind = "added"   -> dir.monitored
    [] e.kind = "removed" -> TRUE
    [] e.kind = "changed" -> e.name \in Listed(file)

Notify ==
  /\ events # << >>
  /\ events' = Tail(events)
  /\ LET e == Head(events) IN
       \/ Concerns(e) /\ e.kind = "added" /\ NotifyAdded(e.name)
       \/ Concerns(e) /\ e.kind = "removed" /\ NotifyRemoved(e.name)
       \/ Concerns(e) /\ e.kind = "changed" /\ NotifyChanged(e.name)
       \/ ~Concerns(e) /\ UNCHANGED << dir, file, view, past >>
  /\ UNCHANGED << disk, changes >>

(***************************************************************************)
(* The main loop of the directory.                                         *)
(***************************************************************************)
\* GIO answers the query of a new file, and new_files_callback comes later.
QueryNewFile(n) ==
  LET read == [dir EXCEPT !.queries[n] = @ - 1] IN
  /\ dir.queries[n] > 0
  /\ dir' = IF n \in Present THEN [read EXCEPT !.answers[n][disk[n]] = @ + 1] ELSE read
  /\ UNCHANGED << disk, events, file, view, past, changes >>

NewFileInfo(n, attribute) ==
  /\ dir.answers[n][attribute] > 0
  /\ dir' = LoadOne([dir EXCEPT !.answers[n][attribute] = @ - 1],
                    [NoInfos EXCEPT ![n] = attribute])
  /\ UNCHANGED << disk, events, file, view, past, changes >>

Becomes(after) ==
  /\ dir' = after.dir
  /\ file' = after.file
  /\ view' = after.view

DequeuePending ==
  /\ dir.idle
  /\ \E unchanged \in SUBSET Names : Becomes(Dequeue(dir, view, file, unchanged))
  /\ UNCHANGED << disk, events, past, changes >>

\* start_monitoring_file_list, once the directory has a job slot.
StartLoad ==
  /\ dir.monitored
  /\ ~dir.loaded
  /\ ~dir.load
  /\ dir' = [dir EXCEPT !.load = TRUE, !.unread = Present]
  /\ file' = [n \in Names |-> IF n \in Listed(file)
                              THEN [file[n] EXCEPT !.unconfirmed = TRUE] ELSE NoFile]
  /\ UNCHANGED << disk, events, view, past, changes >>

\* g_file_enumerator_next_files_async reads on while the main loop goes on, and
\* more_files_callback takes what it has read.
ReadNext(n) ==
  /\ n \in dir.unread
  /\ dir' = [dir EXCEPT !.unread = @ \ {n}, !.batch[n] = disk[n]]
  /\ UNCHANGED << disk, events, file, view, past, changes >>

MoreFiles ==
  /\ dir.batch # NoInfos
  /\ dir' = [LoadOne(dir, dir.batch) EXCEPT !.batch = NoInfos]
  /\ UNCHANGED << disk, events, file, view, past, changes >>

\* Its end.
LoadEnds ==
  /\ dir.load
  /\ dir.unread = {} /\ dir.batch = NoInfos
  /\ \E unchanged \in SUBSET Names : Becomes(LoadDone(dir, view, file, FALSE, unchanged))
  /\ past' = [past EXCEPT !.failed = FALSE]
  /\ UNCHANGED << disk, events, changes >>

LoadFails ==
  /\ "error" \in Uses
  /\ Acts
  /\ dir.load
  /\ dir.batch = NoInfos
  /\ \E unchanged \in SUBSET Names : Becomes(LoadDone(dir, view, file, TRUE, unchanged))
  /\ past' = [past EXCEPT !.failed = TRUE, !.stopped = TRUE]
  /\ UNCHANGED << disk, events >>

\* GIO answers the query for the info of a file that lacks it, one at a time.
QueryInfo(n) ==
  /\ dir.monitored
  /\ n \in Listed(file)
  /\ file[n].lacks = "info" /\ \A m \in Names : file[m].answer = "none"
  /\ file' = [file EXCEPT ![n].answer = IF n \in Present THEN disk[n] ELSE "missing"]
  /\ UNCHANGED << disk, events, dir, view, past, changes >>

\* query_info_callback: a file that was not found is gone.
InfoArrives(n) ==
  LET attribute == file[n].answer IN
  /\ attribute # "none"
  /\ file' = [file EXCEPT ![n] = IF attribute = "missing" THEN NoFile
                                 ELSE UpdateInfo(@, n, attribute)]
  /\ view' = FilesChanged(view, dir, Objects(file, {n}))
  /\ UNCHANGED << disk, events, dir, past, changes >>

\* link_info_baul_link_read_callback, with or without data.
LinkArrives(n) ==
  /\ dir.monitored
  /\ file[n].lacks = "link"
  /\ file' = [file EXCEPT ![n].lacks = "nothing"]
  /\ view' = FilesChanged(view, dir, Objects(file, {n}))
  /\ UNCHANGED << disk, events, dir, past, changes >>

\* baul_directory_force_reload_internal: it cancels the query under way.
ForceReload ==
  /\ "reload" \in Uses
  /\ Acts
  /\ dir' = [FileListCancel(dir) EXCEPT !.loaded = FALSE]
  /\ file' = [n \in Names |-> [Invalid(file[n]) EXCEPT !.answer = "none"]]
  /\ UNCHANGED << disk, events, view, past >>

\* A file object outlives the last monitor if somebody else holds it.
LastMonitorLeaves ==
  /\ dir' = [StopMonitoring(dir) EXCEPT !.other = FALSE]
  /\ \E kept \in IF "kept" \in Uses THEN SUBSET Listed(file) ELSE {{}} :
       file' = [n \in Names |-> IF n \in kept THEN [file[n] EXCEPT !.answer = "none"] ELSE NoFile]

Late(p) == [p EXCEPT !.late = @ \cup {e.name : e \in Range(events)}]

\* Another window opens the folder, or leaves it.
OtherWindow ==
  /\ "other" \in Uses
  /\ Acts
  /\ IF dir.other /\ view.step # "underway"
     THEN LastMonitorLeaves /\ past' = Late(past)
     ELSE /\ dir' = [dir EXCEPT !.other = ~@, !.monitored = TRUE]
          /\ UNCHANGED << file, past >>
  /\ UNCHANGED << disk, events, view >>

(***************************************************************************)
(* The view.                                                               *)
(***************************************************************************)
\* load_directory, for the folder itself: on a reload, or after too many changes
\* while the view was frozen.
LoadDirectory(v) ==
  /\ view' = Cleared(v)
  /\ IF v.step = "underway" /\ ~dir.other
     THEN LastMonitorLeaves /\ past' = [Late(past) EXCEPT !.stopped = FALSE]
     ELSE UNCHANGED << dir, file >> /\ past' = [past EXCEPT !.stopped = FALSE]

Load ==
  /\ Acts
  /\ LoadDirectory(view)
  /\ UNCHANGED << disk, events >>

\* finish_loading: the metadata is there. The files the directory has already
\* are handed to the view when it starts to monitor.
FinishLoading ==
  LET scheduled == [view EXCEPT !.step = "underway", !.display = @ \/ dir.loaded]
      monitored == [dir EXCEPT !.monitored = TRUE]
  IN
  /\ view.step = "asked"
  /\ dir' = monitored
  /\ view' = FilesAdded(scheduled, monitored, Objects(file, Listed(file)))
  /\ UNCHANGED << disk, events, file, past, changes >>

\* display_pending_callback
Display ==
  /\ view.display
  /\ view' = DisplayPendingFiles([view EXCEPT !.display = FALSE], dir, file)
  /\ UNCHANGED << disk, events, dir, file, past, changes >>

\* The user stops the load.
StopLoading ==
  /\ "stop" \in Uses
  /\ Acts
  /\ view' = Stop(view)
  /\ past' = [past EXCEPT !.stopped = TRUE]
  /\ UNCHANGED << disk, events, dir, file >>

\* A file is renamed in place: fm_directory_view_freeze_updates.
Freeze ==
  /\ "freeze" \in Uses
  /\ Acts
  /\ view.shown # {}
  /\ ~view.frozen
  /\ view' = [view EXCEPT !.frozen = TRUE, !.queued = 0, !.needsReload = FALSE]
  /\ UNCHANGED << disk, events, dir, file, past >>

Unfreeze ==
  LET thawed == [view EXCEPT !.frozen = FALSE, !.needsReload = FALSE] IN
  /\ view.frozen
  /\ IF view.needsReload
     THEN LoadDirectory(thawed)
     ELSE /\ view' = [thawed EXCEPT !.display = TRUE]
          /\ UNCHANGED << dir, file, past >>
  /\ UNCHANGED << disk, events, changes >>

World ==
  \/ \E n \in Names : Appear(n) \/ Vanish(n) \/ Change(n)
  \/ LoadFails \/ ForceReload \/ OtherWindow \/ Load \/ StopLoading \/ Freeze \/ Unfreeze

MainLoop ==
  \/ \E n \in Names : InfoArrives(n) \/ LinkArrives(n)
  \/ \E n \in Names, attribute \in Attributes : NewFileInfo(n, attribute)
  \/ Notify \/ DequeuePending \/ StartLoad \/ MoreFiles \/ LoadEnds
  \/ FinishLoading \/ Display

\* What GIO reads in its threads.
Gio == \E n \in Names : QueryNewFile(n) \/ ReadNext(n) \/ QueryInfo(n)

Next == World \/ MainLoop \/ Gio

Spec == Init /\ [][Next]_vars
-----------------------------------------------------------------------------
(***************************************************************************)
(* Properties.                                                             *)
(***************************************************************************)
\* Every file a view has waiting is of a name of the folder, and a load runs
\* only in a folder somebody monitors.
TypeOK ==
  /\ disk \in [Names -> {"none"} \cup Attributes]
  /\ DOMAIN file = Names /\ DOMAIN dir.queries = Names
  /\ \A o \in Held(view) : o[1] \in Names /\ o[2] > 0
  /\ dir.load \/ dir.loaded => dir.monitored
  /\ dir.unread \subseteq Present

\* Everything that was under way has arrived.
Settled ==
  /\ events = << >>
  /\ dir.loaded /\ ~dir.idle
  /\ \A n \in Names : /\ dir.queries[n] = 0
                      /\ \A attribute \in Attributes : dir.answers[n][attribute] = 0
                      /\ n \in Listed(file) => file[n].lacks = "nothing"

\* No file is missed: once the changes have been notified and the load is done,
\* every file there is, is listed, however the load, the notifications and the
\* answers to them overtook each other. (A notification that outlives the last
\* monitor may be of a file that exists again, and the successor of a file that
\* is listed though it is gone may not be noticed.)
NoFileIsMissed ==
  Settled /\ ~past.failed => Present \subseteq Listed(file) \cup past.late \cup past.overtaken

\* A notification of a file that is listed "could be ignored"
\* (baul_directory_notify_files_added): the file stays listed.
AddedFilesAreListed ==
  Settled /\ ~past.failed /\ past.late = {} => Present \subseteq Listed(file)

\* A file is listed that is not there only if it was removed, or its removal
\* reported, between the moment an info of it was read for the list and the moment
\* the idle callback took it in, or if a load failed.
GhostsAreOvertaken ==
  Settled /\ ~past.failed => Listed(file) \subseteq Present \cup past.overtaken

\* What has become ready and was reported to nobody.
Unreported(files, o) == ~IsGone(files, o) /\ files[o[1]].silent

\* A view that has nothing left to display shows no file that is gone, and it shows
\* the visible files of the list, whatever batches they came in (process_new_files,
\* process_old_files). The exceptions: a file that an unchanged info made ready while
\* the view waited for it is not reported (dequeue_pending_idle_callback), and the
\* view goes on waiting with all it has to display; one that was hidden or shown
\* again after it was listed is not sorted again.
ShownIsListed ==
  /\ Settled
  /\ view.step = "underway" /\ ~view.display /\ ~view.frozen /\ ~past.stopped
  /\ \A o \in view.nonReady : ~Unreported(file, o)
  => /\ view.shown \subseteq Objects(file, Listed(file))
     /\ \A o \in Objects(file, Listed(file)) :
          ~file[o[1]].toggled => (o \in view.shown <=> StillShouldShow(file, o))

\* Nothing is left waiting: what a view has not displayed yet is displayed on a
\* timeout, with the files that are not ready or when the load is done; a file it
\* waits for is one that will be reported, unless an unchanged info has made it
\* ready; and a load that is done is displayed to its end (queue_pending_files,
\* done_loading_callback, display_pending_files).
NothingIsStranded ==
  view.step = "underway" /\ ~view.frozen =>
    /\ view.newAdded \cup view.newChanged \cup view.oldAdded \cup view.oldChanged # {}
         => view.display \/ ~dir.loaded \/ view.nonReady # {}
    /\ \A o \in view.nonReady :
         ~ReadyToLoad(file, o) \/ o \in view.newChanged \/ Unreported(file, o)
    /\ view.loading /\ dir.loaded => view.display \/ view.nonReady # {}
=============================================================================
