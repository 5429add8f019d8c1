# Baul, specified

Baul is the file manager of the CAFE desktop, a C program of about 190 000
lines. This directory holds TLA+ models of the parts in which several actors
share state, the TLC configurations that check them on small instances, and
TLAPS proofs for every value of their constants. `PROJECT.json` names, for every
definition, the lines it models, and for every property the run that checks it,
the theorem that proves it where there is one, and a mutant of the model that
breaks it.

Contents: [the parts of the program](#the-parts-of-the-program) ·
[modules](#modules) · [DirectoryAsync](#directoryasync-the-attribute-engine) ·
[FileChangesQueue](#filechangesqueue) · [Thumbnails](#thumbnails) ·
[FolderView](#folderview) · [SlotLocation](#slotlocation) ·
[FileOperations](#fileoperations) · [ProgressInfo](#progressinfo) ·
[UndoStack](#undostack) · [SearchDirectory](#searchdirectory) ·
[BookmarkList](#bookmarklist) · [runs](#runs) · [proofs](#proofs) ·
[disagreements](#disagreements) · [not modelled](#not-modelled) · [plan](#plan)

## The parts of the program

Everything that touches a view runs in the main loop of one thread. The hard
part is seldom parallel threads; it is calls that nest (a function signals a
change, a handler calls back into the function's own module, and the function
goes on with what it knew before) and answers that come when the question has
been overtaken. Threads exist for file operations, thumbnails, searches and
(inside GIO) every asynchronous call.

| part | state it keeps | operations | hard to get right |
|---|---|---|---|
| **Attribute engine** `libbaul-private/baul-directory-async.c`, `baul-file-queue.c` | slots in use, directories that wait for a slot; per directory: three work queues, one job per kind, monitors, ready callbacks, the load | monitor, call-when-ready, cancel, invalidate, force reload; answers of every kind of job | nested service loops, late answers, cancelled answers, wake-ups, slot accounting |
| **File changes queue** `baul-file-changes-queue.c`, `baul-monitor.c` | mutex-protected queue, idle source | post from threads and monitors, consume in the main loop | order of grouped changes, a change queued while the queue is consumed |
| **Directory objects and the directory view** `baul-directory.c`, `baul-directory-async.c`, `src/file-manager/fm-directory-view.c` | file list with unconfirmed files, queries in flight, pending infos; in the view six lists of files between the signal and the display | load in batches, notify added / removed / changed, reload, freeze, stop, display | an info that is older than a notification, a file that moves between lists |
| **Thumbnail factory** `baul-thumbnails.c` | queue and hash under a mutex, thread-running flag, the file being thumbnailed | create, prioritise, remove; thread; starter idle | starter and thread decide independently whether a thread runs |
| **Progress infos** `baul-progress-info.c` | per operation: started, finished, waiting, pending source; widgets, their order and states | set from threads, signal from the main loop; pause, queue, resume, cancel | coalesced signals, bare pointers in idle functions, who starts the next operation |
| **File operations** `baul-file-operations.c` | lists of files, skip set, remembered answers | copy, move, duplicate, link, create, delete, trash, empty the trash, with dialogs | answers for all, merges, replaced folders, cancellation midway, what is undone later |
| **Undo stack** `baul-undostack-manager.c` | bounded stack with an index, locks, undo-in-progress flag | add, undo, redo, trash emptied | entry dropped while it is undone, flag that stays up |
| **Window locations** `src/baul-window-manage-views.c` | pending location, new and old view, mount, back / forward lists | open, back, forward, reload, stop, switch view; reports of views | a new change begun while the last one is determined |
| **Search** `baul-search-directory.c`, `baul-search-engine-simple.c` | clients, files found, finished flag; in a thread, directories to visit | monitor, call-when-ready, query, reload, hits and end | hits posted after a stop, links in circles |
| **Bookmarks** `src/baul-bookmark-list.c` | list, queue of pending loads and saves, monitor | append, delete, load, save | save queued while a load runs |
| **List and tree models, trash monitor, clipboard, activation, autorun, connect to server** | rows; one request each | add, change, remove rows; mount then open | not modelled, see below |
| **Views, icon container, sidebars, dialogs, eel, egg, extension interface** | widgets | drawing, events | little shared control |

They meet as follows. A window slot decides on a view and drives it; the view
monitors a directory; the attribute engine loads the directory and reads
attributes, and signals changes through the directory object. A file operation
posts changes to the file changes queue from its thread; so does the directory
monitor from the main loop; consuming the queue calls
`baul_directory_notify_files_*`, which edits file lists and invalidates
attributes, which goes back into the attribute engine. An operation reports its
progress through a progress info, stops in it while the user has paused it, and
hands what it has done to the undo manager, which undoes it by new operations.
Thumbnails are requested by the engine's thumbnail attribute and reported back
as a changed file. A search is a directory whose files come from an engine.

What makes each part correct:

* attribute engine: slots are neither lost nor released twice; a wanted
  attribute is read; a callback is called when what it asks for has been read;
  nothing stays in progress that nobody wants; an answer older than an
  invalidation is not believed;
* file changes queue: every change is sent once, in an order that makes sense
  to the receiver;
* directory and view: however notifications, batches and answers overtake each
  other, what is listed is what is there, what is shown is what is listed, and
  where that is not so the file is one of a few that can be named;
* thumbnails: one thread; no request is left when no thread runs; no image
  passes for newer than it is;
* progress: what a widget shows is what its thread does; no idle function
  outlives what it points to; a queued operation gets its turn;
* file operations: nothing is lost that the user did not give up; the undo data
  are the work that was done, all of it and nothing else;
* undo: one history; what is freed is not used again;
* windows: answers come to who expects them; Back and Forward describe where one
  was;
* search: what is listed is what the search of the moment found;
* bookmarks: a list that is being loaded is never saved, and what is in the file
  stays there until somebody takes it out.

## Modules

| module | models |
|---|---|
| `AttributeRequests` | what `baul_file_call_when_ready` promises (abstract) |
| `DirectoryAsync` | the attribute engine; implements `AttributeRequests` |
| `MCDirectoryAsync` | instances of it: a directory, its subdirectory, four files |
| `DirectoryAsync_proofs` | type correctness, the implementation, the count of the job slots, no unwanted or forgotten job, current answers, and that no wake-up is lost where nothing is listed, proved |
| `DirectoryLoads_proofs` | of the loads of `DirectoryAsync` that each ends once and those that go on are wanted, proved |
| `FileChangesQueue` | the queue, its producers and its consumer |
| `Thumbnails` | the thumbnail thread, its queue, and the file that waits for its thumbnail |
| `FolderView` | a folder on disk, its directory object and a view of it |
| `FolderView_proofs` | no file missed, every ghost explained, nothing left waiting, the view shows the list, proved |
| `BrowserHistory` | what Back and Forward promise (abstract) |
| `SlotLocation` | the location changes of a tab; implements `BrowserHistory` |
| `LateAnswers_proofs` | of `SlotLocation` expected answers, what is watched, the entries picked, the history behind Back and Forward; of `Thumbnails` one thread, its entry, no stranded request, no dropped request, current thumbnails and shown images, proved |
| `FileJob` | what every file operation is made of: the disk, the dialogs, the scan, the undo data |
| `FileTransfer`, `FileRemoval`, `FileCreation` | copies, moves and duplicates; delete and trash; links and new files |
| `FileOperations`, `MCFileOperations` | a job of any kind and its undoing; disks, jobs and trash bins to check it on |
| `FileOperations_proofs` | nothing is lost unasked, the views are told, proved |
| `ProgressInfo` | operation threads, their progress objects and their widgets |
| `JobThreads_proofs` | of `FileChangesQueue` that every change is handed on, once and in order; of `ProgressInfo` that no callback dangles and a thread waits where its widget says, proved |
| `UndoHistory` | what an undo manager promises (abstract) |
| `UndoStack` | the undo manager; implements `UndoHistory` |
| `SearchDirectory`, `MCSearchDirectory` | a search folder with its engine; folders with links in circles |
| `SearchDirectory_proofs` | what is listed is watched, reports are current, results complete, proved |
| `BookmarkList` | the list, its queue and its file |
| `KeptLists_proofs` | of `UndoStack` one history, and which freed action may be read; of `BookmarkList` that nothing is lost but what a failed read leaves out, proved |

Every module keeps the mutants of a definition just before it, marked `Mutant:`.
They are used by no specification. Each run's configuration is named after it.

## DirectoryAsync: the attribute engine

**State.** The variables carry the code's names: `jobs` is `async_job_count`,
`waiting` is `waiting_directories`, `waking` is `already_waking_up`,
`queue[d].high / low / extension` are the three work queues, `current[<< d, k >>]`
is the file of the job of kind `k` in progress (`get_info_file`,
`count_in_progress`, ...), `outdated` holds the attributes whose
`*_is_up_to_date` is not set, `active` the callbacks on `call_when_ready_list`
that wait, `ready` those that are satisfied, `idle` the directories with
`call_ready_idle_id`, `listMonitored / loaded / loading` are
`file_list_monitored`, `directory_loaded` and `directory_load_in_progress`,
`inLoop` and `stateChanged` are `in_async_service_loop` and `state_changed`.
`stale` and `tainted` are history variables: jobs begun before their attribute
was invalidated, and attributes that such a job has set.

**Calls that nest.** The code runs to completion between two dispatches of the
main loop, but what it does in between depends on re-entrance at every signal.
`stack` holds the calls still to be made, innermost first; each action of `Step`
executes the topmost one and may push others. So `directory_load_cancel`, for
example, is `UnloadDirectory` (clear the flag of the directory's file, push the
parent's `Changed`) followed later by `EndDirectoryLoad`: between the two, a
whole service pass of the parent runs with the load still counted, as in the
code. A `Signal` on the stack is a signal emission or a ready callback: its
handler does nothing or, in instances with `"reentrant"`, makes one client call
there and then; with `"nested_reload"` that call may also be a forced reload. The main loop (`MainLoop`) acts only when `stack` is empty.

**Actions and code.** `Request` is a client's call out of the main loop
(`MonitorAdd`, `CallWhenReady`, `InvalidateAttributes`, `ForceReload`, ..., and
`NotifyFilesChanged`, which is `baul_directory_notify_files_changed`: it outdates
attributes without cancelling the jobs that read them);
`Answer` and `AnswerCancelled` are the asynchronous callbacks, `DeepCountProgress`
the one that signals while its job goes on. The ten kinds of jobs share these
actions; `FileInfoJob`, `LinkInfoJob`, ... say in what their functions differ:
whether a cancelled job holds its slot until its callback runs, whether the
callback signals before or after it releases the slot, and what the start
function does for a file that needs no reading (`Skip`). `LoadDone` is
`directory_load_done`; `CallReadyCallbacks`, `CallOne`, `CallNoMore` are the
idle function that calls ready callbacks. `StateChanged` is the entry of
`baul_directory_async_state_changed`; the service pass then goes through the
phases list, stop, high, low, extension, ready with one job kind per step
(`StartFileList / StopFileList`, `StopUnwanted`, `StartJob`, `Skip`,
`StartExtensionAtOnce`, `FinishHead`, `NextLevel`, `CallReady`), and `WakeUp`,
`WakeOne`, `WakeNoMore` are `async_job_wake_up`.

**Abstractions.** An attribute is up to date or not; its value is left out, and
so are read failures, which set the same flags. The batches of a directory load
are one answer: how they become files is in `FolderView`. One
request names one attribute and what `baul_directory_set_up_request` adds to it;
each `<< file, kind >>` has at most one monitor and one callback. What a file is
(a directory, a link, mountable) may change, so `AtOnce` only says for which
pairs the start function may find nothing to read. One info provider answers
for a file; the two sizes of top-left text are one kind. Not modelled here:
`new_files_in_progress`, a file that `query_info_callback` finds gone, and the
destruction of directories and files.

**The promise.** `AttributeRequests` says that a callback becomes due only when
what it asks for is known. Known is what the file's flags say (`UpToDate`: no
attribute of the request is in `outdated`), whatever `request_is_satisfied`
looks at. That function asks for no flag of the extension info
(`baul-directory-async.c:1917`), so a callback for it may become due with nothing
known; these callbacks are `Unpromised`, and [Disagreements](#disagreements) has
the promise without that exception.

**Bounds.** `ClientCalls` limits the client calls of a behaviour; nothing else
is bounded. Two directories are enough for one to wait while the other holds
the slot and for the parent / child nesting; with `MaxAsyncJobs` of 1 or 2
(the code has 10) every limit is reached within two calls. Three or four calls
give, for example, a monitor, an invalidation while its job is in progress, a
callback on another file, and a cancellation.

**Fairness.** The program's own steps are weakly fair because one thread
executes them without waiting. Each answer is weakly fair: GIO calls an
asynchronous callback exactly once, with an error if need be. Idle sources are
weakly fair because the main loop dispatches them when nothing of higher
priority is ready, and the number of client calls is finite. Clients owe nothing.

## FileChangesQueue

`PostChanges` is `baul_file_changes_queue_add_common` under the mutex; `JobPosts` is
an operation's thread, `DirChanged` the monitor (which is connected to its
signal twice, `baul-monitor.c:165`, so each event is queued twice). `DoneCallback`
and `IdleConsumes` enter `baul_file_changes_consume_changes`, `TakeChange` takes
one change and flushes first if it cannot join the kinds collected,
`ConsumeEnds` is the final flush. Threads may post between any two of these.
The consumer's lists are sent as a whole (the loop that sends one runs in the
main thread and posts nothing). Every caller passes `consume_all = TRUE`. That the
queue is created by the first call, without a lock
(`baul-file-changes-queue.c:67`), is left out: two threads that make their first
calls at the same time may each get a queue of their own.

`MaxChanges` of 3 gives every pair of kinds in either order with a third
between, before or after them, from two threads and the monitor. The done
callback of an operation is strongly fair because it competes with the idle
source for the main loop; a thread ends by itself.

## Thumbnails

**State.** `queue` is `thumbnails_to_make` with its hash, `request[f]` the
`original_file_mtime` of its entry, `current`, `running`, `starter` are
`currently_thumbnailing`, `thumbnail_thread_is_running` and
`thumbnail_thread_starter_id`; `pc`, `origMtime`, `pixbuf` are the thread's own.
`file[f]` holds of a `BaulFile` what decides about its thumbnail. `content`,
`mtime`, `thumb` and `failedMark` are the disk. `notices` and `timers` count the
idle and the timeout sources that call `thumbnail_thread_notify_file_changed`.

**Actions and code.** In the main loop `Draw` is `baul_file_get_icon`, with
`AddToQueue` (`baul_create_thumbnail`) under the mutex; `StartThread` the
starter; `QueryInfo` and `LoadThumbnail` are GIO, which reads the file's info and
its thumbnail in threads of its own, and `InfoArrives` and `ThumbnailArrives` the
callbacks, later and in either order; `FileChanged` is the monitor's report, which
puts the info out of date and does not cancel what is being read; `Notify` the
thread's report, which does (`baul_file_invalidate_attributes`);
`Prioritize`, `Close` and `Open` what views do. The thread is `TakeNext` (all it
does under the mutex), then `SkipRecent` or `Generate`, `GenerateReturns`,
`Save`, `Report`, so that the main loop runs between any two of these.

**Time.** Modification times are seconds, of which only equality and age
matter: the n-th distinct time of a file is n, `age` says how long ago it was,
up to `Delay`. Two writes in one second share a time. `Tick` is a second; the
thread gets from one entry to the next, two statements, in less than one, which
is the only thing assumed about its speed.

**From outside** the module takes that a file's info has a thumbnail path if and
only if there is a thumbnail on disk, that its failed flag is set when a file
without one is marked, and that the thumbnailer reads the file at some moment
between being asked and answering. Not modelled: renamed files (the report goes
to the old location), a thumbnail that cannot be saved, the reading of the
original image for large icons, preferences.

**Bounds.** `MaxChanges` (2) counts writes and closings: two writes in the same
second, in different seconds, or one of each around a closing. `Delay` is 1 (3
in the code): more seconds only repeat the skip. Two files, one of which is
broken, give a queue to reorder.

**Fairness.** No property of the run needs any; `FairSpec` (the clock, the
thread and the main loop go on) is there for `SkippedIsRescheduled`, see
[Disagreements](#disagreements).

`EveryRequestIsMet` has an exception in its last two disjuncts that the code
needs: a request with the same time that comes after the thread's report and
before the thread takes its entry off the queue is dropped with that entry. The
file has its thumbnail then, but nobody resets `is_thumbnailing`, so it is not
asked for again until the file changes.

`ShownIsCurrent` has one too: a change that is reported after the file's info was
read and before it is taken in (`outrun`). The answer marks the old info as up to
date, and the older image stays until something else is reported of the file.

## FolderView

One folder. `disk` and `events` are the file system and its change
notifications; `dir` and `file` are the `BaulDirectory` and its file list, `view`
an `FMDirectoryView`.

**State.** `dir.load`, `dir.unread`, `dir.batch`, `dir.pending`, `dir.idle`,
`dir.loaded`, `dir.sent` are the load in progress, what it has still to read, what
GIO has read for `more_files_callback`, `pending_file_info`,
`dequeue_pending_idle_id`, `directory_loaded` and
`directory_loaded_sent_notification`; `dir.queries` are the requests of
`new_files_in_progress` that GIO has not read yet, `dir.answers` those whose answers
are on their way. `file[n]` is the file object of a name, with `unconfirmed`, what it
`lacks` before it is ready (its info, or of a link what is read next), the `answer`
that GIO has read for it (`get_info_in_progress`) and whether it is hidden. Its
generation, the address of the object, tells it from its predecessors, since a view
may hold a file that is gone. A new object has any address that nobody holds
(`FreshGen`). `view` has the six lists of files between the signal and the display
(`newAdded`, `newChanged`, `nonReady`, `oldAdded`, `oldChanged`, `shown`), the
scheduled display and the freeze with its count of queued updates.

History variables name what the properties except: `past.overtaken` the files that
were removed, or whose removal was reported, while an info of them was read and not
yet taken in; `past.late` those of a notification that outlived the last monitor;
`silent` a file that became ready and was reported to nobody, `toggled` one that was
hidden, or shown again, after it was listed.

**Actions and code.** What GIO reads in its threads and what the main loop makes of
it are different actions, and everything else may come in between: `ReadNext` and
`MoreFiles` (`g_file_enumerator_next_files_async` and `more_files_callback`),
`QueryNewFile` and `NewFileInfo` (the query of a file that was notified and
`new_files_callback`), `QueryInfo` and `InfoArrives` (the query of a listed file and
`query_info_callback`, which may find the file gone). `LinkArrives` is what is read of
a link after its info. `StartLoad`, `LoadEnds`, `LoadFails`, `DequeuePending` are the
other callbacks of the load; `Notify` the three `baul_directory_notify_files_*`
functions; `FinishLoading`, `Display`, `StopLoading`, `Freeze`, `Unfreeze`, `Load` the
view's. Functions that do not dispatch events are operators on records
(`Dequeue`, `ProcessNewFiles`, `DoneLoading`, ...), so that an action is a whole
callback with every handler it calls.

An info that says what was known already is no change
(`baul_file_update_info` returns `FALSE`), so `Dequeue` signals nothing of it. Any
info may be one: `unchanged` is chosen freely wherever infos are taken in.

**Abstractions.** A file is hidden or not; of the attributes that make it ready there
are two steps, the info and, of a link, what is read after it. How the jobs that
read them share slots is in `DirectoryAsync`. The monitor is connected twice
(`baul-monitor.c:165`), so a new file is asked for twice. Left out: the
subdirectories of a list view, renames and moves, sorting.

**Bounds.** Two names, of which one is a link; two changes of the world or the user,
with files appearing, disappearing, changing and being hidden, loads that fail,
reloads, another window, a stop, a frozen view; one queued update before a frozen
view gives up. An interleaving that the properties are about takes one or two
changes (a removal during a load, a change and a reload), and GIO, the main loop and
the view take any number of steps around them. Liveness is not checked:
`NothingIsStranded` is its safety form, "a display is scheduled, or something that
will schedule one is under way".

**Exceptions.** Each is what the code does, and
[Disagreements](#disagreements) has the properties without them.

* `GhostsAreOvertaken` and `NoFileIsMissed`: a file in `past.overtaken`. Its info
  becomes a file after the removal was handled, and nothing is left that would take
  the file off the list; its successor is then taken for a file that is listed
  already. After a load that failed nothing is said.
* `NoFileIsMissed`: a file in `past.late`. What is notified after the last monitor
  is gone may be about a file that exists again.
* `NothingIsStranded` and `ShownIsListed`: a `silent` file. The view waits for it,
  and with it for the display of everything else, until something else is reported.
* `ShownIsListed`: a `toggled` file. Whether a file is shown is decided when it is
  sorted in. One that is hidden while the view waits for it, or before it is
  displayed, stays, and one that is shown again is not looked for.

## SlotLocation

One tab. `slot` holds the fields of `BaulWindowSlot`, of the navigation slot and
of its views: `pending`, `type`, `distance`, `triedMount`, `determine`
(`determine_view_file`), `ready` (the files whose attributes are awaited),
`mounting`, `content` and `nascent` (`content_view`, `new_content_view`, each with
how far its load is), `watched` (`viewed_file`), the lists and the two bookmarks.

**Actions and code.** The functions of `baul-window-manage-views.c` are operators
on a slot, by their names; an action is what the user does (`OpenLocation`,
`GoBack`, `GoForward`, `Reload`, `StopLoading`, `SetContentView`,
`ForgetHistory`, `CloseSlot`), what the world does (`DeleteFolder`), an answer
(`FileInfoReady`, `MountDone`) or a report of a view (`ContentUnderway`,
`NascentUnderway`, `ContentComplete`, `ContentLoadError`). `LocationHasReallyChanged`
applies the handlers of the type of the change that was begun last, as the code
does; an assert that fails closes the slot.

`ImplementsHistory`: `BrowserHistory` is a sequence of visited places and a
position in it. The refinement mapping puts the Back list, reversed, before the
place that is shown and the Forward list after it.

**Bounds.** Three places and five clicks: a change that is overtaken by another
takes two, and the lists need two visits before there is anything to go back to.
The run goes one step back or forward; why not more is under Disagreements.

**Fairness.** Answers and reports come, each weakly fair; so the dialog of a
mount is assumed to be answered. The user owes nothing.

**Left out**: windows of the desktop and of the spatial mode, a first window that
fails before it is shown, renamed folders, selection and scroll position, several
slots and panes.

## FileOperations

One job from the menu to its end, and what undoing it does. `disk` maps paths to
contents, a folder being `<< >>`; `trash` is what was trashed, with the place
it came from. `FileJob` has what all jobs share; three modules have the thread
of each family, and `FileOperations` adds the user who stops a job, undoing and
the emptying of the trash.

**State.** `phase`, `todo`, `fallbacks`, `stack` are where the thread is: the
function, the list it walks, the list it will walk next (what
`move_files_prepare` could not rename, what `trash_files` puts on `to_delete`, what
waits while other files are deleted) and the recursive calls of
`copy_move_directory` or `delete_dir`, each with the children it has left and
whether something was skipped. `flags` are the remembered answers (`skip_all_error`,
`skip_all_conflict`, `merge_all`, `replace_all`, `delete_all`) and whether the job
is aborted. `pairs` is the undo data, `known` the paths the views know from what
the job has put on the file changes queue. `before`, `agreed` and `always` are
history: the disk at the beginning and what the user agreed to lose.

**Actions and code.** `FileTransfer`: `Scan` and `Call` (`scan_sources`,
`copy_job`, `move_job`), `Prepare` (`move_file_prepare`), `NextFile`, and the steps of
`copy_move_file`: `Check` before the attempt, `Try` with the attempt and each
refusal (a taken name with every answer of the conflict dialog, a name the
destination refuses, a folder that must be walked, an error), `NextChild` and
`FolderDone` of `copy_move_directory`. `FileRemoval`: `Confirm`, `ConfirmTrash`, `Trash`,
`TrashDone`, `ScanFiles` and the walk of `delete_file` and `delete_dir`.
`FileCreation`: `Verify`, then `Make` until a name is free. In `FileOperations`
`UndoMaking`, `UndoMove` and `UndoTrash` are the branches of
`baul_undostack_manager_undo` that touch files, `EmptyTrash` is `empty_trash_job` with
`trash_has_emptied`.

**Abstractions.** Contents are values that move with their file, so that "lost" can
be said; a name is a base and a number, a name the destination refuses becomes
one mended name (of a duplicate the first file gets a new name, what is in it keeps
its own). `Result` is what `g_file_copy` and `g_file_move` answer, by GIO's
documentation; a folder that is moved over a file on the same file system replaces
it. Left out: sizes, times and permissions, Retry (it repeats the
step), what the job reports to its caller, symbolic links that are copied,
folders that can be read only in part when they are deleted, a new file that
cannot be written.

**Bounds.** A folder with two or three files and folders to work on, one place
whose name may be taken by a file, an empty folder, a folder with a file or with
a folder; two names for the user to type; one refused name. Every answer about a
name and every error may come at every step. One file in the trash has come from
the same place before. That is enough for an answer given for all to meet a
second name, for merges inside replaced folders, and for a target to come before
its contents in the undo data.

## ProgressInfo

**State.** `info[o]` is the `BaulProgressInfo` that a thread and the main loop share
under a mutex, with its references and its pending source; `widget[o]` the
state shown, `box` the order of the widgets, `idles` the idle functions in the
order they were posted, `pc[o]` and `left[o]` the thread.

**Actions and code.** In the thread `Start`, `Report`, `Ask`, `Answer`, `GetReady`
(`baul_progress_info_get_ready`, where it sleeps while the user has paused it),
`LastFile`, `JobDone`; in the main loop `RunIdle`, `RunTimeout` and the three
buttons. `ToRunning`, `ToPending`, `ToPaused`, `ToQueued` are
`widget_state_transit_to`, which also puts the widget at its place and starts the
next queued operation (`UpdateQueue`). User events and timeouts may come before
any idle function; idle functions run in order.

**Bounds.** Two operations, two files each, two clicks: one operation to pause or
queue and another to take its turn.

**Fairness.** Idle functions and threads run (weakly fair); a file is not asked
about for ever (strongly fair). The user may leave everything paused.

`QueueMoves` excludes what the code cannot do: an operation that sleeps while its
widget says "pausing" is never noticed, and nobody after it is started.

**Left out**: the window and the timer that opens it, the status icon, texts.

## UndoStack

The manager: `stack`, `index`, `flag` (`undo_redo_flag`), and of each action its
type, and whether it is `locked`, `doomed` (to be freed when unlocked) or `freed`.
`Begin` and `End` are an operation that records, `Push` is `stack_push_action` with
`stack_clear_n_oldest`, `Undo` and `Redo` start a job or are done at once, `JobDone`
is the callback, `EmptyTrash` is `trash_has_emptied`. What the jobs do to files is in
`FileOperations`.

An action that falls off the stack while it is redone is doomed: the callback of its
job frees it and then reads the manager from it
(`baul-undostack-manager.c:1757`). In the model what it reads there is left open, so
the flag is lowered or not, and `misread` remembers the action.
`NothingElseFreedIsUsed` says that this is the only use of what was freed, and
`RecordingResumes` holds as long as it has not happened.

`UndoHistory` is two sequences, what can be undone and what can be redone.
The mapping cuts the stack at its index and reverses the part before it.

**Bounds.** Four actions on a stack of two levels: one is dropped while it or another
is undone or redone. **Fairness**: the callback of an undo or redo comes.

The run has no operation that ends while the redo part of the stack is being
undone (`"overlap"`): then an action is freed that a job comes back to.

## SearchDirectory

A search folder, its engine and its threads. `directory` holds the fields of
`BaulSearchDirectory` and its engine, `files` how often it lists each file, `watch`
and `handlers` the monitors and the signal handlers it has on them, `call` the callbacks
that wait, `thread[i]` the i-th search with the directories it has visited and
has still to visit, `idles` what threads have posted to the main loop.

`VisitNext`, `VisitDirectory` and `SearchEnds` are the thread of
`baul-search-engine-simple.c`, which posts hits in batches; `HitsAdded` and
`SearchDone` its idle functions; `FileReady` the attribute engine's answer about
a file found. Clients monitor, wait, cancel, change the query, reload, and give
the directory up at any moment (`Dispose`).

**Bounds.** Two folders with links back and to themselves, batches of two, one
client, one call, four acts: a search, a reload with another query while the
first thread still runs, a stop. **Fairness**: threads, the main loop and the
answers about files go on.

**Left out**: engines of index services and the hits they withdraw, what a file
must contain, saving a search, file systems that do not identify their files.

## BookmarkList

`list`, `ops` (`pending_ops`), `job` (what GIO does for the operation at the head),
`monitor`, `file`, and `legacy`, the file of older versions. `Ask` appends an
operation and starts it if it is the only one; `Read`, `ReadFails`, `Written`,
`WriteFails` are GIO, `OpProcessed` the callback that takes the next. The user
inserts, deletes, moves and changes bookmarks; other programs write the file.
`owed` (what the list has read or saved and nobody has taken out), `unread` (what of
that a failed read has left out of the list and nothing has brought back) and
`behind` (the file was written unnoticed, or an operation failed) are history. A read
that fails leaves the list cleared (`src/baul-bookmark-list.c:569`), and the next save
writes what is left, so `NothingIsLost` excepts `unread`.

**Bounds.** Two bookmarks, lists of two, three acts of the user, two writes of
others, one error. **Fairness**: GIO answers and the main loop runs.

**Left out**: names and icons of a bookmark, the window geometry, the menus.

## Runs

| run | question |
|---|---|
| `DirectoryAsync_jobs` | slots, wake-ups, queues, unwanted jobs and stale answers with two directories, one slot, reentrant handlers |
| `DirectoryAsync_loads` | no job is ended twice, loads are wanted, and every wanted list is loaded, with forced reloads and handlers |
| `DirectoryAsync_requests` | the engine implements `AttributeRequests`; callbacks fire |
| `FileChangesQueue` | nothing lost or doubled, only icon positions are overtaken, everything is sent in the end |
| `Thumbnails` | one thread, its entry, requests met, thumbnails current, and shown images too unless a report outran the info |
| `ProgressInfo` | no dangling idle function, widget and thread agree, the queue moves |
| `SlotLocation` | answers are expected, only what is shown is watched, the history is implemented, changes end |
| `FolderView` | no file missed, ghosts explained, shown is listed, nothing stranded, each with its exceptions |
| `FileOperations` | nothing lost unasked, undo data exact, views told, undone is gone |
| `UndoStack` | which freed action may be read, recording resumes unless one was, the history is implemented |
| `SearchDirectory` | files watched once, reports current, results complete, calls end |
| `BookmarkList` | nothing lost but what a failed read left out, the list settles |

`CHECK_DEADLOCK FALSE` everywhere: a behaviour ends when users and clients do
nothing more and every answer has come.

What the instances of `DirectoryAsync` leave to each other: `DirectoryAsync_jobs` has
no loads, so that `NoLostWakeUp` can hold (a load ends after the last wake-up,
see below); `DirectoryAsync_loads` has no reload out of a handler of a load, so that
`FileListsLoad` can hold; no run has an invalidation of extension info, or a
report of changed files, together with `NoStaleAnswer`.

## Proofs

`DirectoryAsync_proofs` proves, for all constants that satisfy
`DirectoryAsyncAssumption` (finitely many directories, jobs of known kinds, at
least one slot) and `ListingAssumption` (the files of a directory's list live in
it, which the code asserts):

* `TypeCorrect`: `Spec => []TypeOK`. `TypeOK` is inductive by itself because it
  types the pending calls: `Frames` lists what can be on the stack, so each
  action that executes a call knows what the call carries (`TopType`), and each
  that pushes calls pushes frames (`FramesType`, `Pushes`). That `jobs` never
  exceeds `MaxAsyncJobs` is part of it.
* `RequestsImplemented`: `Spec => ImplementsRequests`, by showing that each
  action maps to one step of `AttributeRequests` (`ClientCallStep`,
  `EngineStep`): `CallReady` to `Satisfy`, `CallOne` to `Deliver`, the changes
  of `outdated` to `Learn`. What has to be shown of `CallReady` is that
  `request_is_satisfied` asks enough (`SatisfiedIsUpToDate`): it takes an attribute
  that is read after the file info for not lacking while that info is out of date,
  so that all attributes are up to date follows only because the request includes
  the info.

* `SlotsExact`: `Spec /\ []EndsOnlyStartedJobs => []JobsExact`. The inductive
  invariant `SlotInv` adds to `JobsExact` that a cancelled job is still in
  progress: without it the late end of a cancelled item count might release a
  slot nothing holds. The work is in counting: `EndsOf` counts the ends on the
  stack, and the lemmas on it (`EndsPushes`, `EndsPushOne`, `EndsBelow`) say how
  each way of pushing and popping calls changes the count. The assumption
  cannot be dropped: top-left text can be read to its end twice (see
  [Disagreements](#disagreements)).

The next two discharge it where it can be:

* `NoWakeUpIsLost`: if clients list no directory (`Listed = {}`), then
  `Spec => []NoLostWakeUp`. With lists it is false (see [Disagreements](#disagreements)). The invariant
  `WakeInv` says who will wake the waiting directories while calls are pending:
  a directory in its service loop has its pass on the stack (`InLoopPending`),
  `already_waking_up` means that the loop of `async_job_wake_up` is on the stack
  (`WakingPending`), a slot that is free while somebody waits means that a call
  is pending that leads to a wake-up (`WakeUpPending`), and an end of a job is
  followed by such a call at once (`Followed`). So a nested wake-up may return
  at once and a nested state change may only set a flag: the call that will
  make up for it is below them on the stack.
* `AttributeSlotsExact`: if moreover no top-left text is read, then
  `Spec => [](EndsOnlyStartedJobs /\ JobsExact)`, with no assumption on the
  behaviour left.

* `AnswersAreCurrent`: `Spec => []NoStaleAnswer`, if no report of changed files
  puts anything out of date that is read and extension info is not invalidated. Both
  conditions are needed (see [Disagreements](#disagreements)). The invariant
  `StaleInv` is that every job begun before its attribute was invalidated is
  told to stop (`stale \subseteq cancelled`), whose answers set no flag: each way of
  invalidating cancels what it makes stale (`CancelledStale`), and a job that is
  started anew is not stale.

* `NoJobIsUnwanted`: `Spec => []NoUnwantedJob`, with no condition on what clients
  call. The invariant `StopInv` has three parts. `BaseInv` is about what is
  pending: the calls on the stack follow each other as the code makes them
  (`Shape`: the end of a load is announced by the last three calls of
  `directory_load_done`, a directory is unloaded last or to be unlisted or
  reloaded, a pass is interrupted only by an unloading or once `doing_io` is set),
  a directory in its service loop has its pass on the stack (`LoopInv`), and its
  queues and jobs are for its own files (`Homed`). `JobInv` says that a job that
  nobody wants any more is about to be stopped: a pass over its directory is
  `Sure` to come, because another round was asked for, because a call is pending
  that leads to one (`Promise`), or because the end of a load runs the state
  machine of the parent (`EndTells`). `AnnouncedInv` is for the one change that
  runs no state machine, the item count that a load finds out for the
  directory's own file: a load that announces its end is yet to be cancelled,
  which tells the parent, unless the directory is unlisted or reloaded before.
  `UnwantedWhy` goes through what can make a job unwanted, `SureKept` through
  what can happen to a promise; a step of the stop phase that comes to the
  job's kind stops it (`StopHits`).

* `NoWorkIsForgotten`: `Spec => []NoForgottenWork`, if clients load no directory
  or use neither of the two kinds that a load finds out (`LoadsApart`). Without
  that condition it is false: a load hides what its directory's own file needs,
  and one that is cancelled does not queue the file again (*A ready callback may
  never come*, see [Disagreements](#disagreements)). The invariant `WorkInv` adds
  to `BaseInv` what is true of the queues while calls are pending. `NeedsInv`: a
  file that needs an attribute is on a queue its job is tried from (`Queued`), or
  a call on the stack will put it back (`PutBack`). A need may arise because
  the file info that its attribute depends on became known, so `InfoInv` says
  that the file whose info is being read is still on the high queue. `PassInv` is
  why a pass may move a file on: the levels above are empty, and every job of the
  level that was tried for the head of the queue is neither running nor needed
  (`HeadDone`). `QueueInv`: a directory with files on a queue is `Served`: it waits
  for a slot, has a job in progress, is asked for another round, has a call of its
  state machine pending, or is in a pass that has started nothing for the file it
  is at (`Open`). `QueueFilled`, `WaitingKept`, `RunningKept` and `CallServed` say
  that each of these gives way only to another, and `LevelServed` that a pass
  leaves files behind only with a job in progress, without a slot, or for
  another round.

`DirectoryLoads_proofs` goes on from there with the two invariants that are about
loads. It assumes `PassesAreQuiet`: no start function signals a change before it
returns (an extension that answers at once and the mount of a mountable file do).

* `LoadsEndOnce`: `Spec => [](EndsOnlyStartedJobs /\ JobsExact)` if moreover no
  top-left text is read. Both conditions are needed (see
  [Disagreements](#disagreements)). What has to be shown is that a load that is being
  cancelled is not cancelled again while the state machine of the parent runs.
  `Over` says which call may be above which on the stack; `Tidy`, that all are in
  their place: above a call of a pass, or of the end of a load, there is nothing
  that calls a handler. So what could cancel the load once more is only a pass
  over its directory that stops a list which nobody wants any more, and
  `SettledInv` says that such a pass is always the very next call after the
  client's that made it necessary. `Pushing` is the lemma about every step: what
  it pushes is in order (`PushedTidily`), and what each call may push (`Pushable`).
* `LoadsStayWanted`: `Spec => []LoadsAreWanted`, if no handler reloads a directory
  (`NoNestedReload`) and no two directories share a file (`FilesApart`, which the
  code's hash tables of directories and files see to). The first condition is needed (see
  [Disagreements](#disagreements)). `LoadsInv` adds to the invariant of `LoadsEndOnce`
  four parts that hold while calls are pending: a load in progress is of a monitored
  list that is not there yet or is being cancelled, and the files say so
  (`LoadingInv`); a wanted list is there, loading, waits, or has a pass on its way
  that comes to it (`WantedInv`, `Coming`); what is being cancelled is there, or
  unwanted, or about to be loaded anew (`CancelInv`); and while the end of a load is
  announced its list is there and no list is about to be forgotten (`TellInv`). The last
  one is why a handler of done_loading may ask for the list that is about to be
  unloaded: it is complete, and only its slot is given back.

`JobThreads_proofs` is about what the threads of operations hand to the main loop.
Of `FileChangesQueue` it proves, for any jobs and any `MaxChanges`,

* `EveryChangeIsHandedOn`: `QueueSpec => []HandsOnAll` (and `QueueTypes`:
  `QueueSpec => []QueueTypeOK`). The invariant `QueueInv` is about four values, what was posted,
  sent, collected and is on the queue (`Sound`), so that each step of the consumer
  is one or two operations on them: `FlushSound`, `TakeSound`, `PostSound`. It adds
  to `HandsOnAll` that what is on the queue arrived after what is collected and that
  after what was sent (`Arriving`), and that a change is collected after one in
  another list only if it may join that list (`Joined`). That is why the fixed
  order of the five lists does not matter when they are sent: of two lists that can
  be non-empty together with changes in both orders, the later one holds icon
  positions (`OnlyPositionsAreJoined`).
* `NoChangeIsStranded`: `QueueSpec => []NoStrandedChange`.

`LateAnswers_proofs` proves of `Thumbnails`, for any files and any delay of at least a second
(`ThumbnailsAssumption`):

* `TypeCorrect`: `FactorySpec => []FactoryTypeOK`. `TypeInv` adds that nothing counts further
  than the writes did (`Bounded`) and that the thread has a file while it works
  (`Working`). The lemmas `RemoveKeeps`, `AppendKeeps` and `FrontKeeps` say what
  each operation on the queue keeps; that a file is queued once is what makes
  removing one link remove the file.
* `OneWorkerAtATime`: `FactorySpec => []OneWorker`. Its three parts (one thread at most,
  the thread owns its entry, no request is left without a thread or a starter)
  are inductive together. The starter is scheduled only when
  `thumbnail_thread_is_running` is false, the flag is exact, and the thread
  clears it under the mutex only when the queue is empty.
* `ThumbnailsAreCurrent`: `FactorySpec => []ThumbnailIsCurrent`. `LabelInv` says that no
  request is newer than its file (`KnownTimes`) and that whatever carries the
  file's present modification time, on disk (`DiskLabels`) or in the thread
  (`ThreadLabel`), is older than the delay; so a write in the same second, which
  leaves the time as it is, cannot happen any more.
* `ShownImagesAreCurrent`: `FactorySpec => []ShownIsCurrent`. `ShownInv` adds that what is
  known of a file, and what of it has been read and not yet taken in, is true while
  no change of it is to be reported, unless a report has outrun it (`KnownIsTrue`).
* `RequestsAreMet`: `FactorySpec => []EveryRequestIsMet`. `MetInv` adds that the thumbnail
  the thread is about to report is made or cannot be, and that of the entry it is
  about to take off the queue this holds too or a timer will ask for it again
  (`Reported`), that an ended thread has no file (`NoThreadNoFile`) and that a closed
  file waits for nothing (`ClosedAsksNothing`).

`LateAnswers_proofs` also proves of `SlotLocation`, for any places, clicks and distances,
`AnswersExpected` and `WatchesShown`, and, where the history is never forgotten,
`EntryStillThere`: the entry the user picked from a list is still at its place
when the change to it arrives, so the asserts of `handle_go_back` and
`handle_go_forward` cannot fail. The invariant `SlotInv` is one property of a slot:
its types, that the bookmarks are of the places shown (`Marked`), that there is
one question at a time and it is about the pending place (`Expected`), what is
watched (`Watches`) and the entry (`Entry`). As the code is operators on a slot,
there is one lemma per function, `s` with the invariant giving a result with it,
and each action follows from the functions it calls.

`HistoryImplemented` proves `Spec => ImplementsHistory` for any places where
`BackDistances` and `ForwardDistances` are `{0}`, as in the run: two
entries down either menu it is false, see [Disagreements](#disagreements). `Trail` is
the walk that the two lists and the place between them make; `TrailForward`, `TrailBack` and `TrailElsewhere` say what
the handlers of the lists do to it. `WalkInv` adds to `SlotInv` that no two entries
side by side are of one place (`Apart`), without which the bookmark that the
handlers push would not be of the place that was shown, and that the pending place
of a step is the next entry, unless the history was forgotten (`Aimed`). Everything
but the arrival of a place leaves the walk as it is (`Stays`), and the arrival is a
step of the history (`ArrivedMoves`).

`KeptLists_proofs` is about two lists, each with its own specification.
`NothingLost`: `ListSpec => []NothingIsLost`, of `BookmarkList`, for any bookmarks and any
number of loads, saves, changes and errors. The invariant, about what is owed and not
`unread`, says
that the operation GIO does is the one at the head of the queue (`OneJob`), that a
list which no load has cleared has all that is owed (`ListHas`), that a load will
bring it back (`LoadBrings`) and a save writes it (`SaveWrites`), and that the file
has it (`FileHas`). The heart is that a save is only started from the head of the
queue, that is after the load before it has filled the list.

Of `UndoStack` it proves, for any actions and any limit of at least one
(`LevelsAreSome`):

* `HistoryImplemented`: `Spec => ImplementsHistory`. What can be undone is the stack
  from the index on, what can be redone is the rest, read backwards. `Parts` says what
  these two sequences are, place by place; `OneMore` what moving the index does to
  them, which serves `Undo` and, read the other way, `Redo`; `Pushed` what a new action
  leaves, `Emptied` what emptying the trash leaves. The invariant is only that the
  index is within the stack (`StackInv`).
* `FreedIsReadOnlyAtTheEnd`: `Spec => []NothingElseFreedIsUsed`, where no operation ends
  and no trash is emptied while an action that was undone is being undone or redone
  (`"overlap" \notin Uses`; with it, it is false, see
  [Disagreements](#disagreements)). The invariant
  `Apart` keeps what is to come, what is on the stack, what a job will come back to
  and what was freed disjoint, and the stack without repetition: so freeing what
  falls off one end never frees what stays (`PushedApart`, `LeftApart`), and what
  is read after it was freed was doomed and is read by its own job's callback.

Of `ProgressInfo`, `JobThreads_proofs` proves, for any operations, clicks and files
(`ProgressHolds`: `Spec => []ProgressInv`):

* `NoCallbackDangles`: `Spec => []NoDanglingCallback`. The thread holds a reference
  to its operation and so does the widget (`RefsExact`), so the question is who is
  left when an idle function is called. An emission is posted exactly while the
  source is an idle function, and before the operation is over or while it is
  displayed (`SourceExact`); whatever else is posted finds the widget, or a thread
  that waits while its first signals are still to be given (`Called`). That they are
  given before is the order of the idle functions: of one operation the first
  emission comes before all else and the last one after it (`EmittedInPlace`).
  This in turn needs that an operation which can wait does not get beyond its scan
  before it has a widget, unless it waits (`Undisplayed`): what it posts at its last
  file comes after its first signals because there is more than one thing to do.
* `ThreadsWaitAsShown`: `Spec => []WaitsAsShown`. Every function that changes what a
  widget shows changes what its thread is told, or follows one that did (`Repaints`
  is what they have in common).
* `NoWidgetIsLeftOver`: `Spec => []NothingLeftOver`. A widget comes with the first
  signal and goes with the last, and while one of them is to come there is a source
  (`Due`).

The invariant is one property of the main loop's part, the places of the threads and
their files (`StateInv`), and as the code is functions on that part each has a
lemma: `EmitKeeps` for `idle_callback` (with one for each signal: `EmitStarted`,
`EmitChanged`, `EmitFinished`), `NotifyKeeps`, `StartClickKeeps`, `PostKeeps`,
`DoneKeeps` and the others for what runs, is clicked on and is posted. An action only concerns one operation
and the first queued one, so `Others` and `Apart` set aside what holds of the rest. The sequence
lemmas (`Removal`, `Insertion`, `Reordered`) start from `Smallest`, that the least
of some positions is one of them: it follows from the well-foundedness of `<`
and serves where one would think of induction.

`SearchDirectory_proofs` proves, for any folders, links, queries, batches and
clients, `WatchedFiles`, `CurrentReports` and `CompleteResults`
(`SearchInvariant`: `Spec => []Inv(Now, idles)`). `Inv` has three parts.

* `Base`: at most one search is heeded, it is the engine's and has not been freed
  (`Underway`); the report that frees a search is the last one of its reports in
  the main loop (`Reporting`); and what is listed is what is watched (`Watched`).
* `Heeded`, of the search underway: it goes only where links lead and has queued
  every directory that an entry it has read leads to (`Walks`), what it finds is in one
  place only, in the list, in a report or in its batch (`Once`), and nothing it
  has read and should find is missing from the three (`AllFound`).
* `Results`: what is listed is a hit, and after the last report all hits are.

The heart is the end of a search: the directories it has visited contain the root
and everything they lead to, so they contain what is `Reached`. `Reached` is
stated as what no closed set leaves out, so that this takes no induction. As the
functions of `baul-search-directory.c` are operators on a record, each has a lemma
that it keeps the parts it can disturb.

`FileOperations_proofs` proves, for any disks, jobs, names, answers and errors that
satisfy `Hypotheses` (`FilesInvariant`: `Spec => []FilesAndViews`):

* `LostOnlyIfAgreed`: `Spec => [](~undoing /\ phase # "undone" => NothingIsLostUnasked)`.
* `ViewsFollowTheDisk`: `Spec => []ViewsAreTold`.

`Hypotheses` is about the constants, and the run's constants satisfy it:

* `ProperJobs`: on a disk what leads to something is a folder; a job has paths, and
  copies, moves, links and new files go to a folder that is there.
* `WritableTargets`: the places where a copy or a move may put something have no names
  that the file system there refuses, nor is a source below the mended one, and
  inside a folder that is moved in one piece no name is refused.
* `FilesApart`, `NamesApart`, of a move: its files are not in each other, nor where one
  of them may go, and go to places of different names. Without the last a file is
  lost, see [Disagreements](#disagreements).
* `"taken" \notin Uses`: nor does the user type a name that is taken, which loses a
  file as well.

The invariant `Sound` is about the recursion of `copy_move_directory`, `delete_dir` and what
they call, as frames on the stack, of any depth. Of what is copied or moved it has

* `Calls`: each call is for something in the folder of the call below it, in the
  source and in the target, and for nothing that call has still to do;
* `Aimed`: a folder that is walked is there, so is its copy, and neither is in the
  other (`Walks`); a call that overwrites does so under the file's own name, and a
  call that is about to write does not write into its own source (`Aims`);
* `Waiting` and `AgreedTo`: what is on the lists is the job's, once, and apart from
  what is at work; of what will be overwritten the user has agreed to lose all that
  does not come back from the source (`Agreed`), now or when its turn comes
  (`PutOff`). This is the heart: the answer was given when a file was put off
  (`move_files_prepare`), and many others are moved, copied and cleared away before it
  is used;
* `ViewInv`: what is to be moved is as it was in the beginning (`AsBefore`), so the only
  paths the views may believe in wrongly are folders that were moved piece by
  piece, and nothing at work meets one of them (`Unhaunted`).

Of what is deleted, `RemovalInv` says that all that is on a list that will be deleted, and
all below a call that deletes, was agreed to (`Doomed`); of new files and links
`CreationInv` that they go into the folder of the job. A step of the call on top writes
only below its target, and takes away only what is below its source or its
target (`Writes`, `Changed`), so the lemmas `...Stays` set aside what holds elsewhere,
`ReturnGoal`, `GoOnGoal` and `PutOffGoal` do the same for the three things a call can do to
the stack, and each action follows from one of them and what it writes.

`FolderView_proofs` proves, for any names, links, changes and number of queued
updates (`FolderViewInvariant`: `Spec => []Inv`):

* `ListedFilesAreThere`: `Spec => []GhostsAreOvertaken`, whatever the world does. An
  info that was read of a file that is gone has the file's removal behind it, or was
  overtaken (`InfosAreOvertaken`, `Removed`), and a listed file that is gone has its
  removal on the way, was overtaken, or waits for a load that will not confirm it
  (`Ghosts`).
* `NoneIsMissed`: `Spec => []NoFileIsMissed` if `"kept" \notin Uses`. A file that is
  there, and was neither overtaken nor notified too late, is listed, notified, asked
  for, still to be read or read and not yet taken in (`OnItsWay`). This needs that a
  removal of a file that is there again is followed by its addition (`InOrder`), and
  that of what is listed, a load and a query leave out only what is gone (`Unowned`).
  Where somebody keeps the file objects of a folder that nobody monitors (`"kept"`),
  the list outlives the last monitor and is not told of what happens meanwhile, so
  `Unowned` is false, and `NoFileIsMissed` too (see [Disagreements](#disagreements)).
* `NothingIsLeftWaiting`: `Spec => []NothingIsStranded`, whatever is in `Uses`.
  `Scheduled` says for each of the lists of a view who will display it, `Awaited` that a
  file that is waited for is not ready, has been reported or became ready silently.
* `ViewsShowTheList`: `Spec => []ShownIsListed`, likewise. `Complete` says that every
  visible listed file is in one of the four lists that lead to the display and no
  hidden one in the three behind the first, unless it was toggled (`Sorted`), and that
  every file in them that is gone has been reported after it came in.

The callbacks of the model are compositions of functions on records, as the code's
are. So the proof has a lemma per function and part (what `Dequeue` does to the
list, what reports do to a view, what a display does) and each action is put
together from these.

What is model-checked only: in `FileOperations`, `PairsAreTheWork`, which would need an
invariant of its own about the undo data, and what holds when a job is undone,
`UndoneIsGone` and `NothingIsLostUnasked` there (undoing folds over the undo data, and
what a fold does to every list is out of the prover's reach); `QueueMoves` of
`ProgressInfo`; and liveness (`CallbacksFire`, `FileListsLoad`, `EveryChangeIsSent` and the
others of their kind), which under fairness is out of the prover's reach.

## Disagreements

What the models show about the code that a comment, an assertion or common sense
contradicts. No run is kept for these; each comes with the constants that show it
(the definitions are in the modules). Line numbers are of `libbaul-private/` unless a
path is given.

**Attribute engine** (`MCDirectoryAsync`)

* *A wake-up is lost when a load ends* (`baul-directory-async.c:1211`).
  `directory_load_done` runs the service loop, whose end wakes waiting
  directories, before `directory_load_cancel` releases the load's slot.
  `NoLostWakeUp` with `Kinds = {"file_info", "directory_count"}`,
  `Requests <- LoadRequests`, both directories `Listed`, `Uses = {"monitor"}`,
  `MaxAsyncJobs = 2`, four calls.
* *Extension info survives its invalidation* (`:5260`): it has no case among the
  attributes whose loads are cancelled. `NoStaleAnswer` with
  `Kinds = {"extension_info"}`, `ExtensionRequests`, `Listed = {}`,
  `Uses = {"monitor", "invalidate"}`, one job, four calls.
* *A top-left job can end twice* (`:3560`): `top_left_read_callback` signals before
  it clears its state. `EndsOnlyStartedJobs` with `Kinds = {"top_left"}`,
  `TopLeftRequests`, `Uses = {"monitor", "reentrant"}`, two jobs, four calls.
* *A load can end twice* (`:1150`): `directory_load_cancel` runs the state machine of
  the parent before it clears `directory_load_in_progress`. If that pass starts the mount
  of a mountable file, `got_mount` (`:4480`) signals before `mount_start` returns, and a
  handler that reloads the subdirectory cancels the load that is already being
  cancelled. `EndsOnlyStartedJobs` with `Kinds = {"mount"}`,
  `Requests` and `AtOnce` both `{<< "a", "mount" >>}`, both directories `Listed`,
  `Uses = {"monitor", "reload", "reentrant", "nested_reload"}`, two jobs, five calls.
* *A reload from a done_loading handler is cancelled* (`:1211`) by the function that
  emitted the signal, so `LoadsAreWanted` fails too where `"nested_reload"` is in `Uses`.
  `FileListsLoad` with `FairSpec`, `Kinds = {"directory_count"}`,
  `ItemCountRequest`, `Listed = {"child"}`,
  `Uses = {"reload", "nested_reload", "reentrant"}`, two jobs, three calls.
* *A changed file's info may stay old* (`baul-directory.c:972`): a query in flight
  when the change is reported is not cancelled, and its answer sets the flag that
  the report cleared. `NoStaleAnswer` with `Kinds = {"file_info"}`, `InfoRequest`,
  `Uses = {"monitor", "changed"}`, one job, four calls.
* *A callback for the extension info is due before the info is there*
  (`baul-directory-async.c:1917`): `request_is_satisfied` has no check of it, while
  `docs/baul-io.txt:92` has it that the callback "will be called when and if the requested
  information is ready". `ImplementsRequests` with `Unpromised <- {}`,
  `Kinds = {"extension_info"}`, `ExtensionRequests`, `Listed = {}`,
  `Uses = {"callback"}`, one job, one call.
* *A ready callback may never come* (`baul-directory-async.c:1150`): the item count of
  a directory's own file is not read while the directory loads, and a load that is
  cancelled does not queue the file again. `CallbacksFire` with the kinds and requests of
  `DirectoryAsync_requests`, both directories `Listed` and
  `Uses = {"monitor", "callback", "invalidate", "reload", "changed"}`, two jobs.

**Changes and thumbnails**

* *Changes do not keep their order* (`baul-file-changes-queue.c:282` says they do):
  `ArrivalOrder` fails in the run `FileChangesQueue`; icon positions are overtaken.
* *An outdated image may stay* (`baul-directory.c:972`): the report of a change does not
  cancel the query of the file's info, whose answer counts as current although it
  was read before the change. `ShownIsCurrent` without `outrun` fails under the run's
  constants.
* *A skipped file may never be thumbnailed* (`baul-thumbnails.c:564`): the report
  that should ask again starts two reads; when the outdated thumbnail is read
  before the info, the path it resets comes back with the info, and only a file
  without a path is asked for. `SkippedIsRescheduled` with `FairFactorySpec`,
  `Files = {f1}`, `Delay = 1`, `Broken = {}`, `Changing = {f1}`, `MaxChanges = 2`.

**Folder view** (`FolderView`)

* *A file may be listed that is gone* (`baul-directory-async.c:974`, `baul-directory.c:988`):
  an info that was read before a removal was handled, by a load or for a notified
  file, and taken in after it makes a file of nothing. `GhostsAreOvertaken` without
  `past.overtaken` fails with `Names = {a}`, `Links = {}`, `Uses = {"delete"}`,
  `MaxQueued = 1`, `MaxChanges = 1`. If the file then comes back during a load, its
  addition is ignored, and the load, which did not see it, takes it off the list:
  `NoFileIsMissed` without `past.overtaken`, with three changes.
* *An info that says nothing new makes a file ready without a signal*
  (`baul-directory-async.c:1017`, `baul-file.c:2552`): the view does not learn that it
  can display the file, nor, if it was the last one it waited for, the others.
  `ShownIsListed` and `NothingIsStranded` without `Unreported` fail with `Names = {a}`,
  `Links = {}`, `Uses = {"reload"}` or `{"change"}`, `MaxQueued = 1`, `MaxChanges = 2`.
* *A file that is hidden, or shown again, after it was listed is not sorted again*
  (`src/file-manager/fm-directory-view.c:2903`): a file that is hidden before it is
  displayed stays, and one that is shown again does not appear. `ShownIsListed` without
  `toggled` fails with `Names = {a}`, `Links = {}`, `Uses = {"change", "hidden"}`,
  `MaxQueued = 1`, `MaxChanges = 1`.
* *A notification of a listed file is not always harmless* (`baul-directory.c:925`):
  `AddedFilesAreListed` with `Names = {a}`, `Links = {}`, `Uses = {"delete", "kept"}`,
  `MaxQueued = 1`, `MaxChanges = 3`; `NoFileIsMissed` fails with the same.
* In the code, and in the model: a nested freeze forgets that a reload is due;
  `fm_directory_view_stop` removes a monitor nobody has.

**Locations** (`SlotLocation`)

* *Two entries forward mixes the lists* (`src/baul-window-manage-views.c:265`): the link
  in between is removed from the wrong list. `ImplementsHistory` with `Uses = {}`,
  `BackDistances = {0}`, `ForwardDistances = {0, 1}`, `MaxClicks = 7`.
* *Going back to an earlier visit of the place that is shown puts the wrong place
  into the Forward list* (`src/baul-window-manage-views.c:219`): the bookmark of the last
  place is not renewed when the place stays the same, which `handle_go_elsewhere`
  (`:297`) provides for and `handle_go_back` does not. `ImplementsHistory` with
  `Uses = {}`, `BackDistances = {0, 1}`, `ForwardDistances = {0}`, `MaxClicks = 6`.
* *The completion of an earlier load ends a new change* (`:1930` says "Only handle
  this if we're expecting it"): `NoChangeIsLost` with `Uses = {}`, distances `{0}`,
  `MaxClicks = 3`.
* *Forgetting the history while going back aborts*: `EntryIsStillThere` with
  `Uses = {"forget"}`.
* After a stop or a switch of the view the place is no longer watched; opening the
  place that is shown while another is pending does nothing.

**File operations** (`MCFileOperations`)

* *A new name that is taken loses a file* (`baul-file-operations.c:4213`, and `:5157`
  where a move that is put off keeps its old name and overwrites):
  `NothingIsLostUnasked` with `NewNames <- Taken` and `Uses = {"taken"}`.
* *Of two files of one name that replace a third the first is lost* (`:5157`):
  `move_files_prepare` asks about both while neither is in place, and the second
  overwrites the first without a question. `NothingIsLostUnasked` with a disk that has
  `<< s, x >>`, `<< y, x >>` and `<< x >>`, a crossing move of the first two to `<< >>`,
  and `Uses = {}`.
* *Undoing a move is not all or nothing*: `UndoneIsGone` without `~undoing` fails with
  `Uses = {"undo_move"}`.
* *Undoing "move to trash" tells files apart by path and modification time*
  (`baul-undostack-manager.c:2074`): with an earlier file of the same time in `Bins`,
  `UndoneIsGone` fails.
* In the code, and in the model: a folder that cannot be deleted while all errors
  are skipped does not count as skipped for its parent (`:1690`), whose own
  deletion then fails; after an aborted deletion the user is still asked about
  the trash (`:2054`); stopping "Empty trash" drops the undo actions all the same
  (`:6455`); a new file whose name the destination calls valid is given up without
  a message and its `GFile` is unreferenced twice (`:6172`, `:6270`).

**Progress and undo**

* *A thread may sleep unnoticed* (`baul-progress-info.c:715`, the comment says the main
  loop is told): `SleepIsNotified` of `ProgressInfo` with both operations `Queueable`,
  `Asking = {}`, `Items = 2`, `MaxClicks = 2`.
* *The redo actions are freed although one is being undone*
  (`baul-undostack-manager.c:1182`): `NothingElseFreedIsUsed` of `UndoStack` with
  `Uses = {"overlap"}`, `Kinds = {"move"}`.
* *The callback of a job reads an action that it has just freed*
  (`baul-undostack-manager.c:1757`): redo the older of two actions, let two operations
  end meanwhile, and the action is doomed when its job is done. `misread = {}` of
  `UndoStack` fails with the run's constants and `Kinds = {"move"}`, and so does
  `flag ~> ~flag`: whether the flag comes down depends on what is in the freed memory.
* *A recursive change of permissions that found no file locks the manager for good*:
  `NothingStaysLocked` of `UndoStack` with `Kinds = {"empty"}`.

**Search and bookmarks**

* *A call that waits for an empty result is never answered* (`baul-search-directory.c:592`;
  the comment at `:451` has it that a call without files is answered with an empty list): `EmptyIsAnswered`, under the run's own constants.
* *"All files seen" may be said of a list that was reset*: `SeenIsListed`, likewise.
* *A read that fails empties the file* (`src/baul-bookmark-list.c:569`):
  `load_file_finish` only warns, and the list, which the load had cleared, is
  what the next save writes. `owed \subseteq ToSet(file)`, which is `NothingIsLost` without
  `unread`, fails under the run's constants.
* *The user's change between two queued loads is lost* (`src/baul-bookmark-list.c:740`
  says that a load clobbers the contents in memory): the model has
  it, and `owed` only counts what has been read or saved.

## Not modelled

The map covers 6.7% of the program's lines. Most of the others are widgets: the
icon container and canvas, the views' menus, drag and drop and selection, the
property window, sidebars, dialogs, `eel`. Their state is what is drawn, they
take part in none of the protocols above, and a model of them would restate
their layout. `libegg` is copied from elsewhere; translations, icons and build
files have no behaviour. What has protocols and is left for later:

* *List and tree models* (`fm-list-model.c`, `fm-tree-model.c`): rows of folders that
  are expanded in place, unloaded some seconds after they are collapsed, while
  files that wait to be displayed still belong to them. A directory that is not in
  the model's map is taken for the one on top (`fm-list-model.c:1088`), so a file whose
  folder was unloaded before it was displayed turns up among the files on top.
* *Trash monitor, desktop links, volumes, clipboard*: short reactions to signals of
  other programs.
* *Activation, mounting, autorun, connect to server*: one request at a time, most of
  it dialogs; mounts and their cancellation are in `SlotLocation` as far as a tab
  waits for them.
* *Application and session*: start-up in a fixed order.
* *Renamed files*, in every module: what a file is called is its identity in
  most of them.

## Plan

1. Proofs: `PairsAreTheWork`; what undoing does to the files, once the prover can do
   induction over the undo data.
2. Compositions: the file changes queue between `FileOperations` and `FolderView`,
   with `known` replaced by what the view really shows; `SlotLocation` driving
   `FolderView`.
3. `ListModel`: the rows, the folders the view watches for them, and their delayed
   unloading, over the lists of `FolderView`.
4. Renames: of a file in `FolderView`, `Thumbnails` and `SlotLocation`.
5. Redo of file operations, and the files restored from the trash.
