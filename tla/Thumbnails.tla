------------------------------ MODULE Thumbnails ------------------------------
(***************************************************************************)
(* The thumbnail factory of libbaul-private (baul-thumbnails.c): the main  *)
(* loop puts files on a queue under a mutex, a low-priority idle function  *)
(* starts a thread, the thread makes one thumbnail after the other and     *)
(* reports each to the main loop, and the file is read and drawn again     *)
(* (baul-file.c, the thumbnail job of baul-directory-async.c).             *)
(*                                                                         *)
(* Modification times are seconds of which only two things matter: which   *)
(* of them are equal, and how long ago they were.  A file's n-th distinct  *)
(* modification time is n, and age counts the seconds since then.          *)
(***************************************************************************)
EXTENDS Naturals, Sequences, SequencesExt

CONSTANTS
  Files,        \* the files, each at a location of its own
  NoFile,       \* no file
  Delay,        \* THUMBNAIL_CREATION_DELAY_SECS
  Broken,       \* the files of which no thumbnail can be made
  Changing,     \* the files that are written to, and whose BaulFile is destroyed
  MaxChanges    \* bound: how often a file is written to, or a BaulFile
                \* destroyed, in one behaviour

ASSUME ThumbnailsAssumption ==
  /\ NoFile \notin Files /\ Broken \subseteq Files /\ Changing \subseteq Files
  /\ Delay \in Nat \ {0} /\ MaxChanges \in Nat

Times == 1 .. MaxChanges + 1   \* the modification times of a file
NoTime == 0                   \* INVALID_MTIME, and the label of no thumbnail
Contents == 0 .. MaxChanges   \* what a file contains: how often it was written

VARIABLES
  (* the disk *)
  content, mtime,     \* of each file
  age,                \* age[f][t]: seconds since its time t, Delay if more
  thumb,              \* the thumbnail on disk: its label, and what it shows
  failedMark,         \* the files marked as impossible to thumbnail
  events,             \* changes the directory monitor has not reported yet
  (* the BaulFile of each file *)
  file,
  (* shared with the thread, under thumbnails_mutex *)
  queue,              \* thumbnails_to_make, and the hash of its members
  request,            \* original_file_mtime of each file on the queue; history
                      \* for the files that are off it
  current,            \* currently_thumbnailing
  running,            \* thumbnail_thread_is_running
  (* the main loop *)
  starter,            \* thumbnail_thread_starter_id # 0
  notices,            \* how many calls of thumbnail_thread_notify_file_changed
  timers,             \* are due for each file, and how many within a second
  changes,            \* how many writes and changes there were
  (* the thread *)
  pc,                 \* where it is, "none" if there is no thread
  origMtime,          \* current_orig_mtime
  pixbuf              \* what the thumbnail it has made shows

diskVars == << content, mtime, age, thumb, failedMark, events >>
queueVars == << queue, request, current, running >>
noticeVars == << notices, timers >>
threadVars == << pc, origMtime, pixbuf >>
factoryVars == << diskVars, file, queueVars, starter, noticeVars, changes, threadVars >>

NoThumb == [label |-> NoTime, shows |-> 0]

\* The answer to a query of the file's info, read and not delivered yet.
NoInfo == [mtime |-> NoTime, path |-> FALSE, failed |-> FALSE, outrun |-> FALSE]

\* A BaulFile that knows nothing yet.  path: thumbnail_path # NULL; shown: the
\* label of the thumbnail it holds; redraw: its view was told to draw it; info and
\* image: what get_info_in_progress and thumbnail_state have read for it so far.
\* History: outrun, of an info that was read before a change whose notification
\* came before the info.
NewFile == [live |-> TRUE, thumbnailing |-> FALSE, mtime |-> NoTime, infoOk |-> FALSE,
            path |-> FALSE, failed |-> FALSE, thumbOk |-> FALSE, shown |-> NoTime,
            redraw |-> FALSE, info |-> NoInfo, image |-> NoTime, outrun |-> FALSE]
NoBaulFile == [NewFile EXCEPT !.live = FALSE]

FactoryInit ==
  /\ content = [f \in Files |-> 0] /\ mtime = [f \in Files |-> 1]
  /\ age = [f \in Files |-> [t \in Times |-> 0]]
  /\ thumb = [f \in Files |-> NoThumb] /\ failedMark = {}
  /\ events = [f \in Files |-> 0]
  /\ file = [f \in Files |-> NewFile]
  /\ queue = << >> /\ request = [f \in Files |-> NoTime]
  /\ current = NoFile /\ running = FALSE
  /\ starter = FALSE
  /\ notices = [f \in Files |-> 0] /\ timers = [f \in Files |-> 0]
  /\ changes = 0
  /\ pc = "none" /\ origMtime = NoTime /\ pixbuf = 0

Queued(f) == Contains(queue, f)

-----------------------------------------------------------------------------
(* The world: the clock, and programs that write files.                    *)

\* A second passes.  (The thread goes from one thumbnail to the next in less.)
Tick ==
  /\ pc # "lock"
  /\ \/ \E f \in Files : timers[f] > 0
     \/ \E f \in Files : age[f][mtime[f]] < Delay
  /\ age' = [f \in Files |-> [t \in Times |->
               IF t <= mtime[f] /\ age[f][t] < Delay THEN age[f][t] + 1 ELSE age[f][t]]]
  /\ notices' = [f \in Files |-> notices[f] + timers[f]]
  /\ timers' = [f \in Files |-> 0]
  /\ UNCHANGED << content, mtime, thumb, failedMark, events, file, queueVars, starter,
                  changes, threadVars >>

\* Twice in the same second leaves the modification time as it is.
Write(f) ==
  /\ changes < MaxChanges
  /\ changes' = changes + 1
  /\ content' = [content EXCEPT ![f] = @ + 1]
  /\ IF age[f][mtime[f]] = 0
     THEN UNCHANGED mtime
     ELSE mtime' = [mtime EXCEPT ![f] = @ + 1]
  /\ events' = [events EXCEPT ![f] = @ + 1]
  /\ UNCHANGED << age, thumb, failedMark, file, queueVars, starter, noticeVars, threadVars >>

-----------------------------------------------------------------------------
(* The main loop.                                                          *)

(* baul_create_thumbnail under the mutex: a file that is queued already    *)
(* only gets a new modification time.                                      *)
AddToQueue(f, t) ==
  /\ queue' = IF Queued(f) THEN queue ELSE Append(queue, f)
  /\ request' = [request EXCEPT ![f] = t]
  /\ starter' = (starter \/ (~Queued(f) /\ ~running))
  /\ UNCHANGED << current, running >>

(* thumbnail_thread_starter_cb *)
StartThread ==
  /\ starter
  /\ running' = TRUE
  /\ pc' = "lock"
  /\ starter' = FALSE
  /\ UNCHANGED << diskVars, file, queue, request, current, noticeVars, changes,
                  origMtime, pixbuf >>

\* What baul_file_get_icon makes a thumbnail for.
WantsThumbnail(f) ==
  /\ file[f].shown = NoTime /\ ~file[f].path
  /\ ~file[f].thumbnailing /\ ~file[f].failed
  /\ file[f].mtime # NoTime

(* The view draws the file with baul_file_get_icon.                        *)
Draw(f) ==
  /\ file[f].live /\ file[f].redraw
  /\ file' = [file EXCEPT ![f].redraw = FALSE,
                          ![f].thumbnailing = @ \/ WantsThumbnail(f)]
  /\ IF WantsThumbnail(f)
     THEN AddToQueue(f, IF file[f].infoOk THEN file[f].mtime ELSE mtime[f])
     ELSE UNCHANGED << queueVars, starter >>
  /\ UNCHANGED << diskVars, noticeVars, changes, threadVars >>

(* file_info_start: the query is answered by a thread of GIO ...            *)
QueryInfo(f) ==
  /\ file[f].live /\ ~file[f].infoOk /\ file[f].info = NoInfo
  /\ file' = [file EXCEPT ![f].info =
       [mtime |-> mtime[f], path |-> thumb[f] # NoThumb,
        failed |-> f \in failedMark /\ thumb[f] = NoThumb, outrun |-> FALSE]]
  /\ UNCHANGED << diskVars, queueVars, starter, noticeVars, changes, threadVars >>

\* Mutant: an image whose modification time has changed is kept.
InfoArrivesKeepingImage(f) ==
  LET old == file[f]
      info == old.info
  IN  /\ info # NoInfo
      /\ file' = [file EXCEPT ![f] =
           [old EXCEPT !.infoOk = TRUE, !.info = NoInfo,
                       !.mtime = info.mtime, !.path = info.path, !.failed = info.failed,
                       !.outrun = info.outrun,
                       !.thumbOk = @ /\ ~(old.shown = NoTime /\ old.mtime # info.mtime),
                       !.redraw = TRUE]]
      /\ UNCHANGED << diskVars, queueVars, starter, noticeVars, changes, threadVars >>

(* ... and query_info_callback and baul_file_update_info take it in.       *)
InfoArrives(f) ==
  LET old == file[f]
      info == old.info
      outdated == IF old.shown = NoTime THEN old.mtime # info.mtime ELSE old.shown # info.mtime
  IN  /\ info # NoInfo
      /\ file' = [file EXCEPT ![f] =
           [old EXCEPT !.infoOk = TRUE, !.info = NoInfo,
                       !.mtime = info.mtime, !.path = info.path, !.failed = info.failed,
                       !.outrun = info.outrun,
                       !.thumbOk = @ /\ ~outdated,
                       !.redraw = TRUE]]
      /\ UNCHANGED << diskVars, queueVars, starter, noticeVars, changes, threadVars >>

(* thumbnail_start: a thread of GIO reads the thumbnail ...                *)
LoadThumbnail(f) ==
  /\ file[f].live /\ file[f].path /\ ~file[f].thumbOk /\ file[f].image = NoTime
  /\ file' = [file EXCEPT ![f].image = thumb[f].label]
  /\ UNCHANGED << diskVars, queueVars, starter, noticeVars, changes, threadVars >>

(* ... and thumbnail_read_callback and thumbnail_done take it in: one of   *)
(* another time than the file's makes the path NULL.                       *)
ThumbnailArrives(f) ==
  LET old == file[f]
      fits == old.image = old.mtime
  IN  /\ old.image # NoTime
      /\ file' = [file EXCEPT ![f] =
           [old EXCEPT !.thumbOk = TRUE, !.image = NoTime,
                       !.shown = IF fits THEN old.image ELSE NoTime,
                       !.path = fits,
                       !.redraw = TRUE]]
      /\ UNCHANGED << diskVars, queueVars, starter, noticeVars, changes, threadVars >>

(* The monitor reports the change: baul_directory_notify_files_changed.  A *)
(* query whose answer is on its way goes on.                               *)
FileChanged(f) ==
  /\ events[f] > 0
  /\ events' = [events EXCEPT ![f] = @ - 1]
  /\ LET old == file[f]
         info == old.info
     IN  file' = [file EXCEPT ![f] = [old EXCEPT
           !.infoOk = FALSE,
           !.info = IF info # NoInfo /\ info.mtime # mtime[f]
                    THEN [info EXCEPT !.outrun = TRUE] ELSE info]]
  /\ UNCHANGED << content, mtime, age, thumb, failedMark, queueVars, starter, noticeVars,
                  changes, threadVars >>

(* thumbnail_thread_notify_file_changed: baul_file_invalidate_attributes   *)
(* of the info and the thumbnail cancels what is being read of them.       *)
Notify(f) ==
  /\ notices[f] > 0
  /\ notices' = [notices EXCEPT ![f] = @ - 1]
  /\ file' = IF file[f].live
             THEN [file EXCEPT ![f].thumbnailing = FALSE,
                               ![f].infoOk = FALSE, ![f].thumbOk = FALSE,
                               ![f].info = NoInfo, ![f].image = NoTime]
             ELSE file
  /\ UNCHANGED << diskVars, queueVars, starter, timers, changes, threadVars >>

(* baul_thumbnail_prioritize, for a visible file that is thumbnailing *)
Prioritize(f) ==
  /\ file[f].live /\ file[f].thumbnailing
  /\ Queued(f) /\ f # current
  /\ queue' = << f >> \o RemoveFirst(queue, f)
  /\ UNCHANGED << diskVars, file, request, current, running, starter, noticeVars, changes,
                  threadVars >>

(* baul_thumbnail_remove_from_queue *)
RemoveFromQueue(f) == queue' = IF f = current THEN queue ELSE RemoveFirst(queue, f)

(* finalize of a BaulFile that nobody looks at any more *)
Close(f) ==
  /\ changes < MaxChanges
  /\ file[f].live
  /\ changes' = changes + 1
  /\ file' = [file EXCEPT ![f] = NoBaulFile]
  /\ IF file[f].thumbnailing THEN RemoveFromQueue(f) ELSE UNCHANGED queue
  /\ UNCHANGED << diskVars, request, current, running, starter, noticeVars, threadVars >>

(* A view shows the file's directory again. *)
Open(f) ==
  /\ ~file[f].live
  /\ file' = [file EXCEPT ![f] = NewFile]
  /\ UNCHANGED << diskVars, queueVars, starter, noticeVars, changes, threadVars >>

-----------------------------------------------------------------------------
(* The thread, thumbnail_thread_func.                                      *)

\* Mutant: the entry is taken off the queue even if its time has changed.
TakeNextAlways ==
  /\ pc = "lock"
  /\ LET rest == IF current # NoFile THEN RemoveFirst(queue, current) ELSE queue
     IN  /\ queue' = rest
         /\ IF rest = << >>
            THEN /\ running' = FALSE /\ current' = NoFile /\ pc' = "none"
                 /\ origMtime' = NoTime
            ELSE /\ current' = Head(rest) /\ origMtime' = request[Head(rest)]
                 /\ pc' = "check" /\ UNCHANGED running
  /\ UNCHANGED << diskVars, file, request, starter, noticeVars, changes, pixbuf >>

\* Mutant: the flag that there is a thread is not reset.
TakeNextStillRunning ==
  /\ pc = "lock"
  /\ LET done == current # NoFile /\ request[current] = origMtime
         rest == IF done THEN RemoveFirst(queue, current) ELSE queue
     IN  /\ queue' = rest
         /\ IF rest = << >>
            THEN current' = NoFile /\ pc' = "none" /\ origMtime' = NoTime
            ELSE /\ current' = Head(rest) /\ origMtime' = request[Head(rest)]
                 /\ pc' = "check"
  /\ UNCHANGED << diskVars, file, request, running, starter, noticeVars, changes, pixbuf >>

(* Under the mutex: take the entry that is done off the queue, unless its  *)
(* modification time has changed meanwhile, and go on with the first one;  *)
(* it stays on the queue.  With none left the thread ends.                 *)
TakeNext ==
  /\ pc = "lock"
  /\ LET done == current # NoFile /\ request[current] = origMtime
         rest == IF done THEN RemoveFirst(queue, current) ELSE queue
     IN  /\ queue' = rest
         /\ IF rest = << >>
            THEN /\ running' = FALSE /\ current' = NoFile /\ pc' = "none"
                 /\ origMtime' = NoTime
            ELSE /\ current' = Head(rest) /\ origMtime' = request[Head(rest)]
                 /\ pc' = "check" /\ UNCHANGED running
  /\ UNCHANGED << diskVars, file, request, starter, noticeVars, changes, pixbuf >>

\* Mutant: files that have just been written to are thumbnailed at once.
NeverRecent == FALSE

\* Written to a moment ago
Recent == age[current][origMtime] < Delay

SkipRecent ==
  /\ pc = "check"
  /\ Recent
  /\ timers' = [timers EXCEPT ![current] = @ + 1]
  /\ pc' = "lock"
  /\ UNCHANGED << diskVars, file, queueVars, starter, notices, changes, origMtime, pixbuf >>

\* The thumbnailer reads the file, whenever it gets to it ...
Generate ==
  /\ pc = "check"
  /\ ~Recent
  /\ pc' = "generate"
  /\ UNCHANGED << diskVars, file, queueVars, starter, noticeVars, changes, origMtime, pixbuf >>

\* ... and returns an image, or NULL: then the file is marked.
GenerateReturns ==
  /\ pc = "generate"
  /\ IF current \in Broken
     THEN failedMark' = failedMark \cup {current} /\ pc' = "report" /\ UNCHANGED pixbuf
     ELSE pixbuf' = content[current] /\ pc' = "save" /\ UNCHANGED failedMark
  /\ UNCHANGED << content, mtime, age, thumb, events, file, queueVars, starter, noticeVars,
                  changes, origMtime >>

Save ==
  /\ pc = "save"
  /\ thumb' = [thumb EXCEPT ![current] = [label |-> origMtime, shows |-> pixbuf]]
  /\ pc' = "report"
  /\ pixbuf' = 0
  /\ UNCHANGED << content, mtime, age, failedMark, events, file, queueVars, starter,
                  noticeVars, changes, origMtime >>

Report ==
  /\ pc = "report"
  /\ notices' = [notices EXCEPT ![current] = @ + 1]
  /\ pc' = "lock"
  /\ UNCHANGED << diskVars, file, queueVars, starter, timers, changes, origMtime, pixbuf >>

-----------------------------------------------------------------------------
Thread == TakeNext \/ SkipRecent \/ Generate \/ GenerateReturns \/ Save \/ Report

MainLoop(f) ==
  \/ Draw(f)
  \/ QueryInfo(f) \/ InfoArrives(f) \/ LoadThumbnail(f) \/ ThumbnailArrives(f)
  \/ FileChanged(f) \/ Notify(f)

FactoryNext ==
  \/ Tick
  \/ \E f \in Changing : Write(f) \/ Close(f)
  \/ \E f \in Files : MainLoop(f) \/ Prioritize(f) \/ Open(f)
  \/ StartThread
  \/ Thread

FactorySpec == FactoryInit /\ [][FactoryNext]_factoryVars

(* Time goes on, the thread runs, GIO reads what it is asked for, and the  *)
(* main loop comes to everything that is due.  Nobody has to write, close  *)
(* or open a file.                                                         *)
FairFactorySpec ==
  /\ FactorySpec
  /\ WF_factoryVars(Tick)
  /\ WF_factoryVars(Thread)
  /\ WF_factoryVars(StartThread)
  /\ \A f \in Files :
       /\ WF_factoryVars(Draw(f))
       /\ WF_factoryVars(QueryInfo(f)) /\ WF_factoryVars(InfoArrives(f))
       /\ WF_factoryVars(LoadThumbnail(f)) /\ WF_factoryVars(ThumbnailArrives(f))
       /\ WF_factoryVars(FileChanged(f)) /\ WF_factoryVars(Notify(f))

-----------------------------------------------------------------------------
Infos == [mtime : Times \cup {NoTime}, path : BOOLEAN, failed : BOOLEAN, outrun : BOOLEAN]
BaulFiles == [live : BOOLEAN, thumbnailing : BOOLEAN, mtime : Times \cup {NoTime},
              infoOk : BOOLEAN, path : BOOLEAN, failed : BOOLEAN, thumbOk : BOOLEAN,
              shown : Times \cup {NoTime}, redraw : BOOLEAN, info : Infos,
              image : Times \cup {NoTime}, outrun : BOOLEAN]

DiskOK ==
  /\ content \in [Files -> Contents] /\ mtime \in [Files -> Times]
  /\ age \in [Files -> [Times -> 0 .. Delay]]
  /\ thumb \in [Files -> [label : Times \cup {NoTime}, shows : Contents]]
  /\ failedMark \subseteq Files
  /\ events \in [Files -> Contents]

QueueOK ==
  /\ queue \in Seq(Files) /\ IsInjective(queue)
  /\ request \in [Files -> Times \cup {NoTime}]
  /\ current \in Files \cup {NoFile}
  /\ running \in BOOLEAN

MainLoopOK ==
  /\ file \in [Files -> BaulFiles]
  /\ starter \in BOOLEAN
  /\ notices \in [Files -> Nat] /\ timers \in [Files -> Nat]
  /\ changes \in 0 .. MaxChanges

ThreadOK ==
  /\ pc \in {"none", "lock", "check", "generate", "save", "report"}
  /\ origMtime \in Times \cup {NoTime} /\ pixbuf \in Contents

FactoryTypeOK == DiskOK /\ QueueOK /\ MainLoopOK /\ ThreadOK

\* "We know we won't create the thread twice": an idle function that starts the
\* thread is scheduled only while there is none, and the flag says whether
\* there is one.
OneThread ==
  /\ starter => pc = "none"
  /\ running <=> pc # "none"

\* The entry the thread works on is on the queue until the thread takes it off
\* itself, whatever is removed or moved to the front meanwhile; the thread
\* reads that entry without the mutex and asserts that it finds it again.
ThreadOwnsItsEntry ==
  /\ current # NoFile => Queued(current)
  /\ pc \notin {"none", "lock"} => current # NoFile

\* While files are queued, a thread works on them or is about to be started.
NoStrandedRequest == queue # << >> => pc # "none" \/ starter

\* The queue has one worker: never a second thread, never an entry taken from
\* under its hands, and never no thread while there is work.
OneWorker == OneThread /\ ThreadOwnsItsEntry /\ NoStrandedRequest

\* The thread will take f off the queue without another word about it.
Dismissed(f) == pc = "lock" /\ current = f /\ request[f] = origMtime

\* A file that waits for its thumbnail (is_thumbnailing, and so is not asked for
\* again) has a notification on its way, or will be worked on, or else was asked
\* for a second time between the report of the very thumbnail it wanted and the
\* end of the thread's round: no request is dropped that was not met.
EveryRequestIsMet ==
  \A f \in Files :
    file[f].thumbnailing =>
      \/ notices[f] + timers[f] > 0
      \/ Queued(f) /\ ~Dismissed(f)
      \/ thumb[f].label = request[f]
      \/ f \in failedMark

\* A thumbnail on disk that claims to be of the file's present modification
\* time shows what the file now contains, although files are written to while
\* they are thumbnailed, and twice in the same second.
ThumbnailIsCurrent ==
  \A f \in Files :
    thumb[f].label = mtime[f] => thumb[f].shows = content[f]

\* The image a file shows is the one of the modification time the file holds, and
\* once every change is reported that is the file's real one, or else the image
\* is about to be read again: whatever is written, thumbnailed and read meanwhile.
\* The exception: a change that is reported between the reading of the file's
\* info and its delivery is not asked about again
\* (baul_directory_notify_files_changed, baul-directory.c:972, does not cancel the
\* query, and its answer marks the info as up to date), so an older image may stay.
ShownIsCurrent ==
  \A f \in Files :
    file[f].live /\ file[f].infoOk /\ file[f].thumbOk /\ file[f].shown # NoTime =>
      /\ file[f].shown = file[f].mtime
      /\ events[f] = 0 /\ ~file[f].outrun => file[f].shown = mtime[f]

\* "Reschedule thumbnailing via a change notification"
\* (baul-thumbnails.c:564): a file that was skipped is asked for again, unless
\* it has its thumbnail, cannot have one, or is closed.
SkippedIsRescheduled ==
  \A f \in Files :
    timers[f] > 0 /\ ~Queued(f) ~>
      \/ Queued(f)
      \/ file[f].failed
      \/ file[f].shown = mtime[f]
      \/ ~file[f].live
=============================================================================
