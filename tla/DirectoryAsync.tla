---------------------------- MODULE DirectoryAsync ----------------------------
(***************************************************************************)
(* The asynchronous attribute engine of libbaul-private:                   *)
(* baul-directory-async.c.  Every directory keeps three work queues of     *)
(* files and at most one job of each kind in progress; all directories     *)
(* share MAX_ASYNC_JOBS job slots, and a directory that finds no slot free *)
(* is remembered in waiting_directories until a slot is released.          *)
(*                                                                         *)
(* The code runs on one thread, but its calls nest: a service pass cancels *)
(* a directory load, which runs the service loop of the parent directory,  *)
(* whose end wakes other directories, and a file-changed signal runs       *)
(* client code that makes new requests in the middle of all this.  The     *)
(* variable stack holds the calls still to be made, the next one first;    *)
(* the main loop dispatches an event only when it is empty.                *)
(***************************************************************************)
EXTENDS Integers, Sequences, FiniteSets

CONSTANTS
  Directories,    \* BaulDirectory objects
  Files,          \* BaulFile objects
  NoFile,         \* the NULL file pointer of a job that is not in progress
  Home,           \* Home[f]: file->details->directory
  Corresponding,  \* Corresponding[d]: the file that stands for directory d
  Listing,        \* Listing[d]: directory->details->file_list, in its order
  Kinds,          \* the attribute kinds the clients of this instance use
  Requests,       \* the <<file, kind>> pairs clients may ask for
  AtOnce,         \* the <<file, kind>> pairs that may turn out to need no
                  \* reading: an item count of what is no directory, a link
                  \* info of what is no link, the mount of a mountable file
  Listed,         \* the directories whose file list clients may ask for
  Uses,           \* the kinds of calls clients make: "monitor", "callback",
                  \* "invalidate", "reload", "changed" (files are reported as
                  \* changed); "reentrant" if signal handlers make calls too,
                  \* "nested_reload" if they reload directories
  MaxAsyncJobs,   \* MAX_ASYNC_JOBS
  ClientCalls     \* bound: how many calls clients make in one behaviour

\* The order in which start_or_stop_io stops and starts the jobs.
StopOrder == << "file_info", "directory_count", "deep_count", "mime_list",
                "top_left", "link_info", "extension_info", "mount",
                "thumbnail", "filesystem_info" >>
StartOrder ==
  [high      |-> << "file_info", "link_info" >>,
   low       |-> << "mount", "directory_count", "deep_count", "mime_list",
                    "top_left", "thumbnail", "filesystem_info" >>,
   extension |-> << "extension_info" >>]

AllKinds == {StopOrder[i] : i \in DOMAIN StopOrder}
Levels == DOMAIN StartOrder

\* What the start, stop, cancel and callback functions of each kind do:
\*   stops    "now" if *_cancel releases the slot, "later" if the callback
\*            of the cancelled operation does;
\*   answers  what the callback does in which order: clear the job pointer
\*            is the first act unless it is named;
\*   skips    what *_start does for a file that needs no reading: it has no
\*            such case ("never"), it sets the flag ("silently"), or it
\*            starts, ends and signals a job ("signals").
\* (Mutant: the deep count signals its end before it clears the job.)
DeepCountJobUncleared == [stops |-> "now", answers |-> "signal_clear_end", skips |-> "silently"]
FileInfoJob       == [stops |-> "now",   answers |-> "signal_end", skips |-> "never"]
LinkInfoJob       == [stops |-> "now",   answers |-> "end_signal", skips |-> "silently"]
MountJob          == [stops |-> "now",   answers |-> "end_signal", skips |-> "signals"]
DirectoryCountJob == [stops |-> "later", answers |-> "signal_end", skips |-> "silently"]
DeepCountJob      == [stops |-> "now",   answers |-> "signal_signal_end", skips |-> "silently"]
MimeListJob       == [stops |-> "later", answers |-> "signal_end", skips |-> "silently"]
TopLeftJob        == [stops |-> "now",   answers |-> "signal_clear_end", skips |-> "silently"]
ThumbnailJob      == [stops |-> "now",   answers |-> "end_signal", skips |-> "never"]
FilesystemInfoJob == [stops |-> "now",   answers |-> "end_signal", skips |-> "never"]
ExtensionInfoJob  == [stops |-> "now",   answers |-> "end_signal", skips |-> "never"]

JobOf ==
  [file_info |-> FileInfoJob, link_info |-> LinkInfoJob, mount |-> MountJob,
   directory_count |-> DirectoryCountJob, deep_count |-> DeepCountJob,
   mime_list |-> MimeListJob, top_left |-> TopLeftJob, thumbnail |-> ThumbnailJob,
   filesystem_info |-> FilesystemInfoJob, extension_info |-> ExtensionInfoJob]

Deferred == {k \in AllKinds : JobOf[k].stops = "later"}
\* Requests for these also ask for the file info ...
AsksInfo == {"link_info", "top_left", "thumbnail", "mount"}
\* ... and these are read only once it is there.
NeedsInfo == {"link_info", "top_left"}
\* What a directory load finds out about the directory's own file.
LoadFills == {"directory_count", "mime_list"}
SignalsBeforeEnd == {k \in AllKinds : JobOf[k].answers = "signal_end"}
SignalsTwice == {k \in AllKinds : JobOf[k].answers = "signal_signal_end"}
SignalsBeforeClear == {k \in AllKinds : JobOf[k].answers = "signal_clear_end"}

ASSUME DirectoryAsyncAssumption ==
  /\ IsFiniteSet(Directories)
  /\ NoFile \notin Files
  /\ Home \in [Files -> Directories]
  /\ Corresponding \in [Directories -> Files]
  /\ Listing \in [Directories -> Seq(Files)]
  /\ Kinds \subseteq AllKinds
  /\ Requests \subseteq Files \X Kinds
  /\ AtOnce \subseteq {r \in Requests : JobOf[r[2]].skips # "never"}
  /\ Listed \subseteq Directories
  /\ MaxAsyncJobs \in Nat \ {0}
  /\ ClientCalls \in Nat

\* The files of a directory's list live in it: "file->details->directory ==
\* directory" is asserted wherever the list is worked through.
ASSUME ListingAssumption ==
  \A d \in Directories : \A i \in DOMAIN Listing[d] : Home[Listing[d][i]] = d

VARIABLES
  jobs,           \* async_job_count
  waiting,        \* waiting_directories
  waking,         \* already_waking_up
  current,        \* current[<< d, k >>]: the file of the job in progress, or NoFile
  cancelled,      \* jobs in progress whose cancellable is cancelled
  queue,          \* queue[d][level]: the three work queues
  outdated,       \* <<f, k>> whose is_up_to_date flag is not set
  monitors,       \* <<f, k>> some client monitors
  active,         \* call_when_ready callbacks that wait
  ready,          \* those that are satisfied and called at idle time
  idle,           \* directories with call_ready_idle_id set
  listWanted,     \* directories whose file list somebody monitors
  listMonitored,  \* file_list_monitored
  loaded,         \* directory_loaded
  loading,        \* directory_load_in_progress
  loadingFlag,    \* files with loading_directory set
  inLoop,         \* in_async_service_loop
  stateChanged,   \* state_changed
  stack,          \* the calls still to be made, the innermost first
  calls,          \* how many client calls were made
  stale,          \* history: jobs begun before their attribute was invalidated
  tainted         \* history: attributes set from such a job

slotVars == << jobs, waiting, waking >>
jobVars == << current, cancelled, stale >>
attributeVars == << outdated, tainted >>
requestVars == << monitors, active, ready, idle >>
listVars == << listMonitored, loaded, loading, loadingFlag >>
loopVars == << inLoop, stateChanged >>
vars == << slotVars, jobVars, queue, attributeVars, requestVars, listWanted,
           listVars, loopVars, stack, calls >>

-----------------------------------------------------------------------------
(* The calls that can be pending.                                          *)

Changed(d) == [op |-> "changed", dir |-> d]
Enqueueing(f) == [op |-> "enqueue", file |-> f]
ServiceAt(d, at, i, io) ==
  [op |-> "service", dir |-> d, at |-> at, i |-> i, io |-> io]
Wake == [op |-> "wake"]
Waking == [op |-> "waking"]
Signal == [op |-> "signal"]
Calling(d) == [op |-> "calling", dir |-> d]
EndJob(d, k) == [op |-> "end", dir |-> d, kind |-> k]
Outdate(f, ks) == [op |-> "outdate", file |-> f, kinds |-> ks]
Announce(d) == [op |-> "announce", dir |-> d]
Unload(d) == [op |-> "unload", dir |-> d]
EndLoad(d) == [op |-> "endload", dir |-> d]
Unlist(d) == [op |-> "unlist", dir |-> d]
Reload(d, step) == [op |-> "reload", dir |-> d, step |-> step]

Phases == {"list", "stop", "ready"} \cup Levels
Frames ==
  [op : {"changed", "calling", "announce", "unload", "endload", "unlist"},
   dir : Directories]
  \cup [op : {"service"}, dir : Directories, at : Phases, i : Nat,
      io : Files \cup {NoFile}]
  \cup [op : {"wake", "waking", "signal"}]
  \cup [op : {"end"}, dir : Directories, kind : Kinds]
  \cup [op : {"enqueue"}, file : Files]
  \cup [op : {"outdate"}, file : Files, kinds : SUBSET Kinds]
  \cup [op : {"reload"}, dir : Directories, step : 1 .. 3]

Rest == stack = << >>
Top == Head(stack)
Below == Tail(stack)
Pending(op) == stack # << >> /\ Top.op = op

Running(d, k) == current[<< d, k >>] # NoFile
FilesOf(d) == {f \in Files : Home[f] = d}
\* The next position of order from i on whose kind is used, if there is one.
NextJob(order, i) ==
  {j \in DOMAIN order : /\ j >= i /\ order[j] \in Kinds
                        /\ \A m \in i .. j - 1 : order[m] \notin Kinds}

(* baul_directory_set_up_request *)
RequestKinds(k) ==
  {k} \cup (IF k \in AsksInfo /\ "file_info" \in Kinds THEN {"file_info"} ELSE {})
RequestedBy(ks) == UNION {RequestKinds(k) : k \in ks}
Asks(requests, f, k) ==
  \E r \in requests : r[1] = f /\ k \in RequestKinds(r[2])

(* lacks_directory_count, lacks_info, ... *)
Lacks(f, k) ==
  /\ << f, k >> \in outdated
  /\ k \in NeedsInfo => << f, "file_info" >> \notin outdated

(* is_needy with the check each start and stop function gives it *)
Needy(f, k) ==
  /\ Lacks(f, k)
  /\ k \in LoadFills => f \notin loadingFlag
  /\ Asks(active, f, k) \/ Asks(monitors, f, k)

(* request_is_satisfied: it does not look at the extension info *)
Satisfied(r) ==
  \A k \in RequestKinds(r[2]) : k = "extension_info" \/ ~Lacks(r[1], k)

(* baul_file_queue_enqueue and baul_file_queue_remove *)
InQueue(q, f) == \E i \in DOMAIN q : q[i] = f
Enqueue(q, f) == IF InQueue(q, f) THEN q ELSE Append(q, f)
Dequeue(q, f) ==
  IF InQueue(q, f)
  THEN LET i == CHOOSE i \in DOMAIN q : q[i] = f
       IN  SubSeq(q, 1, i - 1) \o SubSeq(q, i + 1, Len(q))
  ELSE q

AddToWorkQueue(f) ==
  queue' = [queue EXCEPT ![Home[f]].high = Enqueue(@, f)]
(* add_all_files_to_work_queue: a call for every file of the list *)
EnqueueAll(d) == [i \in DOMAIN Listing[d] |-> Enqueueing(Listing[d][i])]
RemoveFromWorkQueue(f) ==
  queue' = [queue EXCEPT ![Home[f]] =
              [level \in Levels |-> Dequeue(@[level], f)]]

-----------------------------------------------------------------------------
Init ==
  /\ jobs = 0 /\ waiting = {} /\ waking = FALSE
  /\ current = [job \in Directories \X Kinds |-> NoFile]
  /\ cancelled = {} /\ stale = {}
  /\ queue = [d \in Directories |-> [level \in Levels |-> << >>]]
  /\ outdated = Files \X Kinds /\ tainted = {}
  /\ monitors = {} /\ active = {} /\ ready = {} /\ idle = {}
  /\ listWanted = {} /\ listMonitored = {}
  /\ loaded = {} /\ loading = {} /\ loadingFlag = {}
  /\ inLoop = {} /\ stateChanged = {}
  /\ stack = << >> /\ calls = 0

-----------------------------------------------------------------------------
(* Jobs.                                                                   *)

(* The *_cancel functions for a set of jobs of one directory.  A deferred  *)
(* kind stays in progress until its callback runs; every other kind is     *)
(* detached from the directory, which releases its slot at once, and its   *)
(* late callback returns because it finds directory == NULL.  invalid are  *)
(* the jobs whose attribute is invalidated by the same call.               *)
CancelJobs(cancels, invalid) ==
  LET inProgress == {job \in cancels : current[job] # NoFile}
      detached == {job \in inProgress : job[2] \notin Deferred}
  IN  /\ current' = [job \in Directories \X Kinds |->
                       IF job \in detached THEN NoFile ELSE current[job]]
      /\ cancelled' = cancelled \cup (inProgress \ detached)
      /\ stale' = (stale \cup invalid) \ detached
      /\ jobs' = jobs - Cardinality(detached)

\* Mutant: the directory that found no slot is not remembered.
NoSlotForgotten(d) ==
  /\ jobs >= MaxAsyncJobs
  /\ UNCHANGED << jobs, waiting, waking >>

(* async_job_start refuses when every slot is taken, and remembers d. *)
NoSlot(d) ==
  /\ jobs >= MaxAsyncJobs
  /\ waiting' = waiting \cup {d}
  /\ UNCHANGED << jobs, waking >>
TakeSlot ==
  /\ jobs < MaxAsyncJobs
  /\ jobs' = jobs + 1
  /\ UNCHANGED << waiting, waking >>

-----------------------------------------------------------------------------
(* What clients call.  rest is what remains to be done after the call: it  *)
(* is empty in the main loop and not in the handler of a signal.           *)

MonitorAdd(f, k, rest) ==
  /\ << f, k >> \notin monitors
  /\ monitors' = monitors \cup {<< f, k >>}
  /\ AddToWorkQueue(f)
  /\ stack' = << Changed(Home[f]) >> \o rest
  /\ UNCHANGED << slotVars, jobVars, attributeVars, active, ready, idle,
                  listWanted, listVars, loopVars >>

\* Mutant: the state machine does not run when a monitor goes away.
MonitorRemoveSilently(f, k, rest) ==
  /\ << f, k >> \in monitors
  /\ monitors' = monitors \ {<< f, k >>}
  /\ stack' = rest
  /\ UNCHANGED << slotVars, jobVars, queue, attributeVars, active, ready, idle,
                  listWanted, listVars, loopVars >>

MonitorRemove(f, k, rest) ==
  /\ << f, k >> \in monitors
  /\ monitors' = monitors \ {<< f, k >>}
  /\ stack' = << Changed(Home[f]) >> \o rest
  /\ UNCHANGED << slotVars, jobVars, queue, attributeVars, active, ready, idle,
                  listWanted, listVars, loopVars >>

\* Mutant: the file of a new callback is not put on the work queue.
CallWhenReadyUnqueued(f, k, rest) ==
  /\ << f, k >> \notin active
  /\ active' = active \cup {<< f, k >>}
  /\ stack' = << Changed(Home[f]) >> \o rest
  /\ UNCHANGED << slotVars, jobVars, queue, attributeVars, monitors, ready, idle,
                  listWanted, listVars, loopVars >>

(* baul_directory_call_when_ready_internal: a callback that still waits is *)
(* not added twice, and then nothing else happens either.                  *)
CallWhenReady(f, k, rest) ==
  /\ << f, k >> \notin active
  /\ active' = active \cup {<< f, k >>}
  /\ AddToWorkQueue(f)
  /\ stack' = << Changed(Home[f]) >> \o rest
  /\ UNCHANGED << slotVars, jobVars, attributeVars, monitors, ready, idle,
                  listWanted, listVars, loopVars >>

(* baul_directory_cancel_callback_internal removes the callback whether it *)
(* waits or is about to be called.                                         *)
CancelCallback(f, k, rest) ==
  /\ << f, k >> \in active \cup ready
  /\ active' = active \ {<< f, k >>}
  /\ ready' = ready \ {<< f, k >>}
  /\ stack' = << Changed(Home[f]) >> \o rest
  /\ UNCHANGED << slotVars, jobVars, queue, attributeVars, monitors, idle,
                  listWanted, listVars, loopVars >>

(* baul_directory_file_monitor_add and _remove: the file list of d *)
ListMonitorAdd(d, rest) ==
  /\ d \notin listWanted
  /\ listWanted' = listWanted \cup {d}
  /\ stack' = EnqueueAll(d) \o << Changed(d) >> \o rest
  /\ UNCHANGED << slotVars, jobVars, queue, attributeVars, requestVars, listVars, loopVars >>

ListMonitorRemove(d, rest) ==
  /\ d \in listWanted
  /\ listWanted' = listWanted \ {d}
  /\ stack' = << Changed(d) >> \o rest
  /\ UNCHANGED << slotVars, jobVars, queue, attributeVars, requestVars, listVars, loopVars >>

\* Mutant: what is being read is not cancelled.
InvalidateUncancelled(f, ks, rest) ==
  /\ RemoveFromWorkQueue(f)
  /\ CancelJobs({}, {job \in {Home[f]} \X RequestedBy(ks) : current[job] = f})
  /\ stack' = << Changed(Home[f]), Outdate(f, RequestedBy(ks)) >> \o rest
  /\ UNCHANGED << waiting, waking >>

(* baul_file_invalidate_attributes: take the file off the queues, cancel   *)
(* what is being read (there is no case for the extension info), run the   *)
(* state machine, and only then mark the attributes out of date (there is  *)
(* no case for the filesystem info) and put the file back on the queue.    *)
InvalidateAttributes(f, ks, rest) ==
  LET jobsOf == {job \in {Home[f]} \X RequestedBy(ks) : current[job] = f}
  IN  /\ RemoveFromWorkQueue(f)
      /\ CancelJobs({job \in jobsOf : job[2] # "extension_info"},
                    {job \in jobsOf : job[2] # "filesystem_info"})
      /\ stack' = << Changed(Home[f]), Outdate(f, RequestedBy(ks)) >> \o rest
      /\ UNCHANGED << waiting, waking >>

\* baul_file_get_all_attributes, which does not name the filesystem info
ReloadedKinds == Kinds \ {"filesystem_info"}

(* baul_directory_force_reload_internal, whose first act is                *)
(* cancel_loading_attributes; Reloading does what follows.                 *)
ForceReload(d, rest) ==
  LET jobsOf == {job \in {d} \X ReloadedKinds : current[job] # NoFile}
  IN  /\ CancelJobs(jobsOf, jobsOf)
      /\ stack' = << Changed(d), Reload(d, 1) >> \o rest
      /\ UNCHANGED << waiting, waking, queue, attributeVars, requestVars,
                      listWanted, listVars, loopVars >>

\* The attributes a notified change puts out of date
NotifiedKinds == Kinds \cap {"file_info", "top_left", "link_info", "extension_info"}

(* baul_directory_notify_files_changed for one file: what is being read is *)
(* not cancelled, so its answer still counts.                              *)
NotifyFilesChanged(f, rest) ==
  LET reset == {f} \X NotifiedKinds
  IN  /\ outdated' = outdated \cup reset
      /\ tainted' = tainted \ reset
      /\ stale' = stale \cup {job \in {Home[f]} \X NotifiedKinds : current[job] = f}
      /\ AddToWorkQueue(f)
      /\ stack' = << Changed(Home[f]), Signal >> \o rest
      /\ UNCHANGED << slotVars, current, cancelled, requestVars, listWanted, listVars, loopVars >>

ClientCall(rest) ==
  /\ calls < ClientCalls
  /\ calls' = calls + 1
  /\ \/ /\ "monitor" \in Uses
        /\ \E r \in Requests :
             MonitorAdd(r[1], r[2], rest) \/ MonitorRemove(r[1], r[2], rest)
     \/ /\ "callback" \in Uses
        /\ \E r \in Requests :
             CallWhenReady(r[1], r[2], rest) \/ CancelCallback(r[1], r[2], rest)
     \/ /\ "invalidate" \in Uses
        /\ \E r \in Requests : InvalidateAttributes(r[1], {r[2]}, rest)
        /\ UNCHANGED << attributeVars, requestVars, listWanted, listVars, loopVars >>
     \/ \E d \in Listed : ListMonitorAdd(d, rest) \/ ListMonitorRemove(d, rest)
     \/ /\ "reload" \in Uses
        /\ Rest \/ "nested_reload" \in Uses
        /\ \E d \in Listed : ForceReload(d, rest)
     \/ "changed" \in Uses /\ \E r \in Requests : NotifyFilesChanged(r[1], rest)

-----------------------------------------------------------------------------
(* Events the main loop dispatches.                                        *)

Request == Rest /\ ClientCall(<< >>)

(* The answer to the job of kind k: directory_count's count_children_done, *)
(* query_info_callback, link_info_baul_link_read_callback, and the rest.   *)
(* They differ in what comes first: the signal, or the end of the job.     *)
Answer(d, k) ==
  LET f == current[<< d, k >>]
      attribute == << f, k >>
      cleared == [current EXCEPT ![<< d, k >>] = NoFile]
  IN  /\ Rest
      /\ Running(d, k)
      /\ << d, k >> \notin cancelled
      /\ outdated' = outdated \ {attribute}
      /\ tainted' = IF << d, k >> \in stale THEN tainted \cup {attribute}
                                            ELSE tainted \ {attribute}
      /\ stale' = stale \ {<< d, k >>}
      /\ CASE k \in SignalsBeforeEnd ->
                /\ current' = cleared
                /\ jobs' = jobs
                /\ stack' = << Signal, EndJob(d, k), Changed(d) >>
           [] k \in SignalsTwice ->
                /\ current' = cleared
                /\ jobs' = jobs
                /\ stack' = << Signal, Signal, EndJob(d, k), Changed(d) >>
           [] k \in SignalsBeforeClear ->
                /\ UNCHANGED << current, jobs >>
                /\ stack' = << Signal, EndJob(d, k), Changed(d) >>
           [] OTHER ->
                /\ current' = cleared
                /\ jobs' = jobs - 1
                /\ stack' = << Changed(d), Signal >>
      /\ UNCHANGED << waiting, waking, cancelled, queue, requestVars, listWanted,
                      listVars, loopVars, calls >>

(* count_children_callback and its like when the cancellable is cancelled: *)
(* nothing was learnt, but only now is the slot released.                  *)
AnswerCancelled(d, k) ==
  /\ Rest
  /\ << d, k >> \in cancelled
  /\ current' = [current EXCEPT ![<< d, k >>] = NoFile]
  /\ cancelled' = cancelled \ {<< d, k >>}
  /\ stale' = stale \ {<< d, k >>}
  /\ jobs' = jobs - 1
  /\ stack' = << Changed(d) >>
  /\ UNCHANGED << waiting, waking, queue, attributeVars, requestVars, listWanted,
                  listVars, loopVars, calls >>

(* deep_count_next_dir when there is another directory to count *)
DeepCountProgress(d) ==
  /\ Rest
  /\ "deep_count" \in Kinds
  /\ Running(d, "deep_count")
  /\ stack' = << Signal >>
  /\ UNCHANGED << slotVars, jobVars, queue, attributeVars, requestVars, listWanted,
                  listVars, loopVars, calls >>

(* directory_load_done: the idle function is called right away, with its   *)
(* signals, and the load is cancelled last.                                *)
LoadDone(d) ==
  /\ Rest
  /\ d \in loading
  /\ loaded' = loaded \cup {d}
  /\ stack' = << Signal, Announce(d), Changed(d), Unload(d) >>
  /\ UNCHANGED << slotVars, jobVars, queue, attributeVars, requestVars, listWanted,
                  listMonitored, loading, loadingFlag, loopVars, calls >>

(* call_ready_callbacks_at_idle, whose loop CallOne and CallNoMore are *)
CallReadyCallbacks(d) ==
  /\ Rest
  /\ d \in idle
  /\ idle' = idle \ {d}
  /\ stack' = << Calling(d) >>
  /\ UNCHANGED << slotVars, jobVars, queue, attributeVars, monitors, active, ready,
                  listWanted, listVars, loopVars, calls >>

-----------------------------------------------------------------------------
(* The calls on the stack.                                                 *)

(* A handler of a signal (or a ready callback) may call back into the      *)
(* engine once.                                                            *)
Handle ==
  /\ Pending("signal")
  /\ \/ /\ stack' = Below
        /\ UNCHANGED << slotVars, jobVars, queue, attributeVars, requestVars,
                        listWanted, listVars, loopVars, calls >>
     \/ "reentrant" \in Uses /\ ClientCall(Below)

(* One callback after the other is taken off the list and called; what a   *)
(* callback adds or cancels counts for the ones after it.                  *)
CallOne ==
  /\ Pending("calling")
  /\ \E r \in ready :
       /\ Home[r[1]] = Top.dir
       /\ ready' = ready \ {r}
  /\ stack' = << Signal >> \o stack
  /\ UNCHANGED << slotVars, jobVars, queue, attributeVars, monitors, active, idle,
                  listWanted, listVars, loopVars, calls >>

CallNoMore ==
  /\ Pending("calling")
  /\ \A r \in ready : Home[r[1]] # Top.dir
  /\ stack' = << Changed(Top.dir) >> \o Below
  /\ UNCHANGED << slotVars, jobVars, queue, attributeVars, requestVars, listWanted,
                  listVars, loopVars, calls >>

(* One file of add_all_files_to_work_queue *)
EnqueueFile ==
  /\ Pending("enqueue")
  /\ AddToWorkQueue(Top.file)
  /\ stack' = Below
  /\ UNCHANGED << slotVars, jobVars, attributeVars, requestVars, listWanted, listVars,
                  loopVars, calls >>

(* async_job_end after the signal; top_left_read_callback clears its job   *)
(* pointer here and not before.                                            *)
End ==
  /\ Pending("end")
  /\ jobs' = jobs - 1
  /\ current' = IF Top.kind \in SignalsBeforeClear
                THEN [current EXCEPT ![<< Top.dir, Top.kind >>] = NoFile]
                ELSE current
  /\ stack' = Below
  /\ UNCHANGED << waiting, waking, cancelled, stale, queue, attributeVars,
                  requestVars, listWanted, listVars, loopVars, calls >>

\* Mutant: the invalidated file is not put back on the work queue.
MarkOutdatedUnqueued ==
  /\ Pending("outdate")
  /\ LET reset == {Top.file} \X (Top.kinds \ {"filesystem_info"})
     IN  /\ outdated' = outdated \cup reset
         /\ tainted' = tainted \ reset
  /\ stack' = << Changed(Home[Top.file]) >> \o Below
  /\ UNCHANGED << slotVars, jobVars, queue, requestVars, listWanted, listVars,
                  loopVars, calls >>

(* The second half of baul_file_invalidate_attributes *)
MarkOutdated ==
  /\ Pending("outdate")
  /\ LET reset == {Top.file} \X (Top.kinds \ {"filesystem_info"})
     IN  /\ outdated' = outdated \cup reset
         /\ tainted' = tainted \ reset
  /\ AddToWorkQueue(Top.file)
  /\ stack' = << Changed(Home[Top.file]) >> \o Below
  /\ UNCHANGED << slotVars, jobVars, requestVars, listWanted, listVars, loopVars, calls >>

(* dequeue_pending_idle_callback when the directory is loaded and has not  *)
(* said so: the done_loading signal, and the file count and MIME list of   *)
(* the directory's own file, taken from the load.                          *)
AnnounceLoaded ==
  /\ Pending("announce")
  /\ IF Top.dir \in loaded
     THEN LET filled == {Corresponding[Top.dir]} \X LoadFills
          IN  /\ outdated' = outdated \ filled
              /\ tainted' = tainted \ filled
              /\ stack' = << Signal, Changed(Top.dir) >> \o Below
     ELSE UNCHANGED attributeVars /\ stack' = Below
  /\ UNCHANGED << slotVars, jobVars, queue, requestVars, listWanted, listVars,
                  loopVars, calls >>

\* Mutant: a load that is not in progress is ended all the same.
UnloadAlways ==
  /\ Pending("unload")
  /\ LET f == Corresponding[Top.dir]
     IN  /\ loadingFlag' = loadingFlag \ {f}
         /\ stack' = << Changed(Home[f]), EndLoad(Top.dir) >> \o Below
  /\ UNCHANGED << slotVars, jobVars, queue, attributeVars, requestVars, listWanted,
                  listMonitored, loaded, loading, loopVars, calls >>

(* directory_load_cancel: it runs the parent's state machine before it     *)
(* ends the job, and nothing wakes the waiting directories afterwards.     *)
UnloadDirectory ==
  /\ Pending("unload")
  /\ LET d == Top.dir
         f == Corresponding[d]
     IN  IF d \in loading
         THEN /\ loadingFlag' = loadingFlag \ {f}
              /\ stack' = (IF Home[f] # d THEN << Changed(Home[f]) >> ELSE << >>)
                            \o << EndLoad(d) >> \o Below
         ELSE UNCHANGED loadingFlag /\ stack' = Below
  /\ UNCHANGED << slotVars, jobVars, queue, attributeVars, requestVars, listWanted,
                  listMonitored, loaded, loading, loopVars, calls >>

EndDirectoryLoad ==
  /\ Pending("endload")
  /\ loading' = loading \ {Top.dir}
  /\ jobs' = jobs - 1
  /\ stack' = Below
  /\ UNCHANGED << waiting, waking, jobVars, queue, attributeVars, requestVars,
                  listWanted, listMonitored, loaded, loadingFlag, loopVars, calls >>

(* The end of baul_directory_stop_monitoring_file_list *)
ForgetFileList ==
  /\ Pending("unlist")
  /\ loaded' = loaded \ {Top.dir}
  /\ stack' = Below
  /\ UNCHANGED << slotVars, jobVars, queue, attributeVars, requestVars, listWanted,
                  listMonitored, loading, loadingFlag, loopVars, calls >>

\* The files of d, and its own file if that lives in d (as_file)
ReloadedFiles(d) ==
  {Listing[d][i] : i \in DOMAIN Listing[d]}
    \cup {f \in {Corresponding[d]} : Home[f] = d}

(* baul_directory_force_reload_internal after cancel_loading_attributes:   *)
(* 1. every attribute of every file is out of date, cancel the file list;  *)
(* 2. not loaded any more; the count and MIME list of the directory's own  *)
(*    file are invalidated in the directory it lives in;                   *)
(* 3. every file goes back on the work queue.                              *)
Reloading ==
  /\ Pending("reload")
  /\ LET d == Top.dir
         own == Corresponding[d]
         reset == ReloadedFiles(d) \X ReloadedKinds
     IN  CASE Top.step = 1 ->
                /\ outdated' = outdated \cup reset
                /\ tainted' = tainted \ reset
                /\ stack' = << Unload(d), Reload(d, 2) >> \o Below
                /\ UNCHANGED << slotVars, jobVars, queue, loaded >>
           [] Top.step = 2 ->
                /\ loaded' = loaded \ {d}
                /\ InvalidateAttributes(own, LoadFills \cap Kinds,
                                        << Reload(d, 3) >> \o Below)
                /\ UNCHANGED attributeVars
           [] OTHER ->
                /\ stack' = EnqueueAll(d) \o << Changed(d) >> \o Below
                /\ UNCHANGED << slotVars, jobVars, queue, attributeVars, loaded >>
  /\ UNCHANGED << requestVars, listWanted, listMonitored, loading, loadingFlag,
                  loopVars, calls >>

-----------------------------------------------------------------------------
(* baul_directory_async_state_changed, and start_or_stop_io inside it.     *)

\* file in start_or_stop_io: the head of the queue when the pass came to it, and
\* the same file once doing_io is set, whatever a signal handler does to the queue
FileTried(level) ==
  IF Top.io # NoFile THEN Top.io ELSE Head(queue[Top.dir][level])
HasFile(level) == Top.io # NoFile \/ queue[Top.dir][level] # << >>

GoTo(at, i, io) == stack' = << ServiceAt(Top.dir, at, i, io) >> \o Below

(* Entry: a nested call for a directory that is in its service loop only   *)
(* asks for one more round.                                                *)
StateChanged ==
  /\ Pending("changed")
  /\ IF Top.dir \in inLoop
     THEN /\ stateChanged' = stateChanged \cup {Top.dir}
          /\ stack' = Below
          /\ UNCHANGED inLoop
     ELSE /\ inLoop' = inLoop \cup {Top.dir}
          /\ stateChanged' = stateChanged \ {Top.dir}
          /\ GoTo("list", 1, NoFile)
  /\ UNCHANGED << slotVars, jobVars, queue, attributeVars, requestVars, listWanted,
                  listVars, calls >>

AtPhase(phase) == Pending("service") /\ Top.at = phase

(* file_list_start_or_stop: start_monitoring_file_list ... *)
StartFileList ==
  /\ AtPhase("list")
  /\ LET d == Top.dir
     IN  /\ d \in listWanted
         /\ listMonitored' = listMonitored \cup {d}
         /\ IF d \in loaded \cup loading
            THEN UNCHANGED << slotVars, loading, loadingFlag >>
            ELSE \/ NoSlot(d) /\ UNCHANGED << loading, loadingFlag >>
                 \/ /\ TakeSlot
                    /\ loading' = loading \cup {d}
                    /\ loadingFlag' = loadingFlag \cup {Corresponding[d]}
  /\ GoTo("stop", 1, NoFile)
  /\ UNCHANGED << jobVars, queue, attributeVars, requestVars, listWanted, loaded,
                  loopVars, calls >>

\* Mutant: the load goes on when nobody wants the list any more.
StopFileListOnly ==
  /\ AtPhase("list")
  /\ Top.dir \notin listWanted
  /\ listMonitored' = listMonitored \ {Top.dir}
  /\ GoTo("stop", 1, NoFile)
  /\ UNCHANGED << slotVars, jobVars, queue, attributeVars, requestVars, listWanted,
                  loaded, loading, loadingFlag, loopVars, calls >>

(* ... and baul_directory_stop_monitoring_file_list *)
StopFileList ==
  /\ AtPhase("list")
  /\ LET d == Top.dir
         next == << ServiceAt(d, "stop", 1, NoFile) >> \o Below
     IN  /\ d \notin listWanted
         /\ listMonitored' = listMonitored \ {d}
         /\ stack' = IF d \in listMonitored
                     THEN << Unload(d), Unlist(d) >> \o next
                     ELSE next
  /\ UNCHANGED << slotVars, jobVars, queue, attributeVars, requestVars, listWanted,
                  loaded, loading, loadingFlag, loopVars, calls >>

(* file_info_stop, directory_count_stop, ...: one job kind per step *)
StopUnwanted ==
  /\ AtPhase("stop")
  /\ \E j \in NextJob(StopOrder, Top.i) :
       LET d == Top.dir
           k == StopOrder[j]
           wanted == Running(d, k) => Needy(current[<< d, k >>], k)
       IN  /\ CancelJobs(IF wanted THEN {} ELSE {<< d, k >>}, {})
           /\ GoTo("stop", j + 1, NoFile)
  /\ UNCHANGED << waiting, waking, queue, attributeVars, requestVars, listWanted,
                  listVars, loopVars, calls >>

StopsDone ==
  /\ AtPhase("stop")
  /\ NextJob(StopOrder, Top.i) = {}
  /\ GoTo("high", 1, NoFile)
  /\ UNCHANGED << slotVars, jobVars, queue, attributeVars, requestVars, listWanted,
                  listVars, loopVars, calls >>

(* file_info_start, ..., extension_info_start for the head of the queue.   *)
(* (file_info_start calls file_info_stop again; no need has changed since  *)
(* the stop phase, so that call does nothing.)                             *)
StartJob(level) ==
  /\ AtPhase(level)
  /\ HasFile(level)
  /\ \E j \in NextJob(StartOrder[level], Top.i) :
       LET d == Top.dir
           k == StartOrder[level][j]
           f == FileTried(level)
           busy == Running(d, k)
           needy == Needy(f, k)
       IN  /\ GoTo(level, j + 1, IF Top.io # NoFile \/ busy \/ needy THEN f ELSE NoFile)
           /\ IF busy \/ ~needy
              THEN UNCHANGED << slotVars, jobVars >>
              ELSE \/ NoSlot(d) /\ UNCHANGED jobVars
                   \/ /\ TakeSlot
                      /\ current' = [current EXCEPT ![<< d, k >>] = f]
                      /\ stale' = stale \ {<< d, k >>}
                      /\ UNCHANGED cancelled
  /\ UNCHANGED << queue, attributeVars, requestVars, listWanted, listVars, loopVars,
                  calls >>

(* A start function that finds nothing to read sets the flag and asks for  *)
(* another round; mount_start for a mountable file starts a job, which     *)
(* needs a free slot, has got_mount end it, and signals the change.        *)
Skip(level) ==
  /\ AtPhase(level)
  /\ HasFile(level)
  /\ \E j \in NextJob(StartOrder[level], Top.i) :
       LET d == Top.dir
           k == StartOrder[level][j]
           f == FileTried(level)
           next == ServiceAt(d, level, j + 1, f)
       IN  /\ << f, k >> \in AtOnce /\ ~Running(d, k) /\ Needy(f, k)
           /\ outdated' = outdated \ {<< f, k >>}
           /\ tainted' = tainted \ {<< f, k >>}
           /\ \/ JobOf[k].skips = "silently" /\ stack' = << next >> \o Below
              \/ /\ JobOf[k].skips = "signals"
                 /\ jobs < MaxAsyncJobs
                 /\ stack' = << Signal, next >> \o Below
           /\ stateChanged' = stateChanged \cup {d}
  /\ UNCHANGED << slotVars, jobVars, queue, requestVars, listWanted, listVars,
                  inLoop, calls >>

(* An extension may answer at once: extension_info_start then finishes the *)
(* provider, signals the change, and ends the job, all before it returns.  *)
StartExtensionAtOnce ==
  /\ AtPhase("extension")
  /\ LET d == Top.dir
         k == "extension_info"
         f == Head(queue[d].extension)
     IN  /\ k \in Kinds
         /\ queue[d].extension # << >>
         /\ Top.i = 1 /\ Top.io = NoFile
         /\ ~Running(d, k)
         /\ Needy(f, k)
         /\ TakeSlot
         /\ outdated' = outdated \ {<< f, k >>}
         /\ tainted' = tainted \ {<< f, k >>}
         /\ stateChanged' = stateChanged \cup {d}
         /\ stack' = << Signal, EndJob(d, k), ServiceAt(d, "extension", 2, f) >> \o Below
  /\ UNCHANGED << jobVars, queue, requestVars, listWanted, listVars, inLoop, calls >>

(* Every start function was tried for the head of the queue: stay with it  *)
(* while any of them does I/O, move it on to the next queue otherwise.     *)
FinishHead(level) ==
  /\ AtPhase(level)
  /\ LET d == Top.dir
         f == FileTried(level)
     IN  /\ HasFile(level)
         /\ NextJob(StartOrder[level], Top.i) = {}
         /\ IF Top.io # NoFile
            THEN GoTo("ready", 1, NoFile) /\ UNCHANGED queue
            ELSE /\ GoTo(level, 1, NoFile)
                 /\ queue' = [queue EXCEPT ![d] =
                      [l \in Levels |->
                         CASE l = level -> Dequeue(@[l], f)
                           [] << level, l >> \in {<< "high", "low" >>, << "low", "extension" >>}
                                -> Enqueue(@[l], f)
                           [] OTHER ->
                                IF level = "extension" THEN Dequeue(@[l], f) ELSE @[l]]]
  /\ UNCHANGED << slotVars, jobVars, attributeVars, requestVars, listWanted, listVars,
                  loopVars, calls >>

(* The queue of this level is empty *)
NextLevel(level) ==
  /\ AtPhase(level)
  /\ ~HasFile(level)
  /\ GoTo(CASE level = "high" -> "low" [] level = "low" -> "extension" [] OTHER -> "ready",
          1, NoFile)
  /\ UNCHANGED << slotVars, jobVars, queue, attributeVars, requestVars, listWanted,
                  listVars, loopVars, calls >>

\* Mutant: only the attribute itself is looked at, not what it is read after.
DueAlone(d) ==
  {r \in active : Home[r[1]] = d /\ (r[2] = "extension_info" \/ ~Lacks(r[1], r[2]))}

\* The callbacks of d that wait for nothing any more.
Due(d) == {r \in active : Home[r[1]] = d /\ Satisfied(r)}

(* call_ready_callbacks, and the end of the do loop *)
CallReady ==
  /\ AtPhase("ready")
  /\ LET d == Top.dir
         satisfied == Due(d)
         again == d \in stateChanged \/ satisfied # {}
     IN  /\ active' = active \ satisfied
         /\ ready' = ready \cup satisfied
         /\ idle' = IF satisfied # {} THEN idle \cup {d} ELSE idle
         /\ stateChanged' = stateChanged \ {d}
         /\ IF again
            THEN GoTo("list", 1, NoFile) /\ UNCHANGED inLoop
            ELSE /\ inLoop' = inLoop \ {d}
                 /\ stack' = << Wake >> \o Below
  /\ UNCHANGED << slotVars, jobVars, queue, attributeVars, monitors, listWanted,
                  listVars, calls >>

(* async_job_wake_up: not reentrant *)
WakeUp ==
  /\ Pending("wake")
  /\ waking' = TRUE
  /\ stack' = IF waking THEN Below ELSE << Waking >> \o Below
  /\ UNCHANGED << jobs, waiting, jobVars, queue, attributeVars, requestVars, listWanted,
                  listVars, loopVars, calls >>

WakeOne ==
  /\ Pending("waking")
  /\ jobs < MaxAsyncJobs
  /\ \E d \in waiting :
       /\ waiting' = waiting \ {d}
       /\ stack' = << Changed(d) >> \o stack
  /\ UNCHANGED << jobs, waking, jobVars, queue, attributeVars, requestVars, listWanted,
                  listVars, loopVars, calls >>

\* Mutant: already_waking_up is not reset.
WakeNoMoreEver ==
  /\ Pending("waking")
  /\ jobs >= MaxAsyncJobs \/ waiting = {}
  /\ stack' = Below
  /\ UNCHANGED << slotVars, jobVars, queue, attributeVars, requestVars, listWanted,
                  listVars, loopVars, calls >>

WakeNoMore ==
  /\ Pending("waking")
  /\ jobs >= MaxAsyncJobs \/ waiting = {}
  /\ waking' = FALSE
  /\ stack' = Below
  /\ UNCHANGED << jobs, waiting, jobVars, queue, attributeVars, requestVars, listWanted,
                  listVars, loopVars, calls >>

-----------------------------------------------------------------------------
MainLoop ==
  \/ Request
  \/ \E d \in Directories, k \in Kinds : Answer(d, k)
  \/ \E d \in Directories, k \in Kinds : AnswerCancelled(d, k)
  \/ \E d \in Directories : DeepCountProgress(d)
  \/ \E d \in Directories : LoadDone(d)
  \/ \E d \in Directories : CallReadyCallbacks(d)

Step ==
  \/ Handle \/ CallOne \/ CallNoMore \/ EnqueueFile \/ End \/ MarkOutdated \/ AnnounceLoaded
  \/ UnloadDirectory \/ EndDirectoryLoad \/ ForgetFileList \/ Reloading
  \/ StateChanged \/ StartFileList \/ StopFileList \/ StopUnwanted \/ StopsDone
  \/ \E level \in Levels : StartJob(level) \/ Skip(level) \/ FinishHead(level) \/ NextLevel(level)
  \/ StartExtensionAtOnce
  \/ CallReady \/ WakeUp \/ WakeOne \/ WakeNoMore

Next == MainLoop \/ Step

Spec == Init /\ [][Next]_vars

(* The program runs; every answer comes, late as it may be; the main loop  *)
(* dispatches its idle sources.  Clients need not call anything.           *)
Fairness ==
  /\ WF_vars(Step)
  /\ \A d \in Directories :
       /\ WF_vars(LoadDone(d))
       /\ WF_vars(CallReadyCallbacks(d))
       /\ \A k \in Kinds : WF_vars(Answer(d, k)) /\ WF_vars(AnswerCancelled(d, k))

FairSpec == Spec /\ Fairness

-----------------------------------------------------------------------------
TypeOK ==
  /\ jobs \in Int /\ jobs <= MaxAsyncJobs
  /\ waiting \subseteq Directories
  /\ waking \in BOOLEAN
  /\ current \in [Directories \X Kinds -> Files \cup {NoFile}]
  /\ cancelled \subseteq Directories \X (Kinds \cap Deferred)
  /\ stale \subseteq Directories \X Kinds
  /\ queue \in [Directories -> [Levels -> Seq(Files)]]
  /\ outdated \subseteq Files \X Kinds
  /\ tainted \subseteq Files \X Kinds
  /\ monitors \subseteq Requests
  /\ active \subseteq Requests
  /\ ready \subseteq Requests
  /\ idle \subseteq Directories
  /\ listWanted \subseteq Directories
  /\ listMonitored \subseteq Directories
  /\ loaded \subseteq Directories
  /\ loading \subseteq Directories
  /\ loadingFlag \subseteq Files
  /\ inLoop \subseteq Directories
  /\ stateChanged \subseteq Directories
  /\ stack \in Seq(Frames)
  /\ calls \in 0 .. ClientCalls

-----------------------------------------------------------------------------
(* Safety.                                                                 *)

\* The jobs whose callback has cleared the job pointer and not yet come to
\* async_job_end.
Ending ==
  {i \in DOMAIN stack : stack[i].op = "end" /\ stack[i].kind \notin SignalsBeforeClear}

\* async_job_count is the number of jobs that hold a slot: those in progress,
\* those between their signal and their end, and the directory loads.  A slot
\* released twice or never, by any nesting of cancels, late callbacks and
\* handlers, breaks it.
JobsExact ==
  jobs = Cardinality({job \in Directories \X Kinds : current[job] # NoFile})
           + Cardinality(Ending) + Cardinality(loading)

\* async_job_end: "ending job we didn't start" is never reported.
EndsOnlyStartedJobs ==
  /\ Pending("end") /\ Top.kind \in SignalsBeforeClear => Running(Top.dir, Top.kind)
  /\ Pending("endload") => Top.dir \in loading

\* "Wake up directories that are blocked as long as there are job slots
\* available": when the main loop waits, a directory waits for a slot only
\* while every slot is taken.
NoLostWakeUp == Rest /\ waiting # {} => jobs = MaxAsyncJobs

LevelOf(k) == CHOOSE level \in Levels : \E i \in DOMAIN StartOrder[level] : StartOrder[level][i] = k
Reaches == [high |-> {"high"}, low |-> {"high", "low"}, extension |-> Levels]

\* When the main loop waits, a file that needs an attribute is on a queue from
\* which its job will be tried (the queues drop a file as soon as no job is
\* needed for it, so a need that arises later must put the file back), and a
\* directory with files on a queue has a job in progress whose end runs its
\* service loop again, or waits for a slot.
NoForgottenWork ==
  Rest => /\ \A f \in Files, k \in Kinds :
               Needy(f, k) =>
                 \E level \in Reaches[LevelOf(k)] : InQueue(queue[Home[f]][level], f)
          /\ \A d \in Directories :
               (\E level \in Levels : queue[d][level] # << >>) =>
                 d \in waiting \/ \E k \in Kinds : Running(d, k)

\* When the main loop waits, a job still in progress is wanted, or it was told
\* to stop: no slot is spent on what nobody asks for.  (A load of the file's
\* own directory does not stop its item count: nobody runs the parent's state
\* machine when a load begins.)
NoUnwantedJob ==
  Rest => \A d \in Directories, k \in Kinds :
            Running(d, k) =>
              \/ << d, k >> \in cancelled
              \/ /\ Lacks(current[<< d, k >>], k)
                 /\ Asks(active \cup monitors, current[<< d, k >>], k)

\* When the main loop waits, a directory load is wanted and has not ended, the
\* files marked as being loaded are those of the loads in progress, and a
\* wanted file list is complete, on its way, or waits for a slot.
LoadsAreWanted ==
  Rest => /\ loading \subseteq listWanted
          /\ loading \cap loaded = {}
          /\ loadingFlag = {Corresponding[d] : d \in loading}
          /\ listWanted \subseteq loaded \cup loading \cup waiting

\* An attribute is never up to date because of an answer to a question that
\* was asked before the attribute was invalidated.
NoStaleAnswer == tainted = {}

-----------------------------------------------------------------------------
(* Liveness.                                                               *)

\* A callback that waits is called, unless it is cancelled: "said waiter won't
\* wait forever" (baul-directory.c:587).
CallbacksFire ==
  \A r \in Requests : r \in active \cup ready ~> r \notin active \cup ready

\* A monitored attribute that is out of date is read.
MonitoredIsRead ==
  \A r \in Requests : r \in monitors /\ r \in outdated ~> r \notin monitors \/ r \notin outdated

\* A file list that stays wanted is loaded: "The done_loading signal is emitted
\* when a directory load request completes" (baul-directory.h:99).
FileListsLoad ==
  \A d \in Directories : d \in listWanted ~> d \in loaded \/ d \notin listWanted

-----------------------------------------------------------------------------
(* What a client sees of all this: the requests of AttributeRequests.      *)

\* All that a request asks for has been read and not been invalidated since:
\* the up-to-date flags of the file (baul-file-private.h), nothing else.
UpToDate(r) == \A k \in RequestKinds(r[2]) : << r[1], k >> \notin outdated

\* A callback becomes due only when everything it asks for is up to date, stays
\* due until it is called or withdrawn, and is called only then: nothing that is
\* read before something else (a link's target before the file info) counts too
\* soon.  The exception is a callback for the extension info, which the code
\* calls without having looked at that flag.
Service == INSTANCE AttributeRequests WITH
  Requests   <- Requests,
  Unpromised <- {r \in Requests : r[2] = "extension_info"},
  waiting    <- active,
  due        <- ready,
  known      <- {r \in Requests : UpToDate(r)}
ImplementsRequests == Service!Spec
=============================================================================
