------------------------ MODULE DirectoryAsync_proofs ------------------------
(***************************************************************************)
(* Proofs about DirectoryAsync, for every number of directories, files,    *)
(* slots and client calls: its types and what it implements; its job       *)
(* slots; the clients that read attributes and load no directory; that     *)
(* answers are current; what is pending, by which no job is in progress    *)
(* that nobody wants; and the work queues, by which no work is forgotten.  *)
(***************************************************************************)
EXTENDS DirectoryAsync, FiniteSetTheorems, SequenceTheorems, WellFoundedInduction, TLAPS

-----------------------------------------------------------------------------
(* What the operators of DirectoryAsync build.                             *)

\* The names of the three work queues.
LEMMA LevelsAre == Levels = {"high", "low", "extension"}
BY DEF Levels, StartOrder

\* How the jobs of each kind end.
LEMMA JobsAre ==
  /\ Deferred = {"directory_count", "mime_list"}
  /\ SignalsBeforeEnd = {"file_info", "directory_count", "mime_list"}
  /\ SignalsTwice = {"deep_count"}
  /\ SignalsBeforeClear = {"top_left"}
<1>1. AllKinds = {"file_info", "directory_count", "deep_count", "mime_list", "top_left",
                  "link_info", "extension_info", "mount", "thumbnail", "filesystem_info"}
  BY DEF AllKinds, StopOrder
<1>2. /\ JobOf.file_info.stops = "now"
      /\ JobOf.directory_count.stops = "later"
      /\ JobOf.deep_count.stops = "now"
      /\ JobOf.mime_list.stops = "later"
      /\ JobOf.top_left.stops = "now"
      /\ JobOf.link_info.stops = "now"
      /\ JobOf.extension_info.stops = "now"
      /\ JobOf.mount.stops = "now"
      /\ JobOf.thumbnail.stops = "now"
      /\ JobOf.filesystem_info.stops = "now"
  BY DEF JobOf, FileInfoJob, LinkInfoJob, MountJob, DirectoryCountJob, DeepCountJob,
         MimeListJob, TopLeftJob, ThumbnailJob, FilesystemInfoJob, ExtensionInfoJob
<1>3. /\ JobOf.file_info.answers = "signal_end"
      /\ JobOf.directory_count.answers = "signal_end"
      /\ JobOf.deep_count.answers = "signal_signal_end"
      /\ JobOf.mime_list.answers = "signal_end"
      /\ JobOf.top_left.answers = "signal_clear_end"
      /\ JobOf.link_info.answers = "end_signal"
      /\ JobOf.extension_info.answers = "end_signal"
      /\ JobOf.mount.answers = "end_signal"
      /\ JobOf.thumbnail.answers = "end_signal"
      /\ JobOf.filesystem_info.answers = "end_signal"
  BY DEF JobOf, FileInfoJob, LinkInfoJob, MountJob, DirectoryCountJob, DeepCountJob,
         MimeListJob, TopLeftJob, ThumbnailJob, FilesystemInfoJob, ExtensionInfoJob
<1>4. Deferred = {"directory_count", "mime_list"}
  BY <1>1, <1>2 DEF Deferred
<1>5. /\ SignalsBeforeEnd = {"file_info", "directory_count", "mime_list"}
      /\ SignalsTwice = {"deep_count"} /\ SignalsBeforeClear = {"top_left"}
  BY <1>1, <1>3 DEF SignalsBeforeEnd, SignalsTwice, SignalsBeforeClear
<1>6. QED
  BY <1>4, <1>5

\* There are finitely many kinds of jobs, and so finitely many jobs.
LEMMA FiniteJobs == IsFiniteSet(Kinds) /\ IsFiniteSet(Directories \X Kinds)
<1>1. StopOrder \in Surjection(1 .. 10, AllKinds)
  <2>1. StopOrder \in [1 .. 10 -> AllKinds] /\ DOMAIN StopOrder = 1 .. 10
    BY DEF StopOrder, AllKinds
  <2>2. QED
    BY <2>1, Zenon DEF AllKinds, Surjection
<1>2. IsFiniteSet(AllKinds)
  <2>1. IsFiniteSet(1 .. 10)
    <3>1. ASSUME NEW n \in Nat, n = 10
          PROVE  IsFiniteSet(1 .. n)
      BY FS_Interval
    <3>2. 10 \in Nat
      OBVIOUS
    <3>3. QED
      BY <3>1, <3>2, Zenon
  <2>2. QED
    BY <1>1, <2>1, FS_Surjection, Zenon
<1>3. IsFiniteSet(Kinds)
  BY <1>2, FS_Subset, DirectoryAsyncAssumption DEF DirectoryAsyncAssumption
<1>4. QED
  BY <1>3, FS_Product, DirectoryAsyncAssumption

\* Every call that is put on the stack is one of Frames.
LEMMA FramesType ==
  /\ \A d \in Directories :
       /\ Changed(d) \in Frames /\ Calling(d) \in Frames /\ Announce(d) \in Frames
       /\ Unload(d) \in Frames /\ EndLoad(d) \in Frames /\ Unlist(d) \in Frames
       /\ \A k \in Kinds : EndJob(d, k) \in Frames
       /\ \A step \in 1 .. 3 : Reload(d, step) \in Frames
       /\ \A at \in Phases, i \in Nat, io \in Files \cup {NoFile} : ServiceAt(d, at, i, io) \in Frames
  /\ Wake \in Frames /\ Waking \in Frames /\ Signal \in Frames
  /\ \A f \in Files : Enqueueing(f) \in Frames
  /\ \A f \in Files, ks \in SUBSET Kinds : Outdate(f, ks) \in Frames
BY DEF Frames, Changed, Calling, Announce, Unload, EndLoad, Unlist, EndJob, Reload,
       ServiceAt, Wake, Waking, Signal, Outdate, Enqueueing

\* What the top of a well-typed stack carries.
LEMMA TopType ==
  ASSUME stack \in Seq(Frames), stack # << >>
  PROVE  /\ Below \in Seq(Frames)
         /\ Top.op \in {"changed", "calling", "announce", "unload", "endload",
                        "unlist", "service", "end", "reload"} => Top.dir \in Directories
         /\ Top.op = "service" => Top.at \in Phases /\ Top.i \in Nat /\ Top.io \in Files \cup {NoFile}
         /\ Top.op = "end" => Top.kind \in Kinds
         /\ Top.op \in {"outdate", "enqueue"} => Top.file \in Files
         /\ Top.op = "outdate" => Top.kinds \in SUBSET Kinds
         /\ Top.op = "reload" => Top.step \in 1 .. 3
<1>1. Top \in Frames /\ Below \in Seq(Frames)
  BY DEF Top, Below
<1>2. QED
  BY <1>1 DEF Frames

\* The file a service pass tries is one of the program's.
LEMMA FileTriedType ==
  ASSUME stack \in Seq(Frames), queue \in [Directories -> [Levels -> Seq(Files)]],
         NEW level \in Levels, AtPhase(level), HasFile(level)
  PROVE  FileTried(level) \in Files
<1>1. Top.dir \in Directories /\ Top.io \in Files \cup {NoFile}
  BY TopType DEF AtPhase, Pending
<1>2. queue[Top.dir][level] \in Seq(Files)
  BY <1>1
<1>3. QED
  BY <1>1, <1>2 DEF FileTried, HasFile

\* The queue operations of baul-file-queue.c keep a queue of files.
LEMMA QueueOps ==
  ASSUME NEW q \in Seq(Files), NEW f \in Files
  PROVE  Enqueue(q, f) \in Seq(Files) /\ Dequeue(q, f) \in Seq(Files)
<1>1. Enqueue(q, f) \in Seq(Files)
  BY DEF Enqueue
<1>2. ASSUME NEW i \in DOMAIN q
      PROVE  SubSeq(q, 1, i - 1) \o SubSeq(q, i + 1, Len(q)) \in Seq(Files)
  OBVIOUS
<1>3. CASE InQueue(q, f)
  <2>1. PICK i \in DOMAIN q : i = CHOOSE j \in DOMAIN q : q[j] = f
    BY <1>3 DEF InQueue
  <2>2. QED
    BY <1>1, <1>2, <1>3, <2>1 DEF Dequeue
<1>4. CASE ~InQueue(q, f)
  BY <1>1, <1>4 DEF Dequeue
<1>5. QED
  BY <1>3, <1>4

\* A file put on or taken off its work queues.
LEMMA WorkQueueType ==
  ASSUME queue \in [Directories -> [Levels -> Seq(Files)]], NEW f \in Files,
         AddToWorkQueue(f) \/ RemoveFromWorkQueue(f)
  PROVE  queue' \in [Directories -> [Levels -> Seq(Files)]]
<1>1. Home[f] \in Directories
  BY DirectoryAsyncAssumption
<1>2. CASE AddToWorkQueue(f)
  BY <1>1, <1>2, LevelsAre, QueueOps DEF AddToWorkQueue
<1>3. CASE RemoveFromWorkQueue(f)
  BY <1>1, <1>3, QueueOps DEF RemoveFromWorkQueue
<1>4. QED
  BY <1>2, <1>3

\* Cancelling jobs keeps the types and never takes a slot.
LEMMA CancelType ==
  ASSUME TypeOK,
         NEW cancels \in SUBSET (Directories \X Kinds),
         NEW invalid \in SUBSET (Directories \X Kinds),
         CancelJobs(cancels, invalid)
  PROVE  /\ current' \in [Directories \X Kinds -> Files \cup {NoFile}]
         /\ cancelled' \subseteq Directories \X (Kinds \cap Deferred)
         /\ stale' \subseteq Directories \X Kinds
         /\ jobs' \in Int /\ jobs' <= MaxAsyncJobs
<1>. DEFINE inProgress == {job \in cancels : current[job] # NoFile}
            detached == {job \in inProgress : job[2] \notin Deferred}
<1>1. Cardinality(detached) \in Nat
  BY FiniteJobs, FS_Subset, FS_CardinalityType
<1>2. jobs' \in Int /\ jobs' <= MaxAsyncJobs
  BY <1>1, DirectoryAsyncAssumption DEF CancelJobs, TypeOK
<1>3. current' \in [Directories \X Kinds -> Files \cup {NoFile}]
  BY DEF CancelJobs, TypeOK
<1>4. cancelled' \subseteq Directories \X (Kinds \cap Deferred)
  BY DEF CancelJobs, TypeOK
<1>5. stale' \subseteq Directories \X Kinds
  BY DEF CancelJobs, TypeOK
<1>6. QED
  BY <1>2, <1>3, <1>4, <1>5

\* Calls pushed on a stack of calls.
LEMMA Pushes ==
  ASSUME NEW s \in Seq(Frames)
  PROVE  /\ \A f \in Frames : << f >> \o s \in Seq(Frames)
         /\ \A f, g \in Frames : << f, g >> \o s \in Seq(Frames)
         /\ \A f, g, h \in Frames : << f, g, h >> \o s \in Seq(Frames)
         /\ \A d \in Directories, f \in Frames :
              EnqueueAll(d) \o << f >> \o s \in Seq(Frames)
<1>1. ASSUME NEW d \in Directories
      PROVE  EnqueueAll(d) \in Seq(Frames)
  <2>1. Listing[d] \in Seq(Files)
    BY DirectoryAsyncAssumption
  <2>2. \A i \in DOMAIN Listing[d] : Enqueueing(Listing[d][i]) \in Frames
    BY <2>1, FramesType
  <2>3. DOMAIN Listing[d] = 1 .. Len(Listing[d]) /\ Len(Listing[d]) \in Nat
    BY <2>1
  <2>4. QED
    BY <2>2, <2>3 DEF EnqueueAll
<1>2. ASSUME NEW d \in Directories, NEW f \in Frames
      PROVE  EnqueueAll(d) \o << f >> \o s \in Seq(Frames)
  <2>1. << f >> \in Seq(Frames)
    OBVIOUS
  <2>2. QED
    BY <1>1, <2>1
<1>3. QED
  BY <1>2

-----------------------------------------------------------------------------
(* Type correctness.                                                       *)

\* What invalidating attributes does to the jobs, the queues and the stack.
LEMMA InvalidateType ==
  ASSUME TypeOK, NEW rest \in Seq(Frames), NEW f \in Files, NEW ks \in SUBSET Kinds,
         InvalidateAttributes(f, ks, rest)
  PROVE  /\ jobs' \in Int /\ jobs' <= MaxAsyncJobs
         /\ current' \in [Directories \X Kinds -> Files \cup {NoFile}]
         /\ cancelled' \subseteq Directories \X (Kinds \cap Deferred)
         /\ stale' \subseteq Directories \X Kinds
         /\ queue' \in [Directories -> [Levels -> Seq(Files)]]
         /\ stack' \in Seq(Frames)
         /\ UNCHANGED << waiting, waking >>
<1>. DEFINE jobsOf == {job \in {Home[f]} \X RequestedBy(ks) : current[job] = f}
<1>1. Home[f] \in Directories
  BY DirectoryAsyncAssumption
<1>2. RequestedBy(ks) \in SUBSET Kinds
  BY DEF RequestedBy, RequestKinds
<1>3. jobsOf \in SUBSET (Directories \X Kinds)
  BY <1>1, <1>2
<1>4. {job \in jobsOf : job[2] # "extension_info"} \in SUBSET (Directories \X Kinds)
  BY <1>3
<1>5. {job \in jobsOf : job[2] # "filesystem_info"} \in SUBSET (Directories \X Kinds)
  BY <1>3
<1>6. queue' \in [Directories -> [Levels -> Seq(Files)]]
  BY WorkQueueType DEF InvalidateAttributes, TypeOK
<1>7. stack' \in Seq(Frames)
  BY <1>1, <1>2, FramesType, Pushes DEF InvalidateAttributes
<1>8. CancelJobs({job \in jobsOf : job[2] # "extension_info"},
                 {job \in jobsOf : job[2] # "filesystem_info"})
  BY DEF InvalidateAttributes
<1>9. QED
  BY <1>4, <1>5, <1>6, <1>7, <1>8, CancelType DEF InvalidateAttributes

\* Whatever a client calls keeps the types.
LEMMA ClientCallType ==
  ASSUME TypeOK, NEW rest \in Seq(Frames), ClientCall(rest)
  PROVE  TypeOK'
<1>1. calls' \in 0 .. ClientCalls
  BY DirectoryAsyncAssumption DEF ClientCall, TypeOK
<1>2. \A r \in Requests : r = << r[1], r[2] >> /\ r[1] \in Files /\ r[2] \in Kinds
  BY DirectoryAsyncAssumption
<1>3. \A f \in Files : Home[f] \in Directories
  BY DirectoryAsyncAssumption
<1>5. ASSUME NEW r \in Requests,
             \/ MonitorAdd(r[1], r[2], rest) \/ MonitorRemove(r[1], r[2], rest)
             \/ CallWhenReady(r[1], r[2], rest) \/ CancelCallback(r[1], r[2], rest)
      PROVE  TypeOK'
  <2>1. stack' \in Seq(Frames)
    <3>1. stack' = << Changed(Home[r[1]]) >> \o rest
      BY <1>5 DEF MonitorAdd, MonitorRemove, CallWhenReady, CancelCallback
    <3>2. Changed(Home[r[1]]) \in Frames
      BY <1>2, <1>3, FramesType
    <3>3. QED
      BY <3>1, <3>2, Pushes
  <2>2. queue' \in [Directories -> [Levels -> Seq(Files)]]
    BY <1>2, <1>5, WorkQueueType
       DEF MonitorAdd, MonitorRemove, CallWhenReady, CancelCallback, TypeOK
  <2>3. monitors' \subseteq Requests /\ active' \subseteq Requests /\ ready' \subseteq Requests
    BY <1>2, <1>5 DEF MonitorAdd, MonitorRemove, CallWhenReady, CancelCallback, TypeOK
  <2>4. QED
    BY <1>1, <1>5, <2>1, <2>2, <2>3
       DEF MonitorAdd, MonitorRemove, CallWhenReady, CancelCallback, TypeOK,
           slotVars, jobVars, attributeVars, listVars, loopVars
<1>7. ASSUME NEW d \in Listed, ListMonitorAdd(d, rest) \/ ListMonitorRemove(d, rest)
      PROVE  TypeOK'
  <2>1. d \in Directories
    BY DirectoryAsyncAssumption
  <2>2. stack' \in Seq(Frames)
    BY <1>7, <2>1, FramesType, Pushes DEF ListMonitorAdd, ListMonitorRemove
  <2>3. QED
    BY <1>1, <1>7, <2>1, <2>2
       DEF ListMonitorAdd, ListMonitorRemove, TypeOK, slotVars, jobVars, attributeVars,
           requestVars, listVars, loopVars
<1>8. ASSUME NEW d \in Listed, ForceReload(d, rest)
      PROVE  TypeOK'
  <2>. DEFINE jobsOf == {job \in {d} \X ReloadedKinds : current[job] # NoFile}
  <2>1. d \in Directories
    BY DirectoryAsyncAssumption
  <2>2. jobsOf \in SUBSET (Directories \X Kinds)
    BY <2>1 DEF ReloadedKinds
  <2>3. stack' \in Seq(Frames)
    BY <1>8, <2>1, FramesType, Pushes DEF ForceReload
  <2>4. CancelJobs(jobsOf, jobsOf)
    BY <1>8 DEF ForceReload
  <2>5. QED
    BY <1>1, <1>8, <2>2, <2>3, <2>4, CancelType
       DEF ForceReload, TypeOK, attributeVars, requestVars, listVars, loopVars
<1>9. ASSUME NEW r \in Requests, InvalidateAttributes(r[1], {r[2]}, rest),
             UNCHANGED << attributeVars, requestVars, listWanted, listVars, loopVars >>
      PROVE  TypeOK'
  <2>1. r[1] \in Files /\ {r[2]} \in SUBSET Kinds
    BY <1>2
  <2>2. QED
    BY <1>1, <1>9, <2>1, InvalidateType
       DEF TypeOK, attributeVars, requestVars, listVars, loopVars
<1>10. ASSUME NEW r \in Requests, NotifyFilesChanged(r[1], rest)
       PROVE  TypeOK'
  <2>1. r[1] \in Files /\ Home[r[1]] \in Directories
    BY <1>2, <1>3
  <2>2. NotifiedKinds \subseteq Kinds
    BY DEF NotifiedKinds
  <2>3. queue' \in [Directories -> [Levels -> Seq(Files)]]
    BY <1>10, <2>1, WorkQueueType DEF NotifyFilesChanged, TypeOK
  <2>4. stack' \in Seq(Frames)
    BY <1>10, <2>1, FramesType, Pushes DEF NotifyFilesChanged
  <2>5. outdated' \subseteq Files \X Kinds /\ tainted' \subseteq Files \X Kinds
    BY <1>10, <2>1, <2>2 DEF NotifyFilesChanged, TypeOK
  <2>6. stale' \subseteq Directories \X Kinds
    BY <1>10, <2>1, <2>2 DEF NotifyFilesChanged, TypeOK
  <2>7. QED
    BY <1>1, <1>10, <2>3, <2>4, <2>5, <2>6
       DEF NotifyFilesChanged, TypeOK, slotVars, requestVars, listVars, loopVars
<1>11. QED
  BY <1>5, <1>7, <1>8, <1>9, <1>10 DEF ClientCall

\* The events of the main loop keep the types.
LEMMA MainLoopType ==
  ASSUME TypeOK, MainLoop
  PROVE  TypeOK'
<1>1. CASE Request
  <2>1. << >> \in Seq(Frames)
    OBVIOUS
  <2>2. QED
    BY <1>1, <2>1, ClientCallType DEF Request
<1>2. ASSUME NEW d \in Directories, NEW k \in Kinds, Answer(d, k)
      PROVE  TypeOK'
  <2>1. << d, k >> \in Directories \X Kinds
    OBVIOUS
  <2>2. current' \in [Directories \X Kinds -> Files \cup {NoFile}]
    BY <1>2, <2>1 DEF Answer, TypeOK
  <2>3. jobs' \in Int /\ jobs' <= MaxAsyncJobs
    BY <1>2, DirectoryAsyncAssumption DEF Answer, TypeOK
  <2>4. stack' \in Seq(Frames)
    <3>1. \A e, f, g, h \in Frames : /\ << f, g >> \in Seq(Frames)
                                     /\ << f, g, h >> \in Seq(Frames)
                                     /\ << e, f, g, h >> \in Seq(Frames)
      OBVIOUS
    <3>2. /\ Signal \in Frames /\ Changed(d) \in Frames /\ EndJob(d, k) \in Frames
      BY FramesType
    <3>3. \/ stack' = << Signal, EndJob(d, k), Changed(d) >>
          \/ stack' = << Signal, Signal, EndJob(d, k), Changed(d) >>
          \/ stack' = << Changed(d), Signal >>
      BY <1>2 DEF Answer
    <3>4. QED
      BY <3>1, <3>2, <3>3
  <2>5. << current[<< d, k >>], k >> \in Files \X Kinds
    BY <1>2, <2>1 DEF Answer, Running, TypeOK
  <2>6. outdated' \subseteq Files \X Kinds /\ tainted' \subseteq Files \X Kinds
    BY <1>2, <2>5 DEF Answer, TypeOK
  <2>7. stale' \subseteq Directories \X Kinds
    BY <1>2 DEF Answer, TypeOK
  <2>8. QED
    BY <1>2, <2>2, <2>3, <2>4, <2>6, <2>7
       DEF Answer, TypeOK, requestVars, listVars, loopVars
<1>3. ASSUME NEW d \in Directories, NEW k \in Kinds, AnswerCancelled(d, k)
      PROVE  TypeOK'
  <2>1. stack' \in Seq(Frames)
    BY <1>3, FramesType DEF AnswerCancelled
  <2>2. current' \in [Directories \X Kinds -> Files \cup {NoFile}]
    BY <1>3 DEF AnswerCancelled, TypeOK
  <2>3. jobs' \in Int /\ jobs' <= MaxAsyncJobs
    BY <1>3, DirectoryAsyncAssumption DEF AnswerCancelled, TypeOK
  <2>4. QED
    BY <1>3, <2>1, <2>2, <2>3
       DEF AnswerCancelled, TypeOK, attributeVars, requestVars, listVars, loopVars
<1>4. ASSUME NEW d \in Directories, LoadDone(d)
      PROVE  TypeOK'
  <2>1. stack' \in Seq(Frames)
    <3>1. \A f, g, h, i \in Frames : << f, g, h, i >> \in Seq(Frames)
      OBVIOUS
    <3>2. QED
      BY <1>4, <3>1, FramesType DEF LoadDone
  <2>2. QED
    BY <1>4, <2>1
       DEF LoadDone, TypeOK, slotVars, jobVars, attributeVars, requestVars, loopVars
<1>5. ASSUME NEW d \in Directories, CallReadyCallbacks(d)
      PROVE  TypeOK'
  <2>1. stack' \in Seq(Frames)
    BY <1>5, FramesType DEF CallReadyCallbacks
  <2>2. QED
    BY <1>5, <2>1
       DEF CallReadyCallbacks, TypeOK, slotVars, jobVars, attributeVars, listVars, loopVars
<1>6. ASSUME NEW d \in Directories, DeepCountProgress(d)
      PROVE  TypeOK'
  <2>1. stack' \in Seq(Frames)
    BY <1>6, FramesType DEF DeepCountProgress
  <2>2. QED
    BY <1>6, <2>1
       DEF DeepCountProgress, TypeOK, slotVars, jobVars, attributeVars, requestVars,
           listVars, loopVars
<1>7. QED
  BY <1>1, <1>2, <1>3, <1>4, <1>5, <1>6 DEF MainLoop

\* The calls nested in them keep the types: first those outside the service loop.
LEMMA NestedCallType ==
  ASSUME TypeOK,
         \/ Handle \/ CallOne \/ CallNoMore \/ EnqueueFile \/ End \/ MarkOutdated
         \/ AnnounceLoaded \/ UnloadDirectory \/ EndDirectoryLoad \/ ForgetFileList
         \/ Reloading \/ WakeUp \/ WakeOne \/ WakeNoMore
  PROVE  TypeOK'
<1>1. stack \in Seq(Frames)
  BY SMTT(30) DEF TypeOK
<1>2. stack # << >>
  BY DEF Handle, CallOne, CallNoMore, EnqueueFile, End, MarkOutdated, AnnounceLoaded,
         UnloadDirectory, EndDirectoryLoad, ForgetFileList, Reloading, WakeUp, WakeOne,
         WakeNoMore, Pending
<1>3. Below \in Seq(Frames)
  BY <1>1, <1>2, TopType
<1>4. \A d \in Directories : Home[Corresponding[d]] \in Directories /\ Corresponding[d] \in Files
  BY DirectoryAsyncAssumption
<1>5. CASE Handle
  <2>1. CASE ClientCall(Below)
    BY <1>3, <2>1, ClientCallType
  <2>2. CASE ~ClientCall(Below)
    BY <1>3, <1>5, <2>2
       DEF Handle, TypeOK, slotVars, jobVars, attributeVars, requestVars, listVars, loopVars
  <2>3. QED
    BY <2>1, <2>2
<1>6. CASE CallOne
  <2>1. stack' \in Seq(Frames)
    BY <1>1, <1>6, FramesType, Pushes DEF CallOne
  <2>2. QED
    BY <1>6, <2>1
       DEF CallOne, TypeOK, slotVars, jobVars, attributeVars, listVars, loopVars
<1>7. CASE CallNoMore
  <2>1. Top.dir \in Directories
    BY <1>1, <1>2, <1>7, TopType DEF CallNoMore, Pending
  <2>2. stack' \in Seq(Frames)
    BY <1>3, <1>7, <2>1, FramesType, Pushes DEF CallNoMore
  <2>3. QED
    BY <1>7, <2>2
       DEF CallNoMore, TypeOK, slotVars, jobVars, attributeVars, requestVars, listVars, loopVars
<1>8. CASE EnqueueFile
  <2>1. Top.file \in Files
    BY <1>1, <1>2, <1>8, TopType DEF EnqueueFile, Pending
  <2>2. queue' \in [Directories -> [Levels -> Seq(Files)]]
    BY <1>8, <2>1, WorkQueueType DEF EnqueueFile, TypeOK
  <2>3. QED
    BY <1>3, <1>8, <2>2
       DEF EnqueueFile, TypeOK, slotVars, jobVars, attributeVars, requestVars, listVars, loopVars
<1>9. CASE End
  <2>1. Top.dir \in Directories /\ Top.kind \in Kinds
    BY <1>1, <1>2, <1>9, TopType DEF End, Pending
  <2>2. current' \in [Directories \X Kinds -> Files \cup {NoFile}]
    BY <1>9, <2>1 DEF End, TypeOK
  <2>3. jobs' \in Int /\ jobs' <= MaxAsyncJobs
    BY <1>9, DirectoryAsyncAssumption DEF End, TypeOK
  <2>4. QED
    BY <1>3, <1>9, <2>2, <2>3
       DEF End, TypeOK, attributeVars, requestVars, listVars, loopVars
<1>10. CASE MarkOutdated
  <2>1. Top.file \in Files /\ Top.kinds \in SUBSET Kinds
    BY <1>1, <1>2, <1>10, TopType DEF MarkOutdated, Pending
  <2>2. queue' \in [Directories -> [Levels -> Seq(Files)]]
    BY <1>10, <2>1, WorkQueueType DEF MarkOutdated, TypeOK
  <2>3. Changed(Home[Top.file]) \in Frames
    BY <2>1, FramesType, DirectoryAsyncAssumption
  <2>4. stack' \in Seq(Frames)
    BY <1>3, <1>10, <2>3, Pushes DEF MarkOutdated
  <2>5. outdated' \subseteq Files \X Kinds /\ tainted' \subseteq Files \X Kinds
    BY <1>10, <2>1 DEF MarkOutdated, TypeOK
  <2>6. QED
    BY <1>10, <2>2, <2>4, <2>5
       DEF MarkOutdated, TypeOK, slotVars, jobVars, requestVars, listVars, loopVars
<1>11. CASE AnnounceLoaded
  <2>1. Top.dir \in Directories
    BY <1>1, <1>2, <1>11, TopType DEF AnnounceLoaded, Pending
  <2>2. stack' \in Seq(Frames)
    <3>1. << Signal, Changed(Top.dir) >> \o Below \in Seq(Frames)
      BY <1>3, <2>1, FramesType, Pushes
    <3>2. QED
      BY <1>3, <1>11, <3>1, SMTT(30) DEF AnnounceLoaded
  <2>3. outdated' \subseteq Files \X Kinds /\ tainted' \subseteq Files \X Kinds
    BY <1>11 DEF AnnounceLoaded, TypeOK, attributeVars
  <2>4. QED
    BY <1>11, <2>2, <2>3
       DEF AnnounceLoaded, TypeOK, slotVars, jobVars, requestVars, listVars, loopVars
<1>12. CASE UnloadDirectory
  <2>1. Top.dir \in Directories
    <3>1. stack # << >> /\ Top.op = "unload"
      BY <1>12 DEF UnloadDirectory, Pending
    <3>2. QED
      BY <1>1, <3>1, TopType
  <2>2. stack' \in Seq(Frames)
    <3>1. << EndLoad(Top.dir) >> \o Below \in Seq(Frames)
      BY <1>3, <2>1, FramesType, Pushes
    <3>2. << Changed(Home[Corresponding[Top.dir]]) >> \in Seq(Frames)
      BY <1>4, <2>1, FramesType
    <3>3. << >> \in Seq(Frames)
      OBVIOUS
    <3>4. \A s, t, u \in Seq(Frames) : s \o t \o u \in Seq(Frames)
      OBVIOUS
    <3>5. << EndLoad(Top.dir) >> \in Seq(Frames)
      BY <2>1, FramesType
    <3>6. QED
      BY <1>3, <1>12, <3>2, <3>3, <3>4, <3>5, ZenonT(60) DEF UnloadDirectory
  <2>3. loadingFlag' \subseteq Files
    BY <1>12 DEF UnloadDirectory, TypeOK
  <2>4. UNCHANGED << slotVars, jobVars, queue, attributeVars, requestVars, listWanted,
                     listMonitored, loaded, loading, loopVars, calls >>
    BY <1>12 DEF UnloadDirectory
  <2>5. QED
    BY <2>2, <2>3, <2>4 DEF TypeOK, slotVars, jobVars, attributeVars, requestVars, loopVars
<1>13. CASE EndDirectoryLoad
  <2>1. jobs' \in Int /\ jobs' <= MaxAsyncJobs
    BY <1>13, DirectoryAsyncAssumption DEF EndDirectoryLoad, TypeOK
  <2>2. QED
    BY <1>3, <1>13, <2>1
       DEF EndDirectoryLoad, TypeOK, jobVars, attributeVars, requestVars, loopVars
<1>14. CASE ForgetFileList
  BY <1>3, <1>14
     DEF ForgetFileList, TypeOK, slotVars, jobVars, attributeVars, requestVars, loopVars
<1>15. CASE Reloading
  <2>1. Top.dir \in Directories /\ Top.step \in 1 .. 3
    BY <1>1, <1>2, <1>15, TopType DEF Reloading, Pending
  <2>2. Corresponding[Top.dir] \in Files
    BY <1>4, <2>1
  <2>3. CASE Top.step = 1
    <3>1. ReloadedFiles(Top.dir) \subseteq Files
      <4>1. Listing[Top.dir] \in Seq(Files)
        BY <2>1, DirectoryAsyncAssumption
      <4>2. QED
        BY <2>2, <4>1 DEF ReloadedFiles
    <3>2. outdated' \subseteq Files \X Kinds /\ tainted' \subseteq Files \X Kinds
      <4>. DEFINE reset == ReloadedFiles(Top.dir) \X ReloadedKinds
      <4>1. outdated' = outdated \cup reset /\ tainted' = tainted \ reset
        BY <1>15, <2>3 DEF Reloading
      <4>2. reset \subseteq Files \X Kinds
        BY <3>1 DEF ReloadedKinds
      <4>. HIDE DEF reset
      <4>3. QED
        BY <4>1, <4>2 DEF TypeOK
    <3>3. stack' \in Seq(Frames)
      <4>1. stack' = << Unload(Top.dir), Reload(Top.dir, 2) >> \o Below
        BY <1>15, <2>3 DEF Reloading
      <4>2. Unload(Top.dir) \in Frames /\ Reload(Top.dir, 2) \in Frames
        BY <2>1, FramesType
      <4>3. QED
        BY <1>3, <4>1, <4>2, Pushes
    <3>4. QED
      BY <1>15, <2>3, <3>2, <3>3
         DEF Reloading, TypeOK, slotVars, jobVars, requestVars, loopVars
  <2>4. CASE Top.step = 2
    <3>1. << Reload(Top.dir, 3) >> \o Below \in Seq(Frames)
      BY <1>3, <2>1, FramesType, Pushes
    <3>2. InvalidateAttributes(Corresponding[Top.dir], LoadFills \cap Kinds,
                               << Reload(Top.dir, 3) >> \o Below)
      BY <1>15, <2>4 DEF Reloading
    <3>3. loaded' \subseteq Directories
      BY <1>15, <2>4 DEF Reloading, TypeOK
    <3>4. UNCHANGED << attributeVars, requestVars, listWanted, listMonitored, loading,
                       loadingFlag, loopVars, calls >>
      BY <1>15, <2>4 DEF Reloading
    <3>5. LoadFills \cap Kinds \in SUBSET Kinds
      OBVIOUS
    <3>6. /\ jobs' \in Int /\ jobs' <= MaxAsyncJobs
          /\ current' \in [Directories \X Kinds -> Files \cup {NoFile}]
          /\ cancelled' \subseteq Directories \X (Kinds \cap Deferred)
          /\ stale' \subseteq Directories \X Kinds
          /\ queue' \in [Directories -> [Levels -> Seq(Files)]]
          /\ stack' \in Seq(Frames)
          /\ UNCHANGED << waiting, waking >>
      BY <2>2, <3>1, <3>2, <3>5, InvalidateType
    <3>7. QED
      BY <3>3, <3>4, <3>6 DEF TypeOK, attributeVars, requestVars, loopVars
  <2>5. CASE Top.step = 3
    <3>1. stack' = EnqueueAll(Top.dir) \o << Changed(Top.dir) >> \o Below
      BY <1>15, <2>5 DEF Reloading
    <3>2. stack' \in Seq(Frames)
      BY <1>3, <2>1, <3>1, FramesType, Pushes
    <3>3. QED
      BY <1>15, <2>5, <3>2
         DEF Reloading, TypeOK, slotVars, jobVars, attributeVars, requestVars, loopVars
  <2>6. QED
    BY <2>1, <2>3, <2>4, <2>5
<1>16. CASE WakeUp
  <2>1. stack' \in Seq(Frames)
    BY <1>3, <1>16, FramesType, Pushes DEF WakeUp
  <2>2. QED
    BY <1>16, <2>1
       DEF WakeUp, TypeOK, jobVars, attributeVars, requestVars, listVars, loopVars
<1>17. CASE WakeOne
  <2>1. PICK d \in waiting : waiting' = waiting \ {d} /\ stack' = << Changed(d) >> \o stack
    BY <1>17 DEF WakeOne
  <2>2. stack' \in Seq(Frames)
    BY <1>1, <2>1, FramesType, Pushes DEF TypeOK
  <2>3. QED
    BY <1>17, <2>1, <2>2
       DEF WakeOne, TypeOK, jobVars, attributeVars, requestVars, listVars, loopVars
<1>18. CASE WakeNoMore
  BY <1>3, <1>18
     DEF WakeNoMore, TypeOK, jobVars, attributeVars, requestVars, listVars, loopVars
<1>19. QED
  BY <1>5, <1>6, <1>7, <1>8, <1>9, <1>10, <1>11, <1>12, <1>13, <1>14, <1>15, <1>16,
     <1>17, <1>18

\* The steps of the service loop keep the types.
LEMMA ServiceLoopType ==
  ASSUME TypeOK,
         \/ StateChanged \/ StartFileList \/ StopFileList \/ StopUnwanted \/ StopsDone
         \/ \E level \in Levels : StartJob(level) \/ Skip(level) \/ FinishHead(level) \/ NextLevel(level)
         \/ StartExtensionAtOnce \/ CallReady
  PROVE  TypeOK'
<1>1. stack \in Seq(Frames)
  BY DEF TypeOK
<1>2. stack # << >> /\ Top.op \in {"changed", "service"}
  BY DEF StateChanged, StartFileList, StopFileList, StopUnwanted, StopsDone, StartJob,
         Skip, FinishHead, NextLevel, StartExtensionAtOnce, CallReady, AtPhase, Pending
<1>3. Below \in Seq(Frames) /\ Top.dir \in Directories
  BY <1>1, <1>2, TopType
<1>4. \A d \in Directories : Corresponding[d] \in Files
  BY DirectoryAsyncAssumption
<1>5. ASSUME NEW at \in Phases, NEW i \in Nat, NEW io \in Files \cup {NoFile}, GoTo(at, i, io)
      PROVE  stack' \in Seq(Frames)
  BY <1>3, <1>5, FramesType, Pushes DEF GoTo
<1>6. /\ \A i \in Nat : i + 1 \in Nat
      /\ 1 \in Nat /\ NoFile \in Files \cup {NoFile} /\ Levels \subseteq Phases
      /\ {"list", "stop", "ready", "high"} \subseteq Phases
  BY LevelsAre DEF Phases
<1>7. CASE StateChanged
  <2>1. stack' \in Seq(Frames)
    BY <1>3, <1>5, <1>6, <1>7 DEF StateChanged
  <2>2. QED
    BY <1>3, <1>7, <2>1
       DEF StateChanged, TypeOK, slotVars, jobVars, attributeVars, requestVars, listVars
<1>8. CASE StartFileList
  <2>1. stack' \in Seq(Frames)
    BY <1>5, <1>6, <1>8 DEF StartFileList
  <2>2. /\ jobs' \in Int /\ jobs' <= MaxAsyncJobs
        /\ waiting' \subseteq Directories /\ waking' \in BOOLEAN
        /\ loading' \subseteq Directories /\ loadingFlag' \subseteq Files
        /\ listMonitored' \subseteq Directories
    <3>1. /\ jobs' \in Int /\ jobs' <= MaxAsyncJobs /\ waking' \in BOOLEAN
      BY <1>8, DirectoryAsyncAssumption, SMTT(30)
         DEF StartFileList, NoSlot, TakeSlot, TypeOK, slotVars
    <3>2. waiting' \subseteq Directories
      BY <1>3, <1>8, SMTT(30) DEF StartFileList, NoSlot, TakeSlot, TypeOK, slotVars
    <3>3. /\ loading' \subseteq Directories /\ loadingFlag' \subseteq Files
          /\ listMonitored' \subseteq Directories
      BY <1>3, <1>4, <1>8, SMTT(30) DEF StartFileList, NoSlot, TakeSlot, TypeOK, slotVars
    <3>4. QED
      BY <3>1, <3>2, <3>3
  <2>3. QED
    BY <1>8, <2>1, <2>2
       DEF StartFileList, TypeOK, jobVars, attributeVars, requestVars, loopVars
<1>9. CASE StopFileList
  <2>1. stack' \in Seq(Frames)
    <3>1. ServiceAt(Top.dir, "stop", 1, NoFile) \in Frames
      BY <1>3, <1>6, FramesType
    <3>2. << ServiceAt(Top.dir, "stop", 1, NoFile) >> \o Below \in Seq(Frames)
      BY <1>3, <3>1, Pushes
    <3>3. << Unload(Top.dir), Unlist(Top.dir) >>
             \o (<< ServiceAt(Top.dir, "stop", 1, NoFile) >> \o Below) \in Seq(Frames)
      BY <1>3, <3>2, FramesType, Pushes
    <3>4. QED
      BY <1>9, <3>2, <3>3 DEF StopFileList
  <2>2. QED
    BY <1>9, <2>1
       DEF StopFileList, TypeOK, slotVars, jobVars, attributeVars, requestVars, loopVars
<1>10. CASE StopUnwanted
  <2>1. PICK j \in NextJob(StopOrder, Top.i) :
          /\ \/ CancelJobs({}, {})
             \/ CancelJobs({<< Top.dir, StopOrder[j] >>}, {})
          /\ GoTo("stop", j + 1, NoFile)
    BY <1>10 DEF StopUnwanted
  <2>2. j \in Nat /\ StopOrder[j] \in Kinds
    BY <2>1 DEF NextJob, StopOrder
  <2>3. stack' \in Seq(Frames)
    BY <1>5, <1>6, <2>1, <2>2
  <2>4. {} \in SUBSET (Directories \X Kinds)
        /\ {<< Top.dir, StopOrder[j] >>} \in SUBSET (Directories \X Kinds)
    BY <1>3, <2>2
  <2>5. QED
    BY <1>10, <2>1, <2>3, <2>4, CancelType
       DEF StopUnwanted, TypeOK, attributeVars, requestVars, listVars, loopVars
<1>11. CASE StopsDone
  <2>1. stack' \in Seq(Frames)
    BY <1>5, <1>6, <1>11 DEF StopsDone
  <2>2. QED
    BY <1>11, <2>1
       DEF StopsDone, TypeOK, slotVars, jobVars, attributeVars, requestVars, listVars, loopVars
<1>12. ASSUME NEW level \in Levels, StartJob(level)
       PROVE  TypeOK'
  <2>1. PICK j \in NextJob(StartOrder[level], Top.i) :
          LET d == Top.dir
              k == StartOrder[level][j]
              f == FileTried(level)
              busy == Running(d, k)
              needy == Needy(f, k)
          IN  /\ GoTo(level, j + 1, IF Top.io # NoFile \/ busy \/ needy THEN f ELSE NoFile)
              /\ IF busy \/ ~needy
                 THEN UNCHANGED << slotVars, jobVars >>
                 ELSE \/ NoSlot(d) /\ UNCHANGED jobVars
                      \/ /\ TakeSlot
                         /\ current' = [current EXCEPT ![<< d, k >>] = f]
                         /\ stale' = stale \ {<< d, k >>}
                         /\ UNCHANGED cancelled
    BY <1>12 DEF StartJob
  <2>. DEFINE k == StartOrder[level][j]
              f == FileTried(level)
  <2>2. j \in Nat /\ k \in Kinds
    BY <2>1, LevelsAre DEF NextJob, StartOrder
  <2>3. f \in Files
    BY <1>12, FileTriedType DEF StartJob, TypeOK
  <2>4. stack' \in Seq(Frames)
    <3>1. level \in Phases /\ j + 1 \in Nat
      BY <1>6, <2>2
    <3>2. (IF Top.io # NoFile \/ Running(Top.dir, k) \/ Needy(f, k) THEN f ELSE NoFile)
            \in Files \cup {NoFile}
      BY <2>3
    <3>3. QED
      BY <1>5, <2>1, <3>1, <3>2
  <2>5. /\ jobs' \in Int /\ jobs' <= MaxAsyncJobs
        /\ waiting' \subseteq Directories /\ waking' \in BOOLEAN
    <3>1. UNCHANGED slotVars \/ NoSlot(Top.dir) \/ TakeSlot
      BY <2>1
    <3>2. QED
      BY <1>3, <3>1, DirectoryAsyncAssumption DEF NoSlot, TakeSlot, TypeOK, slotVars
  <2>6. /\ current' \in [Directories \X Kinds -> Files \cup {NoFile}]
        /\ cancelled' \subseteq Directories \X (Kinds \cap Deferred)
        /\ stale' \subseteq Directories \X Kinds
    BY <1>3, <2>1, <2>2, <2>3 DEF TypeOK, jobVars
  <2>7. QED
    BY <1>12, <2>4, <2>5, <2>6
       DEF StartJob, TypeOK, attributeVars, requestVars, listVars, loopVars
<1>13. ASSUME NEW level \in Levels, FinishHead(level)
       PROVE  TypeOK'
  <2>. DEFINE f == FileTried(level)
  <2>1. stack' \in Seq(Frames)
    BY <1>5, <1>6, <1>13 DEF FinishHead
  <2>2. f \in Files
    BY <1>13, FileTriedType DEF FinishHead, TypeOK
  <2>3. queue' \in [Directories -> [Levels -> Seq(Files)]]
    <3>1. \A l \in Levels : /\ Dequeue(queue[Top.dir][l], f) \in Seq(Files)
                            /\ Enqueue(queue[Top.dir][l], f) \in Seq(Files)
      BY <1>3, <2>2, QueueOps DEF TypeOK
    <3>2. CASE Top.io # NoFile
      BY <1>13, <3>2 DEF FinishHead, TypeOK
    <3>3. CASE Top.io = NoFile
      <4>1. queue' = [queue EXCEPT ![Top.dir] =
                      [l \in Levels |->
                         CASE l = level -> Dequeue(@[l], f)
                           [] << level, l >> \in {<< "high", "low" >>, << "low", "extension" >>}
                                -> Enqueue(@[l], f)
                           [] OTHER ->
                                IF level = "extension" THEN Dequeue(@[l], f) ELSE @[l]]]
        BY <1>13, <3>3 DEF FinishHead
      <4>2. QED
        BY <3>1, <4>1 DEF TypeOK
    <3>4. QED
      BY <3>2, <3>3
  <2>4. QED
    BY <1>13, <2>1, <2>3
       DEF FinishHead, TypeOK, slotVars, jobVars, attributeVars, requestVars, listVars, loopVars
<1>14. ASSUME NEW level \in Levels, NextLevel(level)
       PROVE  TypeOK'
  <2>1. stack' \in Seq(Frames)
    <3>1. \A at : at \in {"low", "extension", "ready"} => at \in Phases
      BY LevelsAre DEF Phases
    <3>2. PICK at \in {"low", "extension", "ready"} : GoTo(at, 1, NoFile)
      BY <1>14 DEF NextLevel
    <3>3. QED
      BY <1>5, <1>6, <3>1, <3>2
  <2>2. QED
    BY <1>14, <2>1
       DEF NextLevel, TypeOK, slotVars, jobVars, attributeVars, requestVars, listVars, loopVars
<1>15. CASE StartExtensionAtOnce
  <2>. DEFINE f == Head(queue[Top.dir].extension)
  <2>1. f \in Files /\ "extension_info" \in Kinds
    BY <1>3, <1>15, LevelsAre DEF StartExtensionAtOnce, TypeOK
  <2>2. stack' \in Seq(Frames)
    <3>1. /\ ServiceAt(Top.dir, "extension", 2, f) \in Frames
          /\ EndJob(Top.dir, "extension_info") \in Frames
          /\ Signal \in Frames
      BY <1>3, <2>1, FramesType, LevelsAre DEF Phases
    <3>2. stack' = << Signal, EndJob(Top.dir, "extension_info"),
                      ServiceAt(Top.dir, "extension", 2, f) >> \o Below
      BY <1>15 DEF StartExtensionAtOnce
    <3>3. QED
      BY <1>3, <3>1, <3>2, Pushes
  <2>3. /\ jobs' \in Int /\ jobs' <= MaxAsyncJobs
        /\ waiting' \subseteq Directories /\ waking' \in BOOLEAN
    BY <1>15, DirectoryAsyncAssumption DEF StartExtensionAtOnce, TakeSlot, TypeOK
  <2>4. /\ outdated' \subseteq Files \X Kinds /\ tainted' \subseteq Files \X Kinds
        /\ stateChanged' \subseteq Directories
    BY <1>3, <1>15 DEF StartExtensionAtOnce, TypeOK
  <2>5. QED
    BY <1>15, <2>2, <2>3, <2>4
       DEF StartExtensionAtOnce, TypeOK, jobVars, requestVars, listVars
<1>16. CASE CallReady
  <2>1. stack' \in Seq(Frames)
    <3>1. << Wake >> \o Below \in Seq(Frames)
      BY <1>3, FramesType, Pushes
    <3>2. QED
      BY <1>5, <1>6, <1>16, <3>1 DEF CallReady
  <2>2. /\ active' \subseteq Requests /\ ready' \subseteq Requests
        /\ idle' \subseteq Directories
        /\ inLoop' \subseteq Directories /\ stateChanged' \subseteq Directories
    BY <1>3, <1>16, ZenonT(60) DEF CallReady, Due, TypeOK
  <2>3. QED
    BY <1>16, <2>1, <2>2
       DEF CallReady, TypeOK, slotVars, jobVars, attributeVars, listVars
<1>17. ASSUME NEW level \in Levels, Skip(level)
       PROVE  TypeOK'
  <2>1. PICK j \in NextJob(StartOrder[level], Top.i) :
          LET d == Top.dir
              k == StartOrder[level][j]
              f == FileTried(level)
              next == ServiceAt(d, level, j + 1, f)
          IN  /\ outdated' = outdated \ {<< f, k >>}
              /\ tainted' = tainted \ {<< f, k >>}
              /\ stack' = << next >> \o Below \/ stack' = << Signal, next >> \o Below
              /\ stateChanged' = stateChanged \cup {d}
    BY <1>17 DEF Skip
  <2>2. j + 1 \in Nat /\ level \in Phases
    BY <1>6, LevelsAre DEF NextJob, StartOrder
  <2>3. ServiceAt(Top.dir, level, j + 1, FileTried(level)) \in Frames /\ Signal \in Frames
    <3>1. FileTried(level) \in Files
      BY <1>17, FileTriedType DEF Skip, TypeOK
    <3>2. QED
      BY <1>3, <2>2, <3>1, FramesType
  <2>4. stack' \in Seq(Frames)
    BY <1>3, <2>1, <2>3, Pushes
  <2>5. /\ outdated' \subseteq Files \X Kinds /\ tainted' \subseteq Files \X Kinds
        /\ stateChanged' \subseteq Directories
    BY <1>3, <2>1 DEF TypeOK
  <2>6. QED
    BY <1>17, <2>4, <2>5
       DEF Skip, TypeOK, slotVars, jobVars, requestVars, listVars
<1>18. QED
  BY <1>7, <1>8, <1>9, <1>10, <1>11, <1>12, <1>13, <1>14, <1>15, <1>16, <1>17

\* Every reachable state is well typed: jobs are for files of the program, no
\* more than MAX_ASYNC_JOBS are ever counted, and every pending call is one the
\* program can make.
THEOREM TypeCorrect == Spec => []TypeOK
<1>1. Init => TypeOK
  <2>1. << >> \in Seq(Frames) /\ << >> \in Seq(Files)
    OBVIOUS
  <2>2. [job \in Directories \X Kinds |-> NoFile]
          \in [Directories \X Kinds -> Files \cup {NoFile}]
    OBVIOUS
  <2>3. [d \in Directories |-> [level \in Levels |-> << >>]]
          \in [Directories -> [Levels -> Seq(Files)]]
    BY <2>1
  <2>4. 0 \in Int /\ 0 <= MaxAsyncJobs /\ 0 \in 0 .. ClientCalls
    BY DirectoryAsyncAssumption
  <2>5. QED
    BY <2>1, <2>2, <2>3, <2>4 DEF Init, TypeOK
<1>2. TypeOK /\ [Next]_vars => TypeOK'
  <2>1. CASE UNCHANGED vars
    BY <2>1 DEF vars, slotVars, jobVars, attributeVars, requestVars, listVars, loopVars, TypeOK
  <2>2. QED
    BY <2>1, MainLoopType, NestedCallType, ServiceLoopType DEF Next, Step
<1>3. QED
  BY <1>1, <1>2, PTL DEF Spec

-----------------------------------------------------------------------------
(* The engine implements the requests of AttributeRequests.                *)

Known == {r \in Requests : UpToDate(r)}

\* What is known depends on nothing but the up-to-date flags.
LEMMA KnownUnchanged ==
  ASSUME UNCHANGED outdated
  PROVE  Known' = Known
BY DEF Known, UpToDate

\* The check of request_is_satisfied is enough: what a satisfied request asks for
\* is up to date, the file info included where another attribute is lacking only
\* once it is there.
LEMMA SatisfiedIsUpToDate ==
  ASSUME TypeOK, NEW r \in Requests, Satisfied(r), r[2] # "extension_info"
  PROVE  UpToDate(r)
<1>1. /\ r[2] \in Kinds
      /\ "extension_info" \notin RequestKinds(r[2])
  BY DirectoryAsyncAssumption DEF RequestKinds
<1>2. \A k \in RequestKinds(r[2]) : ~Lacks(r[1], k)
  BY <1>1 DEF Satisfied
<1>3. << r[1], "file_info" >> \in outdated => "file_info" \in Kinds
  BY DirectoryAsyncAssumption DEF TypeOK
<1>4. ASSUME r[2] \in NeedsInfo
      PROVE  << r[1], "file_info" >> \notin outdated
  BY <1>2, <1>3, <1>4 DEF RequestKinds, AsksInfo, NeedsInfo, Lacks
<1>5. ASSUME NEW k \in RequestKinds(r[2])
      PROVE  << r[1], k >> \notin outdated
  <2>1. k = r[2] \/ k = "file_info"
    BY <1>5 DEF RequestKinds
  <2>2. QED
    BY <1>2, <1>4, <2>1 DEF Lacks, NeedsInfo
<1>6. QED
  BY <1>5 DEF UpToDate

\* A step that leaves the waiting and the due callbacks alone is seen as Learn.
LEMMA LearnStep ==
  ASSUME UNCHANGED << active, ready >>
  PROVE  Service!Next
<1>1. Known' \subseteq Requests
  BY DEF Known
<1>2. Service!Learn
  BY <1>1 DEF Service!Learn, Known
<1>3. QED
  BY <1>2 DEF Service!Next

\* A client's call is seen as Ask, Withdraw or Learn.
LEMMA ClientCallStep ==
  ASSUME NEW rest, ClientCall(rest)
  PROVE  Service!Next
<1>1. ASSUME NEW r \in Requests, CallWhenReady(r[1], r[2], rest)
      PROVE  Service!Next
  <2>1. r = << r[1], r[2] >>
    BY DirectoryAsyncAssumption
  <2>2. Known' = Known
    BY <1>1, KnownUnchanged DEF CallWhenReady, attributeVars
  <2>3. r \notin active /\ active' = active \cup {r} /\ ready' = ready
    BY <1>1, <2>1 DEF CallWhenReady
  <2>4. Service!Ask(r)
    BY <2>2, <2>3 DEF Service!Ask, Known
  <2>5. QED
    BY <2>4 DEF Service!Next
<1>2. ASSUME NEW r \in Requests, CancelCallback(r[1], r[2], rest)
      PROVE  Service!Next
  <2>1. r = << r[1], r[2] >>
    BY DirectoryAsyncAssumption
  <2>2. Known' = Known
    BY <1>2, KnownUnchanged DEF CancelCallback, attributeVars
  <2>3. active' = active \ {r} /\ ready' = ready \ {r}
    BY <1>2, <2>1 DEF CancelCallback
  <2>4. Service!Withdraw(r)
    BY <2>2, <2>3 DEF Service!Withdraw, Known
  <2>5. QED
    BY <2>4 DEF Service!Next
<1>3. CASE UNCHANGED << active, ready >>
  BY <1>3, LearnStep
<1>4. QED
  <2>1. ASSUME NEW r \in Requests,
               MonitorAdd(r[1], r[2], rest) \/ MonitorRemove(r[1], r[2], rest)
        PROVE  UNCHANGED << active, ready >>
    BY <2>1 DEF MonitorAdd, MonitorRemove
  <2>2. ASSUME NEW d \in Listed,
               ListMonitorAdd(d, rest) \/ ListMonitorRemove(d, rest) \/ ForceReload(d, rest)
        PROVE  UNCHANGED << active, ready >>
    BY <2>2 DEF ListMonitorAdd, ListMonitorRemove, ForceReload, requestVars
  <2>3. ASSUME UNCHANGED requestVars
        PROVE  UNCHANGED << active, ready >>
    BY <2>3 DEF requestVars
  <2>4. ASSUME NEW r \in Requests, NotifyFilesChanged(r[1], rest)
        PROVE  UNCHANGED << active, ready >>
    BY <2>4 DEF NotifyFilesChanged, requestVars
  <2>5. QED
    BY <1>1, <1>2, <1>3, <2>1, <2>2, <2>3, <2>4 DEF ClientCall

\* Every step of the engine is a step of the requests or changes neither the
\* waiting nor the due callbacks.
LEMMA EngineStep ==
  ASSUME TypeOK, Next
  PROVE  Service!Next
<1>1. CASE \E rest : ClientCall(rest)
  BY <1>1, ClientCallStep
<1>2. CASE CallOne
  <2>1. PICK r \in ready : ready' = ready \ {r}
    BY <1>2 DEF CallOne
  <2>2. Known' = Known
    BY <1>2, KnownUnchanged DEF CallOne, attributeVars
  <2>3. active' = active
    BY <1>2 DEF CallOne
  <2>4. {r} \in SUBSET Requests
    BY <2>1 DEF TypeOK
  <2>5. Service!Deliver({r})
    BY <2>1, <2>2, <2>3 DEF Service!Deliver, Known
  <2>6. QED
    BY <2>4, <2>5 DEF Service!Next
<1>3. CASE CallReady
  <2>. DEFINE due == Due(Top.dir)
  <2>. DEFINE unpromised == {r \in Requests : r[2] = "extension_info"}
  <2>1. due \subseteq active /\ due \in SUBSET Requests
    BY DEF Due, TypeOK
  <2>6. due \ unpromised \subseteq Known
    BY <2>1, SatisfiedIsUpToDate DEF Due, Known
  <2>2. active' = active \ due /\ ready' = ready \cup due
    BY <1>3 DEF CallReady
  <2>3. Known' = Known
    BY <1>3, KnownUnchanged DEF CallReady, attributeVars
  <2>. HIDE DEF due
  <2>4. Service!Satisfy(due)
    BY <2>1, <2>2, <2>3, <2>6 DEF Service!Satisfy, Known
  <2>5. QED
    BY <2>1, <2>4 DEF Service!Next
<1>4. CASE UNCHANGED << active, ready >>
  BY <1>4, LearnStep
<1>5. QED
  <2>1. CASE MainLoop
    BY <1>1, <1>4, <2>1
       DEF MainLoop, Request, Answer, AnswerCancelled, LoadDone, CallReadyCallbacks,
           DeepCountProgress, requestVars
  <2>2. CASE Step
    <3>1. CASE Handle
      BY <1>1, <1>4, <3>1 DEF Handle, requestVars
    <3>2. CASE Reloading
      BY <1>4, <3>2 DEF Reloading, requestVars
    <3>3. CASE \/ CallNoMore \/ EnqueueFile \/ End \/ MarkOutdated \/ AnnounceLoaded
               \/ UnloadDirectory \/ EndDirectoryLoad \/ ForgetFileList
               \/ WakeUp \/ WakeOne \/ WakeNoMore
      BY <1>4, <3>3
         DEF CallNoMore, EnqueueFile, End, MarkOutdated, AnnounceLoaded, UnloadDirectory,
             EndDirectoryLoad, ForgetFileList, WakeUp, WakeOne, WakeNoMore, requestVars
    <3>4. CASE \/ StateChanged \/ StartFileList \/ StopFileList \/ StopUnwanted \/ StopsDone
               \/ \E level \in Levels : StartJob(level) \/ Skip(level) \/ FinishHead(level) \/ NextLevel(level)
               \/ StartExtensionAtOnce
      BY <1>4, <3>4
         DEF StateChanged, StartFileList, StopFileList, StopUnwanted, StopsDone, StartJob,
             Skip, FinishHead, NextLevel, StartExtensionAtOnce, requestVars
    <3>5. QED
      BY <1>2, <1>3, <2>2, <3>1, <3>2, <3>3, <3>4 DEF Step
  <2>3. QED
    BY <2>1, <2>2 DEF Next

\* The engine calls a callback only after it was asked for, not after it was
\* cancelled, and only after all that it asked for was up to date (the extension
\* info excepted), whatever the interleaving of answers, handlers and nested
\* calls.
THEOREM RequestsImplemented == Spec => ImplementsRequests
<1>1. Init => Service!Init
  BY DEF Init, Service!Init
<1>2. TypeOK /\ [Next]_vars => [Service!Next]_(Service!vars)
  <2>1. CASE UNCHANGED vars
    <3>1. Known' = Known
      BY <2>1, KnownUnchanged DEF vars, attributeVars
    <3>2. QED
      BY <2>1, <3>1 DEF vars, requestVars, Service!vars, Known
  <2>2. QED
    BY <2>1, EngineStep
<1>3. QED
  BY <1>1, <1>2, TypeCorrect, PTL DEF Spec, ImplementsRequests, Service!Spec

-----------------------------------------------------------------------------
(***************************************************************************)
(* The job slots: async_job_count is exact as long as nothing ends a job   *)
(* that was not started.                                                   *)
(***************************************************************************)
(* Counting the ends that are still to come.                               *)

EndsJob(c) == c.op = "end" /\ c.kind \notin SignalsBeforeClear
EndsIn(s) == {i \in DOMAIN s : EndsJob(s[i])}

\* Pushing calls adds up the ends among them.
LEMMA EndsPushed ==
  ASSUME NEW p \in Seq(Frames), NEW s \in Seq(Frames)
  PROVE  /\ IsFiniteSet(EndsIn(s)) /\ Cardinality(EndsIn(s)) \in Nat
         /\ Cardinality(EndsIn(p \o s)) = Cardinality(EndsIn(p)) + Cardinality(EndsIn(s))
<1>1. \A q \in Seq(Frames) : IsFiniteSet(EndsIn(q)) /\ Cardinality(EndsIn(q)) \in Nat
  <2>1. SUFFICES ASSUME NEW q \in Seq(Frames)
                 PROVE  IsFiniteSet(EndsIn(q)) /\ Cardinality(EndsIn(q)) \in Nat
    OBVIOUS
  <2>2. DOMAIN q = 1 .. Len(q) /\ Len(q) \in Nat
    OBVIOUS
  <2>3. IsFiniteSet(1 .. Len(q))
    BY <2>2, FS_Interval
  <2>4. EndsIn(q) \in SUBSET (1 .. Len(q))
    BY <2>2 DEF EndsIn
  <2>5. IsFiniteSet(EndsIn(q))
    BY <2>3, <2>4, FS_Subset
  <2>6. QED
    BY <2>5, FS_CardinalityType
<1>. DEFINE n == Len(p)
            shifted == {i \in DOMAIN (p \o s) : i > n /\ EndsJob((p \o s)[i])}
            shift == [i \in EndsIn(s) |-> i + n]
<1>2. n \in Nat /\ p \o s \in Seq(Frames) /\ Len(p \o s) = n + Len(s) /\ Len(s) \in Nat
  OBVIOUS
<1>3. /\ \A i \in 1 .. n : (p \o s)[i] = p[i]
      /\ \A i \in 1 .. Len(s) : (p \o s)[i + n] = s[i]
  OBVIOUS
<1>4. DOMAIN s = 1 .. Len(s) /\ DOMAIN p = 1 .. n /\ DOMAIN (p \o s) = 1 .. n + Len(s)
  BY <1>2
<1>5. shift \in Bijection(EndsIn(s), shifted)
  <2>1. \A i \in EndsIn(s) : i \in 1 .. Len(s) /\ EndsJob(s[i])
    BY <1>4 DEF EndsIn
  <2>2. ASSUME NEW i \in EndsIn(s) PROVE i + n \in shifted
    <3>1. i \in 1 .. Len(s) /\ EndsJob((p \o s)[i + n])
      BY <1>3, <2>1
    <3>2. i + n \in DOMAIN (p \o s) /\ i + n > n
      BY <1>2, <1>4, <3>1
    <3>3. QED
      BY <3>1, <3>2, Zenon
  <2>3. ASSUME NEW j \in shifted PROVE j - n \in EndsIn(s) /\ j = (j - n) + n
    <3>1. j \in 1 .. n + Len(s) /\ j > n
      BY <1>4, Zenon
    <3>2. j - n \in 1 .. Len(s) /\ j = (j - n) + n
      BY <1>2, <3>1
    <3>3. EndsJob((p \o s)[j])
      BY Zenon
    <3>4. EndsJob(s[j - n])
      BY <1>3, <3>2, <3>3
    <3>5. QED
      BY <1>4, <3>2, <3>4 DEF EndsIn
  <2>4. \A i \in EndsIn(s) : i \in Nat
    BY <2>1, <1>2
  <2>. HIDE DEF shifted
  <2>5. shift \in [EndsIn(s) -> shifted]
    BY <2>2
  <2>6. \A i, j \in EndsIn(s) : shift[i] = shift[j] => i = j
    BY <1>2, <2>4
  <2>7. \A j \in shifted : \E i \in EndsIn(s) : shift[i] = j
    BY <2>3
  <2>8. QED
    BY <2>5, <2>6, <2>7, Zenon DEF Bijection, Injection, Surjection, IsInjective
<1>6. IsFiniteSet(shifted) /\ Cardinality(shifted) = Cardinality(EndsIn(s))
  <2>1. ExistsBijection(EndsIn(s), shifted)
    BY <1>5, Zenon DEF ExistsBijection
  <2>2. QED
    BY <1>1, <2>1, FS_Bijection, Zenon
<1>7. EndsIn(p \o s) = EndsIn(p) \cup shifted /\ EndsIn(p) \cap shifted = {}
  <2>1. \A i \in EndsIn(p) : i \in 1 .. n /\ i \in DOMAIN (p \o s) /\ EndsJob((p \o s)[i])
    BY <1>2, <1>3, <1>4 DEF EndsIn
  <2>2. ASSUME NEW i \in EndsIn(p \o s) PROVE i \in EndsIn(p) \/ i \in shifted
    <3>1. i \in 1 .. n + Len(s) /\ EndsJob((p \o s)[i])
      BY <1>4 DEF EndsIn
    <3>2. CASE i > n
      BY <1>4, <3>1, <3>2
    <3>3. CASE ~(i > n)
      BY <1>2, <1>3, <1>4, <3>1, <3>3 DEF EndsIn
    <3>4. QED
      BY <3>2, <3>3
  <2>3. \A i \in shifted : i \in EndsIn(p \o s) /\ i > n
    BY DEF EndsIn
  <2>. HIDE DEF shifted
  <2>4. \A i \in EndsIn(p) : i \in EndsIn(p \o s)
    BY <2>1 DEF EndsIn
  <2>5. \A i \in EndsIn(p) : ~(i > n)
    BY <1>2, <2>1
  <2>6. QED
    BY <2>2, <2>3, <2>4, <2>5, Zenon
<1>8. Cardinality(EndsIn(p \o s)) = Cardinality(EndsIn(p)) + Cardinality(shifted)
  <2>. HIDE DEF shifted
  <2>1. Cardinality(EndsIn(p) \cap shifted) = 0
    BY <1>7, FS_EmptySet
  <2>2. Cardinality(EndsIn(p)) \in Nat /\ IsFiniteSet(EndsIn(p))
    BY <1>1
  <2>3. Cardinality(shifted) \in Nat
    BY <1>6, FS_CardinalityType
  <2>4. Cardinality(EndsIn(p) \cup shifted)
          = Cardinality(EndsIn(p)) + Cardinality(shifted) - Cardinality(EndsIn(p) \cap shifted)
    BY <1>6, <2>2, FS_Union, Zenon
  <2>5. QED
    BY <1>7, <2>1, <2>2, <2>3, <2>4
<1>9. QED
  BY <1>1, <1>6, <1>8

EndsOf(s) == Cardinality(EndsIn(s))
One(c) == IF EndsJob(c) THEN 1 ELSE 0

\* One call more or less.
LEMMA EndsPushOne ==
  ASSUME NEW s \in Seq(Frames)
  PROVE  /\ EndsOf(s) \in Nat
         /\ \A f \in Frames : EndsOf(<< f >> \o s) = EndsOf(s) + One(f)
         /\ s # << >> => EndsOf(Tail(s)) = EndsOf(s) - One(Head(s))
<1>1. ASSUME NEW f \in Frames PROVE EndsOf(<< f >>) = One(f)
  <2>1. CASE EndsJob(f)
    <3>1. EndsIn(<< f >>) = {1}
      BY <2>1 DEF EndsIn
    <3>2. QED
      BY <2>1, <3>1, FS_Singleton DEF EndsOf, One
  <2>2. CASE ~EndsJob(f)
    <3>1. EndsIn(<< f >>) = {}
      BY <2>2 DEF EndsIn
    <3>2. QED
      BY <2>2, <3>1, FS_EmptySet DEF EndsOf, One
  <2>3. QED
    BY <2>1, <2>2
<1>2. ASSUME NEW t \in Seq(Frames), NEW f \in Frames
      PROVE  EndsOf(<< f >> \o t) = EndsOf(t) + One(f)
  <2>1. << f >> \in Seq(Frames)
    OBVIOUS
  <2>2. EndsOf(t) \in Nat /\ EndsOf(<< f >> \o t) = EndsOf(<< f >>) + EndsOf(t)
    BY <2>1, EndsPushed DEF EndsOf
  <2>3. QED
    BY <1>1, <2>2 DEF One
<1>3. EndsOf(s) \in Nat
  <2>1. << >> \in Seq(Frames)
    OBVIOUS
  <2>2. QED
    BY <2>1, EndsPushed DEF EndsOf
<1>4. ASSUME s # << >> PROVE EndsOf(Tail(s)) = EndsOf(s) - One(Head(s))
  <2>1. Head(s) \in Frames /\ Tail(s) \in Seq(Frames) /\ s = << Head(s) >> \o Tail(s)
    BY <1>4
  <2>2. EndsOf(s) = EndsOf(Tail(s)) + One(Head(s))
    BY <1>2, <2>1
  <2>3. EndsOf(Tail(s)) \in Nat
    BY <2>1, EndsPushed DEF EndsOf
  <2>4. QED
    BY <2>2, <2>3 DEF One
<1>5. QED
  BY <1>2, <1>3, <1>4

\* Calls none of which ends a job.
LEMMA EndsQuiet ==
  ASSUME NEW s \in Seq(Frames), NEW p \in Seq(Frames),
         \A i \in DOMAIN p : ~EndsJob(p[i])
  PROVE  EndsOf(p \o s) = EndsOf(s)
<1>1. EndsIn(p) = {}
  BY DEF EndsIn
<1>2. EndsOf(p) = 0
  BY <1>1, FS_EmptySet DEF EndsOf
<1>3. EndsOf(s) \in Nat
  BY EndsPushOne
<1>4. EndsOf(p \o s) = EndsOf(p) + EndsOf(s)
  BY EndsPushed DEF EndsOf
<1>5. QED
  BY <1>2, <1>3, <1>4

\* The calls that end no job; only EndJob does.
LEMMA QuietCalls ==
  /\ \A d : /\ ~EndsJob(Changed(d)) /\ ~EndsJob(Calling(d)) /\ ~EndsJob(Announce(d))
           /\ ~EndsJob(Unload(d)) /\ ~EndsJob(EndLoad(d)) /\ ~EndsJob(Unlist(d))
           /\ \A at, i, io : ~EndsJob(ServiceAt(d, at, i, io))
           /\ \A step : ~EndsJob(Reload(d, step))
           /\ \A k : EndsJob(EndJob(d, k)) <=> k \notin SignalsBeforeClear
  /\ ~EndsJob(Wake) /\ ~EndsJob(Waking) /\ ~EndsJob(Signal)
  /\ \A f, ks : ~EndsJob(Enqueueing(f)) /\ ~EndsJob(Outdate(f, ks))
BY DEF EndsJob, Changed, Calling, Announce, Unload, EndLoad, Unlist, ServiceAt, Reload,
       EndJob, Wake, Waking, Signal, Enqueueing, Outdate

\* What is pushed in one go.
LEMMA EndsPushes ==
  ASSUME NEW s \in Seq(Frames)
  PROVE  /\ \A f \in Frames : ~EndsJob(f) => EndsOf(<< f >> \o s) = EndsOf(s)
         /\ \A f, g \in Frames :
              ~EndsJob(f) /\ ~EndsJob(g) => EndsOf(<< f, g >> \o s) = EndsOf(s)
         /\ \A d \in Directories, f \in Frames :
              ~EndsJob(f) => EndsOf(EnqueueAll(d) \o << f >> \o s) = EndsOf(s)
<1>1. ASSUME NEW f \in Frames, ~EndsJob(f) PROVE EndsOf(<< f >> \o s) = EndsOf(s)
  BY <1>1, EndsPushOne DEF One
<1>2. ASSUME NEW f \in Frames, NEW g \in Frames, ~EndsJob(f), ~EndsJob(g)
      PROVE  EndsOf(<< f, g >> \o s) = EndsOf(s)
  <2>1. << f, g >> \in Seq(Frames) /\ \A i \in DOMAIN << f, g >> : ~EndsJob(<< f, g >>[i])
    BY <1>2
  <2>2. QED
    BY <2>1, EndsQuiet
<1>3. ASSUME NEW d \in Directories, NEW f \in Frames, ~EndsJob(f)
      PROVE  EndsOf(EnqueueAll(d) \o << f >> \o s) = EndsOf(s)
  <2>1. Listing[d] \in Seq(Files)
    BY DirectoryAsyncAssumption
  <2>2. \A i \in DOMAIN Listing[d] :
          Enqueueing(Listing[d][i]) \in Frames /\ ~EndsJob(Enqueueing(Listing[d][i]))
    <3>1. \A i \in DOMAIN Listing[d] : Listing[d][i] \in Files
      BY <2>1
    <3>2. \A g \in Files : Enqueueing(g) \in Frames /\ ~EndsJob(Enqueueing(g))
      BY FramesType, QuietCalls
    <3>3. QED
      BY <3>1, <3>2
  <2>3. DOMAIN Listing[d] = 1 .. Len(Listing[d]) /\ Len(Listing[d]) \in Nat
    BY <2>1
  <2>4. EnqueueAll(d) \in Seq(Frames) /\ \A i \in DOMAIN EnqueueAll(d) : ~EndsJob(EnqueueAll(d)[i])
    BY <2>2, <2>3 DEF EnqueueAll
  <2>5. << f >> \in Seq(Frames) /\ << f >> \o s \in Seq(Frames)
    OBVIOUS
  <2>6. EnqueueAll(d) \o << f >> \o s = EnqueueAll(d) \o (<< f >> \o s)
    BY <2>4, <2>5
  <2>7. QED
    BY <1>1, <1>3, <2>4, <2>5, <2>6, EndsQuiet, ZenonT(60)
<1>4. QED
  BY <1>1, <1>2, <1>3

\* A stack of one or two calls.
LEMMA EndsShort ==
  /\ << >> \in Seq(Frames) /\ EndsOf(<< >>) = 0
  /\ \A f \in Frames : ~EndsJob(f) => EndsOf(<< f >>) = 0
  /\ \A f, g \in Frames : ~EndsJob(f) /\ ~EndsJob(g) => EndsOf(<< f, g >>) = 0
<1>1. << >> \in Seq(Frames) /\ EndsOf(<< >>) = 0
  <2>1. EndsIn(<< >>) = {}
    BY DEF EndsIn
  <2>2. QED
    BY <2>1, FS_EmptySet DEF EndsOf
<1>2. ASSUME NEW f \in Frames, ~EndsJob(f) PROVE EndsOf(<< f >>) = 0
  <2>1. << f >> = << f >> \o << >>
    OBVIOUS
  <2>2. EndsOf(<< f >> \o << >>) = EndsOf(<< >>)
    BY <1>1, <1>2, EndsPushes
  <2>3. QED
    BY <1>1, <2>1, <2>2
<1>3. ASSUME NEW f \in Frames, NEW g \in Frames, ~EndsJob(f), ~EndsJob(g)
      PROVE  EndsOf(<< f, g >>) = 0
  <2>1. << f, g >> = << f, g >> \o << >>
    OBVIOUS
  <2>2. EndsOf(<< f, g >> \o << >>) = EndsOf(<< >>)
    BY <1>1, <1>3, EndsPushes
  <2>3. QED
    BY <1>1, <2>1, <2>2
<1>4. QED
  BY <1>1, <1>2, <1>3

-----------------------------------------------------------------------------
(* Counting the jobs in progress.                                          *)

Held == {job \in Directories \X Kinds : current[job] # NoFile}

\* JobsExact is inductive together with this: what was cancelled and not yet
\* answered is still in progress.
SlotInv == JobsExact /\ cancelled \subseteq Held

\* What JobsExact says, before and after a step.
LEMMA JobsExactSays ==
  /\ JobsExact <=> jobs = Cardinality(Held) + EndsOf(stack) + Cardinality(loading)
  /\ JobsExact' <=> jobs' = Cardinality(Held') + EndsOf(stack') + Cardinality(loading')
<1>1. Ending = EndsIn(stack) /\ Ending' = EndsIn(stack')
  BY DEF Ending, EndsIn, EndsJob
<1>2. QED
  BY <1>1, Zenon DEF JobsExact, EndsOf, Held

\* The jobs and the loads in progress are finitely many.
LEMMA CountsAreNumbers ==
  ASSUME TypeOK
  PROVE  /\ IsFiniteSet(Held) /\ Cardinality(Held) \in Nat
         /\ IsFiniteSet(loading) /\ Cardinality(loading) \in Nat
         /\ EndsOf(stack) \in Nat
<1>1. IsFiniteSet(Held)
  BY FiniteJobs, FS_Subset DEF Held
<1>2. IsFiniteSet(loading)
  BY FS_Subset, DirectoryAsyncAssumption DEF TypeOK
<1>3. EndsOf(stack) \in Nat
  BY EndsPushOne DEF TypeOK
<1>4. QED
  BY <1>1, <1>2, <1>3, FS_CardinalityType

\* The call on top, when it ends no job, does not count.
LEMMA EndsBelow ==
  ASSUME TypeOK, stack # << >>
  PROVE  /\ Below \in Seq(Frames)
         /\ EndsOf(Below) \in Nat
         /\ Top.op # "end" => EndsOf(Below) = EndsOf(stack)
         /\ Top.op = "end" =>
              EndsOf(Below) = EndsOf(stack) - (IF Top.kind \in SignalsBeforeClear THEN 0 ELSE 1)
<1>1. stack \in Seq(Frames) /\ Below \in Seq(Frames)
  BY DEF TypeOK, Below
<1>2. EndsOf(stack) \in Nat /\ EndsOf(Below) \in Nat
  BY <1>1, EndsPushOne
<1>3. EndsOf(Below) = EndsOf(stack) - One(Top)
  BY <1>1, EndsPushOne DEF Below, Top
<1>4. QED
  BY <1>1, <1>2, <1>3 DEF One, EndsJob

\* Cancelling releases exactly the slots of the jobs it detaches.
LEMMA CancelSlots ==
  ASSUME TypeOK, cancelled \subseteq Held,
         NEW cancels \in SUBSET (Directories \X Kinds),
         NEW invalid \in SUBSET (Directories \X Kinds),
         CancelJobs(cancels, invalid)
  PROVE  /\ jobs' - Cardinality(Held') = jobs - Cardinality(Held)
         /\ cancelled' \subseteq Held'
<1>. DEFINE inProgress == {job \in cancels : current[job] # NoFile}
            detached == {job \in inProgress : job[2] \notin Deferred}
<1>1. detached \subseteq Held /\ inProgress \subseteq Held
  BY DEF Held
<1>2. /\ current' = [job \in Directories \X Kinds |->
                       IF job \in detached THEN NoFile ELSE current[job]]
      /\ cancelled' = cancelled \cup (inProgress \ detached)
      /\ jobs' = jobs - Cardinality(detached)
  BY DEF CancelJobs
<1>3. \A job \in detached : job[2] \notin Deferred
  OBVIOUS
<1>4. \A job \in cancelled : job[2] \in Deferred
  BY DEF TypeOK
<1>. HIDE DEF detached, inProgress
<1>5. Held' = Held \ detached
  BY <1>1, <1>2 DEF Held
<1>6. cancelled' \subseteq Held'
  BY <1>1, <1>2, <1>3, <1>4, <1>5
<1>7. IsFiniteSet(Held) /\ Cardinality(Held) \in Nat
  BY CountsAreNumbers
<1>8. IsFiniteSet(detached) /\ Cardinality(detached) \in Nat
  BY <1>1, <1>7, FS_Subset, FS_CardinalityType
<1>9. Cardinality(Held') = Cardinality(Held) - Cardinality(detached)
  <2>1. Held \cap detached = detached
    BY <1>1
  <2>2. Cardinality(Held \ detached) = Cardinality(Held) - Cardinality(Held \cap detached)
    BY <1>7, FS_Difference, Zenon
  <2>3. QED
    BY <1>5, <2>1, <2>2, Zenon
<1>10. QED
  BY <1>2, <1>6, <1>7, <1>8, <1>9 DEF TypeOK

\* A step that touches no slot.
LEMMA SlotsUntouched ==
  ASSUME SlotInv, UNCHANGED << jobs, current, cancelled, loading >>,
         EndsOf(stack') = EndsOf(stack)
  PROVE  SlotInv'
<1>1. Held' = Held
  BY DEF Held
<1>2. QED
  BY <1>1, JobsExactSays DEF SlotInv

\* So does invalidating attributes.
LEMMA InvalidateSlots ==
  ASSUME TypeOK, cancelled \subseteq Held, NEW rest \in Seq(Frames), NEW f \in Files,
         NEW ks \in SUBSET Kinds, InvalidateAttributes(f, ks, rest)
  PROVE  /\ jobs' - Cardinality(Held') = jobs - Cardinality(Held)
         /\ cancelled' \subseteq Held'
         /\ EndsOf(stack') = EndsOf(rest)
<1>. DEFINE jobsOf == {job \in {Home[f]} \X RequestedBy(ks) : current[job] = f}
            cancels == {job \in jobsOf : job[2] # "extension_info"}
            invalid == {job \in jobsOf : job[2] # "filesystem_info"}
<1>1. Home[f] \in Directories
  BY DirectoryAsyncAssumption
<1>2. RequestedBy(ks) \in SUBSET Kinds
  BY DEF RequestedBy, RequestKinds
<1>3. cancels \in SUBSET (Directories \X Kinds) /\ invalid \in SUBSET (Directories \X Kinds)
  BY <1>1, <1>2
<1>4. /\ CancelJobs(cancels, invalid)
      /\ stack' = << Changed(Home[f]), Outdate(f, RequestedBy(ks)) >> \o rest
  BY DEF InvalidateAttributes
<1>5. Changed(Home[f]) \in Frames /\ Outdate(f, RequestedBy(ks)) \in Frames
  BY <1>1, <1>2, FramesType
<1>6. EndsOf(stack') = EndsOf(rest)
  BY <1>4, <1>5, QuietCalls, EndsPushes
<1>7. jobs' - Cardinality(Held') = jobs - Cardinality(Held) /\ cancelled' \subseteq Held'
  <2>. HIDE DEF cancels, invalid
  <2>1. QED
    BY <1>3, <1>4, CancelSlots
<1>8. QED
  BY <1>6, <1>7

\* A client's call releases the slots of what it cancels, and ends nothing else.
LEMMA ClientCallSlots ==
  ASSUME TypeOK, cancelled \subseteq Held, NEW rest \in Seq(Frames), ClientCall(rest)
  PROVE  /\ jobs' - Cardinality(Held') = jobs - Cardinality(Held)
         /\ cancelled' \subseteq Held'
         /\ EndsOf(stack') = EndsOf(rest)
         /\ loading' = loading
<1>1. \A r \in Requests : r[1] \in Files /\ r[2] \in Kinds /\ Home[r[1]] \in Directories
  BY DirectoryAsyncAssumption
<1>2. ASSUME NEW d \in Directories
      PROVE  Changed(d) \in Frames /\ ~EndsJob(Changed(d))
  BY FramesType, QuietCalls
<1>3. ASSUME NEW r \in Requests,
             \/ MonitorAdd(r[1], r[2], rest) \/ MonitorRemove(r[1], r[2], rest)
             \/ CallWhenReady(r[1], r[2], rest) \/ CancelCallback(r[1], r[2], rest)
      PROVE  /\ UNCHANGED << jobs, current, cancelled, loading >>
             /\ EndsOf(stack') = EndsOf(rest)
  <2>1. UNCHANGED << jobs, current, cancelled, loading >> /\ stack' = << Changed(Home[r[1]]) >> \o rest
    BY <1>3 DEF MonitorAdd, MonitorRemove, CallWhenReady, CancelCallback, slotVars, jobVars,
                listVars
  <2>2. QED
    BY <1>1, <1>2, <2>1, EndsPushes
<1>4. ASSUME NEW d \in Listed, ListMonitorAdd(d, rest) \/ ListMonitorRemove(d, rest)
      PROVE  /\ UNCHANGED << jobs, current, cancelled, loading >>
             /\ EndsOf(stack') = EndsOf(rest)
  <2>1. d \in Directories
    BY DirectoryAsyncAssumption
  <2>2. /\ UNCHANGED << jobs, current, cancelled, loading >>
        /\ \/ stack' = << Changed(d) >> \o rest
           \/ stack' = EnqueueAll(d) \o << Changed(d) >> \o rest
    BY <1>4 DEF ListMonitorAdd, ListMonitorRemove, slotVars, jobVars, listVars
  <2>3. /\ EndsOf(<< Changed(d) >> \o rest) = EndsOf(rest)
        /\ EndsOf(EnqueueAll(d) \o << Changed(d) >> \o rest) = EndsOf(rest)
    BY <1>2, <2>1, EndsPushes
  <2>4. QED
    BY <2>2, <2>3, Zenon
<1>5. ASSUME NEW d \in Listed, ForceReload(d, rest)
      PROVE  /\ jobs' - Cardinality(Held') = jobs - Cardinality(Held)
             /\ cancelled' \subseteq Held'
             /\ EndsOf(stack') = EndsOf(rest)
             /\ loading' = loading
  <2>. DEFINE jobsOf == {job \in {d} \X ReloadedKinds : current[job] # NoFile}
  <2>1. d \in Directories
    BY DirectoryAsyncAssumption
  <2>2. jobsOf \in SUBSET (Directories \X Kinds)
    BY <2>1 DEF ReloadedKinds
  <2>3. CancelJobs(jobsOf, jobsOf) /\ loading' = loading
    BY <1>5 DEF ForceReload, listVars
  <2>4. stack' = << Changed(d), Reload(d, 1) >> \o rest
    BY <1>5 DEF ForceReload
  <2>5. Changed(d) \in Frames /\ Reload(d, 1) \in Frames
    BY <2>1, FramesType
  <2>6. EndsOf(stack') = EndsOf(rest)
    BY <2>4, <2>5, QuietCalls, EndsPushes
  <2>7. QED
    BY <2>2, <2>3, <2>6, CancelSlots
<1>6. ASSUME NEW r \in Requests, InvalidateAttributes(r[1], {r[2]}, rest), loading' = loading
      PROVE  /\ jobs' - Cardinality(Held') = jobs - Cardinality(Held)
             /\ cancelled' \subseteq Held'
             /\ EndsOf(stack') = EndsOf(rest)
  BY <1>1, <1>6, InvalidateSlots
<1>7. ASSUME NEW r \in Requests, NotifyFilesChanged(r[1], rest)
      PROVE  /\ UNCHANGED << jobs, current, cancelled, loading >>
             /\ EndsOf(stack') = EndsOf(rest)
  <2>1. /\ UNCHANGED << jobs, current, cancelled, loading >>
        /\ stack' = << Changed(Home[r[1]]), Signal >> \o rest
    BY <1>7 DEF NotifyFilesChanged, slotVars, listVars
  <2>2. Signal \in Frames /\ ~EndsJob(Signal)
    BY FramesType, QuietCalls
  <2>3. QED
    BY <1>1, <1>2, <2>1, <2>2, EndsPushes
<1>8. UNCHANGED << jobs, current, cancelled >> =>
        /\ jobs' - Cardinality(Held') = jobs - Cardinality(Held)
        /\ cancelled' \subseteq Held'
  BY DEF Held
<1>9. QED
  BY <1>3, <1>4, <1>5, <1>6, <1>7, <1>8 DEF ClientCall, listVars

\* The jobs in progress after a step are finitely many too.
LEMMA HeldNext == Cardinality(Held') \in Nat
<1>1. IsFiniteSet(Held')
  BY FiniteJobs, FS_Subset DEF Held
<1>2. QED
  BY <1>1, FS_CardinalityType

\* A job that is over is one job less.
LEMMA JobCleared ==
  ASSUME NEW d \in Directories, NEW k \in Kinds, << d, k >> \in Held, IsFiniteSet(Held),
         TypeOK, current' = [current EXCEPT ![<< d, k >>] = NoFile]
  PROVE  Held' = Held \ {<< d, k >>} /\ Cardinality(Held') = Cardinality(Held) - 1
<1>1. << d, k >> \in Directories \X Kinds
  OBVIOUS
<1>2. current \in [Directories \X Kinds -> Files \cup {NoFile}]
  BY DEF TypeOK
<1>3. Held' = Held \ {<< d, k >>}
  BY <1>1, <1>2 DEF Held
<1>4. QED
  BY <1>3, FS_RemoveElement

\* The events of the main loop: an answer clears its job and either releases its
\* slot or leaves that to an end still to come.
LEMMA MainLoopSlots ==
  ASSUME TypeOK, SlotInv, MainLoop
  PROVE  SlotInv'
<1>1. /\ IsFiniteSet(Held) /\ Cardinality(Held) \in Nat /\ Cardinality(loading) \in Nat
      /\ jobs \in Int /\ cancelled \subseteq Held
      /\ jobs = Cardinality(Held) + EndsOf(stack) + Cardinality(loading)
  BY CountsAreNumbers, JobsExactSays DEF SlotInv, TypeOK
<1>2. << >> \in Seq(Frames) /\ EndsOf(<< >>) = 0
  BY EndsShort
<1>3. CASE Request
  <2>1. stack = << >> /\ ClientCall(<< >>)
    BY <1>3 DEF Request, Rest
  <2>2. /\ jobs' - Cardinality(Held') = jobs - Cardinality(Held)
        /\ cancelled' \subseteq Held' /\ EndsOf(stack') = 0 /\ loading' = loading
    BY <1>1, <1>2, <2>1, ClientCallSlots
  <2>3. jobs' \in Int /\ Cardinality(Held') \in Nat
    BY <1>3, MainLoopType, MainLoopType, HeldNext DEF TypeOK
  <2>4. QED
    BY <1>1, <1>2, <2>1, <2>2, <2>3, JobsExactSays DEF SlotInv
<1>4. ASSUME NEW d \in Directories, NEW k \in Kinds, Answer(d, k)
      PROVE  SlotInv'
  <2>1. /\ stack = << >> /\ << d, k >> \in Held /\ << d, k >> \notin cancelled
        /\ cancelled' = cancelled /\ loading' = loading
    BY <1>4 DEF Answer, Rest, Held, Running, listVars
  <2>2. EndsOf(stack) = 0
    BY <1>2, <2>1
  <2>3. Signal \in Frames /\ Changed(d) \in Frames /\ EndJob(d, k) \in Frames
    BY FramesType
  <2>4. EndsOf(<< Changed(d) >>) = 0 /\ EndsOf(<< Changed(d), Signal >>) = 0
    <3>1. ~EndsJob(Changed(d)) /\ ~EndsJob(Signal)
      BY QuietCalls
    <3>2. QED
      BY <2>3, <3>1, EndsShort
  <2>5. EndsOf(<< Signal, EndJob(d, k), Changed(d) >>)
          = IF k \in SignalsBeforeClear THEN 0 ELSE 1
    <3>1. << EndJob(d, k), Changed(d) >> \in Seq(Frames) /\ << Changed(d) >> \in Seq(Frames)
      BY <2>3
    <3>2. << EndJob(d, k), Changed(d) >> = << EndJob(d, k) >> \o << Changed(d) >>
          /\ << Signal, EndJob(d, k), Changed(d) >> = << Signal >> \o << EndJob(d, k), Changed(d) >>
      OBVIOUS
    <3>3. EndsOf(<< EndJob(d, k), Changed(d) >>) = 0 + One(EndJob(d, k))
      BY <2>3, <2>4, <3>1, <3>2, EndsPushOne
    <3>4. EndsOf(<< Signal, EndJob(d, k), Changed(d) >>) = EndsOf(<< EndJob(d, k), Changed(d) >>)
      <4>1. ~EndsJob(Signal)
        BY QuietCalls
      <4>2. EndsOf(<< Signal >> \o << EndJob(d, k), Changed(d) >>)
              = EndsOf(<< EndJob(d, k), Changed(d) >>)
        BY <2>3, <3>1, <4>1, EndsPushes
      <4>3. QED
        BY <3>2, <4>2
    <3>5. QED
      BY <3>3, <3>4, QuietCalls DEF One
  <2>6. CASE k \in SignalsBeforeClear
    <3>1. /\ UNCHANGED << jobs, current >>
          /\ stack' = << Signal, EndJob(d, k), Changed(d) >>
      BY <1>4, <2>6, JobsAre DEF Answer
    <3>2. QED
      BY <2>1, <2>2, <2>5, <2>6, <3>1, SlotsUntouched
  <2>7. CASE k \notin SignalsBeforeClear
    <3>1. current' = [current EXCEPT ![<< d, k >>] = NoFile]
      BY <1>4, <2>7 DEF Answer
    <3>2. Held' = Held \ {<< d, k >>} /\ Cardinality(Held') = Cardinality(Held) - 1
      BY <1>1, <2>1, <3>1, JobCleared
    <3>3. \/ jobs' = jobs /\ EndsOf(stack') = 1
          \/ jobs' = jobs - 1 /\ EndsOf(stack') = 0
      <4>1. EndsOf(<< Signal, Signal, EndJob(d, k), Changed(d) >>)
              = EndsOf(<< Signal, EndJob(d, k), Changed(d) >>)
        <5>. DEFINE t == << Signal, EndJob(d, k), Changed(d) >>
        <5>1. t \in Seq(Frames)
          BY <2>3
        <5>2. << Signal, Signal, EndJob(d, k), Changed(d) >> = << Signal >> \o t
          OBVIOUS
        <5>3. ~EndsJob(Signal)
          BY QuietCalls
        <5>. HIDE DEF t
        <5>4. EndsOf(<< Signal >> \o t) = EndsOf(t)
          BY <2>3, <5>1, <5>3, EndsPushes
        <5>5. QED
          BY <5>2, <5>4 DEF t
      <4>2. \/ jobs' = jobs /\ stack' = << Signal, EndJob(d, k), Changed(d) >>
            \/ jobs' = jobs /\ stack' = << Signal, Signal, EndJob(d, k), Changed(d) >>
            \/ jobs' = jobs - 1 /\ stack' = << Changed(d), Signal >>
        BY <1>4, <2>7 DEF Answer
      <4>3. QED
        BY <2>4, <2>5, <2>7, <4>1, <4>2
    <3>4. cancelled' \subseteq Held'
      BY <1>1, <2>1, <3>2
    <3>5. QED
      BY <1>1, <2>1, <2>2, <3>2, <3>3, <3>4, JobsExactSays DEF SlotInv
  <2>8. QED
    BY <2>6, <2>7
<1>5. ASSUME NEW d \in Directories, NEW k \in Kinds, AnswerCancelled(d, k)
      PROVE  SlotInv'
  <2>1. /\ stack = << >> /\ << d, k >> \in Held /\ << d, k >> \in cancelled
        /\ cancelled' = cancelled \ {<< d, k >>} /\ loading' = loading /\ jobs' = jobs - 1
        /\ stack' = << Changed(d) >>
        /\ current' = [current EXCEPT ![<< d, k >>] = NoFile]
    BY <1>1, <1>5 DEF AnswerCancelled, Rest, listVars
  <2>2. Held' = Held \ {<< d, k >>} /\ Cardinality(Held') = Cardinality(Held) - 1
    BY <1>1, <2>1, JobCleared
  <2>3. Changed(d) \in Frames /\ ~EndsJob(Changed(d))
    BY FramesType, QuietCalls
  <2>4. EndsOf(stack) = 0 /\ EndsOf(stack') = 0
    BY <1>2, <2>1, <2>3, EndsShort
  <2>5. QED
    BY <1>1, <2>1, <2>2, <2>4, JobsExactSays DEF SlotInv
<1>6. ASSUME NEW d \in Directories, LoadDone(d)
      PROVE  SlotInv'
  <2>1. /\ UNCHANGED << jobs, current, cancelled, loading >> /\ stack = << >>
        /\ stack' = << Signal, Announce(d), Changed(d), Unload(d) >>
    BY <1>6 DEF LoadDone, Rest, slotVars, jobVars
  <2>2. /\ stack' \in Seq(Frames) /\ stack' = stack' \o << >>
        /\ \A i \in DOMAIN stack' : ~EndsJob(stack'[i])
    BY <2>1, FramesType, QuietCalls
  <2>3. EndsOf(stack') = EndsOf(stack)
    BY <1>2, <2>1, <2>2, EndsQuiet
  <2>4. QED
    BY <2>1, <2>3, SlotsUntouched
<1>7. ASSUME NEW d \in Directories, CallReadyCallbacks(d)
      PROVE  SlotInv'
  <2>1. /\ UNCHANGED << jobs, current, cancelled, loading >> /\ stack = << >>
        /\ stack' = << Calling(d) >>
    BY <1>7 DEF CallReadyCallbacks, Rest, slotVars, jobVars, listVars
  <2>2. Calling(d) \in Frames /\ ~EndsJob(Calling(d))
    BY FramesType, QuietCalls
  <2>3. EndsOf(stack') = EndsOf(stack)
    BY <1>2, <2>1, <2>2, EndsShort
  <2>4. QED
    BY <2>1, <2>3, SlotsUntouched
<1>8. ASSUME NEW d \in Directories, DeepCountProgress(d)
      PROVE  SlotInv'
  <2>1. /\ UNCHANGED << jobs, current, cancelled, loading >> /\ stack = << >>
        /\ stack' = << Signal >>
    BY <1>8 DEF DeepCountProgress, Rest, slotVars, jobVars, listVars
  <2>2. Signal \in Frames /\ ~EndsJob(Signal)
    BY FramesType, QuietCalls
  <2>3. EndsOf(stack') = EndsOf(stack)
    BY <1>2, <2>1, <2>2, EndsShort
  <2>4. QED
    BY <2>1, <2>3, SlotsUntouched
<1>9. QED
  BY <1>3, <1>4, <1>5, <1>6, <1>7, <1>8 DEF MainLoop

\* Calls pushed one after the other or together.
LEMMA PushedTogether ==
  ASSUME NEW s \in Seq(Frames), NEW f \in Frames, NEW g \in Frames
  PROVE  << f >> \o << g >> \o s = << f, g >> \o s /\ << >> \o << g >> \o s = << g >> \o s
<1>1. << f >> \o << g >> = << f, g >>
  <2>1. << f >> \in Seq(Frames) /\ << g >> \in Seq(Frames) /\ << f, g >> \in Seq(Frames)
    OBVIOUS
  <2>2. << f >> \o << g >> \in Seq(Frames) /\ Len(<< f >> \o << g >>) = 2
    BY <2>1
  <2>3. (<< f >> \o << g >>)[1] = f /\ (<< f >> \o << g >>)[2] = g
    BY <2>1
  <2>. DEFINE p == << f >> \o << g >>
  <2>. HIDE DEF p
  <2>4. p \in Seq(Frames) /\ Len(p) = 2 /\ p[1] = f /\ p[2] = g
    BY <2>2, <2>3 DEF p
  <2>5. p = << f, g >>
    BY <2>1, <2>4
  <2>6. QED
    BY <2>5 DEF p
<1>2. << g >> = << >> \o << g >>
  OBVIOUS
<1>3. QED
  BY <1>1, <1>2

\* Three calls pushed together or in turn.
LEMMA PushedInTurn ==
  ASSUME NEW s \in Seq(Frames), NEW f \in Frames, NEW g \in Frames, NEW h \in Frames
  PROVE  << f, g, h >> \o s = << f >> \o (<< g >> \o (<< h >> \o s))
<1>. DEFINE p == << f, g, h >> \o s
            q == << f >> \o (<< g >> \o (<< h >> \o s))
<1>1. /\ << h >> \o s \in Seq(Frames) /\ Len(<< h >> \o s) = Len(s) + 1
      /\ (<< h >> \o s)[1] = h /\ \A i \in 1 .. Len(s) : (<< h >> \o s)[i + 1] = s[i]
  OBVIOUS
<1>2. /\ << g >> \o (<< h >> \o s) \in Seq(Frames)
      /\ Len(<< g >> \o (<< h >> \o s)) = Len(s) + 2
      /\ (<< g >> \o (<< h >> \o s))[1] = g /\ (<< g >> \o (<< h >> \o s))[2] = h
      /\ \A i \in 1 .. Len(s) : (<< g >> \o (<< h >> \o s))[i + 2] = s[i]
  BY <1>1
<1>3. /\ q \in Seq(Frames) /\ Len(q) = Len(s) + 3
      /\ q[1] = f /\ q[2] = g /\ q[3] = h
      /\ \A i \in 1 .. Len(s) : q[i + 3] = s[i]
  BY <1>2
<1>4. /\ p \in Seq(Frames) /\ Len(p) = Len(s) + 3
      /\ p[1] = f /\ p[2] = g /\ p[3] = h
      /\ \A i \in 1 .. Len(s) : p[i + 3] = s[i]
  OBVIOUS
<1>. HIDE DEF p, q
<1>5. \A i \in 1 .. Len(p) : i = 1 \/ i = 2 \/ i = 3 \/ (i - 3 \in 1 .. Len(s) /\ i = (i - 3) + 3)
  BY <1>4
<1>6. \A i \in 1 .. Len(p) : p[i] = q[i]
  BY <1>3, <1>4, <1>5
<1>7. p = q
  BY <1>3, <1>4, <1>6, SMTT(30)
<1>8. QED
  BY <1>7 DEF p, q

\* The calls on the stack that touch no slot: they take themselves off the stack
\* and push calls that end no job.
LEMMA QuietSlots ==
  ASSUME TypeOK, SlotInv,
         \/ CallOne \/ CallNoMore \/ EnqueueFile \/ MarkOutdated \/ AnnounceLoaded
         \/ UnloadDirectory \/ ForgetFileList \/ WakeUp \/ WakeOne \/ WakeNoMore
         \/ StateChanged \/ StopFileList \/ StopsDone \/ CallReady
         \/ \E level \in Levels : Skip(level) \/ FinishHead(level) \/ NextLevel(level)
  PROVE  SlotInv'
<1>1. stack \in Seq(Frames) /\ stack # << >>
  BY ZenonT(60) DEF TypeOK, CallOne, CallNoMore, EnqueueFile, MarkOutdated, AnnounceLoaded,
         UnloadDirectory, ForgetFileList, WakeUp, WakeOne, WakeNoMore, StateChanged,
         StopFileList, StopsDone, CallReady, Skip, FinishHead, NextLevel, AtPhase, Pending
<1>2. Top.op # "end"
  BY ZenonT(60) DEF CallOne, CallNoMore, EnqueueFile, MarkOutdated, AnnounceLoaded,
         UnloadDirectory, ForgetFileList, WakeUp, WakeOne, WakeNoMore, StateChanged,
         StopFileList, StopsDone, CallReady, Skip, FinishHead, NextLevel, AtPhase, Pending
<1>3. Below \in Seq(Frames) /\ EndsOf(Below) = EndsOf(stack)
  BY <1>1, <1>2, EndsBelow
<1>4. UNCHANGED << jobs, current, cancelled, loading >>
  BY DEF CallOne, CallNoMore, EnqueueFile, MarkOutdated, AnnounceLoaded,
         UnloadDirectory, ForgetFileList, WakeUp, WakeOne, WakeNoMore, StateChanged,
         StopFileList, StopsDone, CallReady, Skip, FinishHead, NextLevel, slotVars, jobVars,
         listVars
<1>5. \A f \in Frames : ~EndsJob(f) => EndsOf(<< f >> \o Below) = EndsOf(stack)
  BY <1>3, EndsPushes
<1>6. \A f, g \in Frames : ~EndsJob(f) /\ ~EndsJob(g) => EndsOf(<< f, g >> \o Below) = EndsOf(stack)
  BY <1>3, EndsPushes
<1>7. ASSUME NEW d \in Directories
      PROVE  /\ EndsOf(<< Changed(d) >> \o Below) = EndsOf(stack)
             /\ EndsOf(<< Changed(d) >> \o stack) = EndsOf(stack)
             /\ EndsOf(<< Signal, Changed(d) >> \o Below) = EndsOf(stack)
             /\ \A at \in Phases, i \in Nat, io \in Files \cup {NoFile} :
                  EndsOf(<< ServiceAt(d, at, i, io) >> \o Below) = EndsOf(stack)
  <2>1. Changed(d) \in Frames /\ ~EndsJob(Changed(d)) /\ Signal \in Frames /\ ~EndsJob(Signal)
    BY FramesType, QuietCalls
  <2>2. \A at \in Phases, i \in Nat, io \in Files \cup {NoFile} :
          ServiceAt(d, at, i, io) \in Frames /\ ~EndsJob(ServiceAt(d, at, i, io))
    BY FramesType, QuietCalls
  <2>3. EndsOf(<< Changed(d) >> \o stack) = EndsOf(stack)
    BY <1>1, <2>1, EndsPushes
  <2>4. QED
    BY <1>5, <1>6, <2>1, <2>2, <2>3
<1>8. \A d \in Directories : Home[Corresponding[d]] \in Directories
  BY DirectoryAsyncAssumption
<1>9. EndsOf(stack') = EndsOf(stack)
  <2>1. CASE CallOne
    <3>1. Signal \in Frames /\ ~EndsJob(Signal)
      BY FramesType, QuietCalls
    <3>2. EndsOf(<< Signal >> \o stack) = EndsOf(stack)
      BY <1>1, <3>1, EndsPushes
    <3>3. QED
      BY <2>1, <3>2 DEF CallOne
  <2>2. CASE CallNoMore
    BY <1>1, <1>7, <2>2, TopType DEF CallNoMore, Pending
  <2>3. CASE EnqueueFile \/ ForgetFileList \/ WakeNoMore
    BY <1>3, <2>3 DEF EnqueueFile, ForgetFileList, WakeNoMore
  <2>4. CASE MarkOutdated
    <3>1. Home[Top.file] \in Directories
      BY <1>1, <2>4, TopType, DirectoryAsyncAssumption DEF MarkOutdated, Pending
    <3>2. QED
      BY <1>7, <2>4, <3>1 DEF MarkOutdated
  <2>5. CASE AnnounceLoaded
    <3>1. Top.dir \in Directories
      BY <1>1, <2>5, TopType DEF AnnounceLoaded, Pending
    <3>2. stack' = << Signal, Changed(Top.dir) >> \o Below \/ stack' = Below
      BY <2>5 DEF AnnounceLoaded
    <3>3. QED
      BY <1>3, <1>7, <3>1, <3>2, Zenon
  <2>6. CASE UnloadDirectory
    <3>1. Top.dir \in Directories
      BY <1>1, <2>6, TopType DEF UnloadDirectory, Pending
    <3>. DEFINE e == EndLoad(Top.dir)
                c == Changed(Home[Corresponding[Top.dir]])
    <3>2. e \in Frames /\ c \in Frames /\ ~EndsJob(e) /\ ~EndsJob(c)
      BY <1>8, <3>1, FramesType, QuietCalls
    <3>3. \/ stack' = << c >> \o << e >> \o Below
          \/ stack' = << >> \o << e >> \o Below
          \/ stack' = Below
      BY <2>6 DEF UnloadDirectory
    <3>. HIDE DEF e, c
    <3>4. /\ << c >> \o << e >> \o Below = << c, e >> \o Below
          /\ << >> \o << e >> \o Below = << e >> \o Below
      BY <1>3, <3>2, PushedTogether
    <3>5. /\ EndsOf(<< c, e >> \o Below) = EndsOf(stack)
          /\ EndsOf(<< e >> \o Below) = EndsOf(stack)
      BY <1>5, <1>6, <3>2
    <3>6. QED
      BY <1>3, <3>3, <3>4, <3>5, ZenonT(60)
  <2>7. CASE WakeUp
    <3>1. Waking \in Frames /\ ~EndsJob(Waking)
      BY FramesType, QuietCalls
    <3>2. stack' = Below \/ stack' = << Waking >> \o Below
      BY <2>7 DEF WakeUp
    <3>3. QED
      BY <1>3, <1>5, <3>1, <3>2, Zenon
  <2>8. CASE WakeOne
    <3>1. PICK d \in waiting : stack' = << Changed(d) >> \o stack
      BY <2>8 DEF WakeOne
    <3>2. d \in Directories
      BY <3>1 DEF TypeOK
    <3>3. QED
      BY <1>7, <3>1, <3>2
  <2>9. CASE StateChanged
    <3>1. Top.dir \in Directories
      BY <1>1, <2>9, TopType DEF StateChanged, Pending
    <3>2. stack' = Below \/ stack' = << ServiceAt(Top.dir, "list", 1, NoFile) >> \o Below
      BY <2>9 DEF StateChanged, GoTo
    <3>3. "list" \in Phases /\ 1 \in Nat /\ NoFile \in Files \cup {NoFile}
      BY DEF Phases
    <3>4. QED
      BY <1>3, <1>7, <3>1, <3>2, <3>3, Zenon
  <2>10. CASE StopFileList
    <3>1. Top.dir \in Directories
      BY <1>1, <2>10, TopType DEF StopFileList, AtPhase, Pending
    <3>. DEFINE t == << ServiceAt(Top.dir, "stop", 1, NoFile) >> \o Below
    <3>2. "stop" \in Phases /\ 1 \in Nat /\ NoFile \in Files \cup {NoFile}
      BY DEF Phases
    <3>3. t \in Seq(Frames) /\ EndsOf(t) = EndsOf(stack)
      <4>1. ServiceAt(Top.dir, "stop", 1, NoFile) \in Frames
        BY <3>1, <3>2, FramesType
      <4>2. t \in Seq(Frames)
        BY <1>3, <4>1, Pushes
      <4>3. QED
        BY <1>7, <3>1, <3>2, <4>2
    <3>4. stack' = t \/ stack' = << Unload(Top.dir), Unlist(Top.dir) >> \o t
      BY <2>10 DEF StopFileList
    <3>. HIDE DEF t
    <3>5. /\ Unload(Top.dir) \in Frames /\ Unlist(Top.dir) \in Frames
          /\ ~EndsJob(Unload(Top.dir)) /\ ~EndsJob(Unlist(Top.dir))
      BY <3>1, FramesType, QuietCalls
    <3>6. EndsOf(<< Unload(Top.dir), Unlist(Top.dir) >> \o t) = EndsOf(t)
      BY <3>3, <3>5, EndsPushes
    <3>7. QED
      BY <3>3, <3>4, <3>6, Zenon
  <2>11. CASE StopsDone \/ CallReady \/ \E level \in Levels : FinishHead(level) \/ NextLevel(level)
    <3>1. Top.dir \in Directories
      BY <1>1, <2>11, TopType DEF StopsDone, CallReady, FinishHead, NextLevel, AtPhase, Pending
    <3>2. Wake \in Frames /\ ~EndsJob(Wake)
      BY FramesType, QuietCalls
    <3>3. \/ \E at \in Phases : stack' = << ServiceAt(Top.dir, at, 1, NoFile) >> \o Below
          \/ stack' = << Wake >> \o Below
      BY <2>11, LevelsAre DEF StopsDone, CallReady, FinishHead, NextLevel, GoTo, Phases
    <3>4. 1 \in Nat /\ NoFile \in Files \cup {NoFile}
      OBVIOUS
    <3>5. /\ EndsOf(<< Wake >> \o Below) = EndsOf(stack)
          /\ \A at \in Phases : EndsOf(<< ServiceAt(Top.dir, at, 1, NoFile) >> \o Below) = EndsOf(stack)
      BY <1>5, <1>7, <3>1, <3>2, <3>4
    <3>6. QED
      BY <3>3, <3>5, ZenonT(60)
  <2>12. ASSUME NEW level \in Levels, Skip(level)
         PROVE  EndsOf(stack') = EndsOf(stack)
    <3>1. Top.dir \in Directories
      BY <1>1, <2>12, TopType DEF Skip, AtPhase, Pending
    <3>. DEFINE f == FileTried(level)
    <3>2. PICK j \in NextJob(StartOrder[level], Top.i) :
            \/ stack' = << ServiceAt(Top.dir, level, j + 1, f) >> \o Below
            \/ stack' = << Signal, ServiceAt(Top.dir, level, j + 1, f) >> \o Below
      BY <2>12 DEF Skip
    <3>3. j + 1 \in Nat /\ level \in Phases /\ f \in Files
      <4>1. f \in Files
        BY <2>12, FileTriedType DEF Skip, TypeOK
      <4>2. j + 1 \in Nat /\ level \in Phases
        BY LevelsAre DEF NextJob, StartOrder, Phases
      <4>3. QED
        BY <4>1, <4>2
    <3>. HIDE DEF f
    <3>4. /\ Signal \in Frames /\ ~EndsJob(Signal)
          /\ ServiceAt(Top.dir, level, j + 1, f) \in Frames
          /\ ~EndsJob(ServiceAt(Top.dir, level, j + 1, f))
      BY <3>1, <3>3, FramesType, QuietCalls
    <3>5. /\ EndsOf(<< ServiceAt(Top.dir, level, j + 1, f) >> \o Below) = EndsOf(stack)
          /\ EndsOf(<< Signal, ServiceAt(Top.dir, level, j + 1, f) >> \o Below) = EndsOf(stack)
      BY <1>5, <1>6, <3>4
    <3>6. QED
      BY <3>2, <3>5, Zenon
  <2>13. QED
    BY <2>1, <2>2, <2>3, <2>4, <2>5, <2>6, <2>7, <2>8, <2>9, <2>10, <2>11, <2>12
<1>10. QED
  BY <1>4, <1>9, SlotsUntouched

\* A slot is taken for exactly one job more.
LEMMA JobBegun ==
  ASSUME TypeOK, NEW d \in Directories, NEW k \in Kinds, NEW f \in Files,
         << d, k >> \notin Held, current' = [current EXCEPT ![<< d, k >>] = f]
  PROVE  Held' = Held \cup {<< d, k >>} /\ Cardinality(Held') = Cardinality(Held) + 1
<1>1. << d, k >> \in Directories \X Kinds
  OBVIOUS
<1>2. current \in [Directories \X Kinds -> Files \cup {NoFile}] /\ f # NoFile
  BY DirectoryAsyncAssumption DEF TypeOK
<1>3. Held' = Held \cup {<< d, k >>}
  BY <1>1, <1>2 DEF Held
<1>4. QED
  BY <1>3, CountsAreNumbers, FS_AddElement

\* The steps of the service loop that cancel or start jobs and loads.
LEMMA ServiceSlots ==
  ASSUME TypeOK, SlotInv,
         \/ StartFileList \/ StopUnwanted \/ StartExtensionAtOnce
         \/ \E level \in Levels : StartJob(level)
  PROVE  SlotInv'
<1>1. /\ IsFiniteSet(Held) /\ Cardinality(Held) \in Nat
      /\ IsFiniteSet(loading) /\ Cardinality(loading) \in Nat
      /\ jobs \in Int /\ cancelled \subseteq Held /\ EndsOf(stack) \in Nat
      /\ jobs = Cardinality(Held) + EndsOf(stack) + Cardinality(loading)
  BY CountsAreNumbers, JobsExactSays DEF SlotInv, TypeOK
<1>2. stack \in Seq(Frames) /\ stack # << >> /\ Top.op = "service"
  BY DEF TypeOK, StartFileList, StopUnwanted, StartExtensionAtOnce, StartJob, AtPhase, Pending
<1>3. /\ Top.dir \in Directories /\ Top.i \in Nat /\ Top.io \in Files \cup {NoFile}
      /\ Below \in Seq(Frames) /\ EndsOf(Below) = EndsOf(stack)
  BY <1>2, TopType, EndsBelow
<1>4. ASSUME NEW at \in Phases, NEW i \in Nat, NEW io \in Files \cup {NoFile}, GoTo(at, i, io)
      PROVE  EndsOf(stack') = EndsOf(stack)
  <2>1. ServiceAt(Top.dir, at, i, io) \in Frames /\ ~EndsJob(ServiceAt(Top.dir, at, i, io))
    BY <1>3, FramesType, QuietCalls
  <2>2. QED
    BY <1>3, <1>4, <2>1, EndsPushes DEF GoTo
<1>5. {"stop"} \cup Levels \subseteq Phases
  BY DEF Phases
<1>6. CASE StartFileList
  <2>1. EndsOf(stack') = EndsOf(stack)
    BY <1>4, <1>5, <1>6 DEF StartFileList
  <2>2. UNCHANGED << current, cancelled >>
    BY <1>6 DEF StartFileList, jobVars
  <2>3. CASE UNCHANGED << jobs, loading >>
    BY <2>1, <2>2, <2>3, SlotsUntouched
  <2>4. CASE ~UNCHANGED << jobs, loading >>
    <3>1. jobs' = jobs + 1 /\ loading' = loading \cup {Top.dir} /\ Top.dir \notin loading
      BY <1>6, <2>4 DEF StartFileList, NoSlot, TakeSlot, slotVars
    <3>2. Cardinality(loading') = Cardinality(loading) + 1
      BY <1>1, <3>1, FS_AddElement
    <3>3. Held' = Held
      BY <2>2 DEF Held
    <3>4. QED
      BY <1>1, <2>1, <2>2, <3>1, <3>2, <3>3, JobsExactSays DEF SlotInv
  <2>5. QED
    BY <2>3, <2>4
<1>7. CASE StopUnwanted
  <2>1. PICK j \in NextJob(StopOrder, Top.i) :
          /\ CancelJobs(IF Running(Top.dir, StopOrder[j])
                             => Needy(current[<< Top.dir, StopOrder[j] >>], StopOrder[j])
                        THEN {} ELSE {<< Top.dir, StopOrder[j] >>}, {})
          /\ GoTo("stop", j + 1, NoFile)
    BY <1>7, Zenon DEF StopUnwanted
  <2>2. j + 1 \in Nat /\ StopOrder[j] \in Kinds
    BY <1>3, <2>1 DEF NextJob, StopOrder
  <2>3. EndsOf(stack') = EndsOf(stack)
    BY <1>4, <1>5, <2>1, <2>2
  <2>4. PICK cancels \in SUBSET (Directories \X Kinds) : CancelJobs(cancels, {})
    <3>1. {<< Top.dir, StopOrder[j] >>} \in SUBSET (Directories \X Kinds)
      BY <1>3, <2>2
    <3>2. QED
      BY <2>1, <3>1
  <2>5. jobs' - Cardinality(Held') = jobs - Cardinality(Held) /\ cancelled' \subseteq Held'
    BY <1>1, <2>4, CancelSlots
  <2>6. loading' = loading
    BY <1>7 DEF StopUnwanted, listVars
  <2>7. jobs' \in Int /\ Cardinality(Held') \in Nat
    BY <1>7, HeldNext, ServiceLoopType DEF TypeOK
  <2>8. QED
    BY <1>1, <2>3, <2>5, <2>6, <2>7, JobsExactSays DEF SlotInv
<1>8. ASSUME NEW level \in Levels, StartJob(level)
      PROVE  SlotInv'
  <2>1. PICK j \in NextJob(StartOrder[level], Top.i) :
          LET d == Top.dir
              k == StartOrder[level][j]
              f == FileTried(level)
              busy == Running(d, k)
              needy == Needy(f, k)
          IN  /\ GoTo(level, j + 1, IF Top.io # NoFile \/ busy \/ needy THEN f ELSE NoFile)
              /\ IF busy \/ ~needy
                 THEN UNCHANGED << slotVars, jobVars >>
                 ELSE \/ NoSlot(d) /\ UNCHANGED jobVars
                      \/ /\ TakeSlot
                         /\ current' = [current EXCEPT ![<< d, k >>] = f]
                         /\ stale' = stale \ {<< d, k >>}
                         /\ UNCHANGED cancelled
    BY <1>8, Zenon DEF StartJob
  <2>. DEFINE d == Top.dir
              k == StartOrder[level][j]
              f == FileTried(level)
  <2>2. j + 1 \in Nat /\ k \in Kinds
    BY LevelsAre DEF NextJob, StartOrder
  <2>3. f \in Files
    <3>1. AtPhase(level) /\ HasFile(level)
      BY <1>8, Zenon DEF StartJob
    <3>2. QED
      BY <1>3, <3>1, FileTriedType DEF TypeOK
  <2>4. loading' = loading
    BY <1>8 DEF StartJob, listVars
  <2>5. EndsOf(stack') = EndsOf(stack)
    <3>1. \E io \in Files \cup {NoFile} : GoTo(level, j + 1, io)
      <4>1. (IF Top.io # NoFile \/ Running(d, k) \/ Needy(f, k) THEN f ELSE NoFile)
              \in Files \cup {NoFile}
        BY <2>3
      <4>2. QED
        BY <2>1, <4>1, Zenon
    <3>2. QED
      BY <1>4, <1>5, <2>2, <3>1
  <2>6. CASE UNCHANGED << jobs, current, cancelled >>
    BY <2>4, <2>5, <2>6, SlotsUntouched
  <2>7. CASE ~UNCHANGED << jobs, current, cancelled >>
    <3>1. /\ ~Running(d, k) /\ jobs' = jobs + 1 /\ cancelled' = cancelled
          /\ current' = [current EXCEPT ![<< d, k >>] = f]
      BY <2>1, <2>7, Zenon DEF NoSlot, TakeSlot, slotVars, jobVars
    <3>2. << d, k >> \notin Held
      BY <3>1 DEF Held, Running
    <3>3. Held' = Held \cup {<< d, k >>} /\ Cardinality(Held') = Cardinality(Held) + 1
      <4>. HIDE DEF d, k, f
      <4>1. d \in Directories
        BY <1>3 DEF d
      <4>2. QED
        BY <2>2, <2>3, <3>1, <3>2, <4>1, JobBegun
    <3>4. QED
      BY <1>1, <2>4, <2>5, <3>1, <3>3, JobsExactSays DEF SlotInv
  <2>8. QED
    BY <2>6, <2>7
<1>9. CASE StartExtensionAtOnce
  <2>. DEFINE k == "extension_info"
              f == Head(queue[Top.dir].extension)
              t == << ServiceAt(Top.dir, "extension", 2, f) >> \o Below
  <2>1. /\ jobs' = jobs + 1 /\ UNCHANGED << current, cancelled, loading >> /\ k \in Kinds
        /\ stack' = << Signal, EndJob(Top.dir, k), ServiceAt(Top.dir, "extension", 2, f) >> \o Below
    BY <1>9 DEF StartExtensionAtOnce, TakeSlot, jobVars, listVars
  <2>2. /\ Signal \in Frames /\ EndJob(Top.dir, k) \in Frames
        /\ ServiceAt(Top.dir, "extension", 2, f) \in Frames
    <3>1. "extension" \in Phases /\ 2 \in Nat /\ f \in Files
      BY <1>3, <1>9, LevelsAre DEF StartExtensionAtOnce, TypeOK, Phases
    <3>2. QED
      BY <1>3, <2>1, <3>1, FramesType
  <2>3. /\ ~EndsJob(Signal) /\ EndsJob(EndJob(Top.dir, k))
        /\ ~EndsJob(ServiceAt(Top.dir, "extension", 2, f))
    BY QuietCalls, JobsAre
  <2>4. EndsOf(stack') = EndsOf(stack) + 1
    <3>. HIDE DEF k
    <3>1. t \in Seq(Frames) /\ EndsOf(t) = EndsOf(stack)
      BY <1>3, <2>2, <2>3, EndsPushes, Pushes
    <3>2. stack' = << Signal >> \o (<< EndJob(Top.dir, k) >> \o t)
      <4>. DEFINE x == EndJob(Top.dir, k)
                  y == ServiceAt(Top.dir, "extension", 2, f)
      <4>1. x \in Frames /\ y \in Frames /\ Signal \in Frames
        BY <2>2
      <4>. HIDE DEF x, y
      <4>. DEFINE Same(u, a, b, c) == << a, b, c >> \o u = << a >> \o (<< b >> \o (<< c >> \o u))
      <4>2. \A u \in Seq(Frames), a, b, c \in Frames : Same(u, a, b, c)
        BY PushedInTurn, Zenon
      <4>. HIDE DEF Same
      <4>21. Same(Below, Signal, x, y)
        BY <1>3, <4>1, <4>2
      <4>3. << Signal, x, y >> \o Below = << Signal >> \o (<< x >> \o (<< y >> \o Below))
        BY <4>21 DEF Same
      <4>4. QED
        BY <2>1, <4>3 DEF x, y
    <3>. HIDE DEF t
    <3>3. << EndJob(Top.dir, k) >> \o t \in Seq(Frames)
      BY <2>2, <3>1, Pushes
    <3>4. EndsOf(<< EndJob(Top.dir, k) >> \o t) = EndsOf(t) + 1
      BY <2>2, <2>3, <3>1, EndsPushOne DEF One
    <3>5. EndsOf(<< Signal >> \o (<< EndJob(Top.dir, k) >> \o t)) = EndsOf(<< EndJob(Top.dir, k) >> \o t)
      BY <2>2, <2>3, <3>3, EndsPushes
    <3>6. QED
      BY <3>1, <3>2, <3>4, <3>5
  <2>5. Held' = Held
    BY <2>1 DEF Held
  <2>6. QED
    BY <1>1, <2>1, <2>4, <2>5, JobsExactSays DEF SlotInv
<1>10. QED
  BY <1>6, <1>7, <1>8, <1>9

\* The remaining calls: a client's call from a handler, the end of a job or of a
\* load, and the reload.  An end takes back a slot that something holds.
LEMMA NestedSlots ==
  ASSUME TypeOK, SlotInv, EndsOnlyStartedJobs,
         Handle \/ End \/ EndDirectoryLoad \/ Reloading
  PROVE  SlotInv'
<1>1. /\ IsFiniteSet(Held) /\ Cardinality(Held) \in Nat
      /\ IsFiniteSet(loading) /\ Cardinality(loading) \in Nat
      /\ jobs \in Int /\ cancelled \subseteq Held /\ EndsOf(stack) \in Nat
      /\ jobs = Cardinality(Held) + EndsOf(stack) + Cardinality(loading)
  BY CountsAreNumbers, JobsExactSays DEF SlotInv, TypeOK
<1>2. stack \in Seq(Frames) /\ stack # << >>
  BY DEF TypeOK, Handle, End, EndDirectoryLoad, Reloading, Pending
<1>3. Below \in Seq(Frames) /\ EndsOf(Below) \in Nat
  BY <1>2, EndsBelow
<1>4. TypeOK'
  BY NestedCallType
<1>5. CASE Handle
  <2>1. EndsOf(Below) = EndsOf(stack)
    BY <1>2, <1>5, EndsBelow DEF Handle, Pending
  <2>2. CASE ClientCall(Below)
    <3>1. /\ jobs' - Cardinality(Held') = jobs - Cardinality(Held)
          /\ cancelled' \subseteq Held' /\ EndsOf(stack') = EndsOf(Below) /\ loading' = loading
      BY <1>1, <1>3, <2>2, ClientCallSlots
    <3>2. jobs' \in Int /\ Cardinality(Held') \in Nat
      BY <1>4, HeldNext DEF TypeOK
    <3>3. QED
      BY <1>1, <2>1, <3>1, <3>2, JobsExactSays DEF SlotInv
  <2>3. CASE ~ClientCall(Below)
    <3>1. UNCHANGED << jobs, current, cancelled, loading >> /\ stack' = Below
      BY <1>5, <2>3 DEF Handle, slotVars, jobVars, listVars
    <3>2. QED
      BY <2>1, <3>1, SlotsUntouched
  <2>4. QED
    BY <2>2, <2>3
<1>6. CASE End
  <2>1. /\ Top.op = "end" /\ Top.dir \in Directories /\ Top.kind \in Kinds
        /\ jobs' = jobs - 1 /\ stack' = Below
        /\ UNCHANGED << cancelled, loading >>
    BY <1>2, <1>6, TopType DEF End, Pending, listVars
  <2>2. CASE Top.kind \in SignalsBeforeClear
    <3>1. current' = [current EXCEPT ![<< Top.dir, Top.kind >>] = NoFile]
      BY <1>6, <2>2 DEF End
    <3>2. << Top.dir, Top.kind >> \in Held
      BY <1>6, <2>1, <2>2 DEF EndsOnlyStartedJobs, End, Running, Held
    <3>3. Held' = Held \ {<< Top.dir, Top.kind >>} /\ Cardinality(Held') = Cardinality(Held) - 1
      BY <1>1, <2>1, <3>1, <3>2, JobCleared
    <3>4. EndsOf(stack') = EndsOf(stack)
      BY <1>1, <1>2, <2>1, <2>2, EndsBelow
    <3>5. cancelled' \subseteq Held'
      <4>1. Top.kind \notin Deferred
        BY <2>2, JobsAre
      <4>2. << Top.dir, Top.kind >> \notin cancelled
        BY <4>1 DEF TypeOK
      <4>3. QED
        BY <1>1, <2>1, <3>3, <4>2
    <3>6. QED
      BY <1>1, <2>1, <3>3, <3>4, <3>5, JobsExactSays DEF SlotInv
  <2>3. CASE Top.kind \notin SignalsBeforeClear
    <3>1. Held' = Held
      BY <1>6, <2>3 DEF End, Held
    <3>2. EndsOf(stack') = EndsOf(stack) - 1
      BY <1>2, <2>1, <2>3, EndsBelow
    <3>3. QED
      BY <1>1, <2>1, <3>1, <3>2, JobsExactSays DEF SlotInv
  <2>4. QED
    BY <2>2, <2>3
<1>7. CASE EndDirectoryLoad
  <2>1. /\ Top.op = "endload" /\ Top.dir \in loading
        /\ jobs' = jobs - 1 /\ loading' = loading \ {Top.dir} /\ stack' = Below
        /\ UNCHANGED << current, cancelled >>
    BY <1>7 DEF EndDirectoryLoad, EndsOnlyStartedJobs, Pending, jobVars
  <2>2. Cardinality(loading') = Cardinality(loading) - 1
    BY <1>1, <2>1, FS_RemoveElement
  <2>3. EndsOf(stack') = EndsOf(stack)
    BY <1>2, <2>1, EndsBelow
  <2>4. Held' = Held
    BY <2>1 DEF Held
  <2>5. QED
    BY <1>1, <2>1, <2>2, <2>3, <2>4, JobsExactSays DEF SlotInv
<1>8. CASE Reloading
  <2>1. /\ Top.dir \in Directories /\ Top.step \in 1 .. 3 /\ EndsOf(Below) = EndsOf(stack)
        /\ loading' = loading
    BY <1>2, <1>8, TopType, EndsBelow DEF Reloading, Pending
  <2>2. CASE Top.step = 1
    <3>1. /\ UNCHANGED << jobs, current, cancelled >>
          /\ stack' = << Unload(Top.dir), Reload(Top.dir, 2) >> \o Below
      BY <1>8, <2>2 DEF Reloading, slotVars, jobVars
    <3>2. /\ Unload(Top.dir) \in Frames /\ Reload(Top.dir, 2) \in Frames
          /\ ~EndsJob(Unload(Top.dir)) /\ ~EndsJob(Reload(Top.dir, 2))
      BY <2>1, FramesType, QuietCalls
    <3>3. EndsOf(stack') = EndsOf(stack)
      BY <1>3, <2>1, <3>1, <3>2, EndsPushes
    <3>4. QED
      BY <2>1, <3>1, <3>3, SlotsUntouched
  <2>3. CASE Top.step = 2
    <3>. DEFINE rest == << Reload(Top.dir, 3) >> \o Below
    <3>1. Reload(Top.dir, 3) \in Frames /\ ~EndsJob(Reload(Top.dir, 3))
      BY <2>1, FramesType, QuietCalls
    <3>2. rest \in Seq(Frames) /\ EndsOf(rest) = EndsOf(stack)
      BY <1>3, <2>1, <3>1, EndsPushes, Pushes
    <3>3. InvalidateAttributes(Corresponding[Top.dir], LoadFills \cap Kinds, rest)
      BY <1>8, <2>3 DEF Reloading
    <3>4. Corresponding[Top.dir] \in Files /\ LoadFills \cap Kinds \in SUBSET Kinds
      BY <2>1, DirectoryAsyncAssumption
    <3>. HIDE DEF rest
    <3>5. /\ jobs' - Cardinality(Held') = jobs - Cardinality(Held)
          /\ cancelled' \subseteq Held' /\ EndsOf(stack') = EndsOf(rest)
      BY <1>1, <3>2, <3>3, <3>4, InvalidateSlots
    <3>6. jobs' \in Int /\ Cardinality(Held') \in Nat
      BY <1>4, HeldNext DEF TypeOK
    <3>7. EndsOf(stack') = EndsOf(stack) /\ Cardinality(loading') = Cardinality(loading)
      BY <2>1, <3>2, <3>5
    <3>8. jobs' = Cardinality(Held') + EndsOf(stack') + Cardinality(loading')
      BY <1>1, <3>5, <3>6, <3>7
    <3>9. QED
      BY <3>5, <3>8, JobsExactSays DEF SlotInv
  <2>4. CASE Top.step = 3
    <3>1. /\ UNCHANGED << jobs, current, cancelled >>
          /\ stack' = EnqueueAll(Top.dir) \o << Changed(Top.dir) >> \o Below
      BY <1>8, <2>4 DEF Reloading, slotVars, jobVars
    <3>2. Changed(Top.dir) \in Frames /\ ~EndsJob(Changed(Top.dir))
      BY <2>1, FramesType, QuietCalls
    <3>3. EndsOf(stack') = EndsOf(stack)
      BY <1>3, <2>1, <3>1, <3>2, EndsPushes
    <3>4. QED
      BY <2>1, <3>1, <3>3, SlotsUntouched
  <2>5. QED
    BY <2>1, <2>2, <2>3, <2>4
<1>9. QED
  BY <1>5, <1>6, <1>7, <1>8

\* While nothing ends a job that was not started, async_job_count is the number
\* of jobs that hold a slot, whatever nests in whatever.
THEOREM SlotsExact == Spec /\ []EndsOnlyStartedJobs => []JobsExact
<1>1. Init => SlotInv
  <2>1. SUFFICES ASSUME Init PROVE SlotInv
    OBVIOUS
  <2>2. loading = {} /\ stack = << >> /\ cancelled = {} /\ jobs = 0
    BY <2>1 DEF Init
  <2>3. Held = {}
    <3>1. current = [job \in Directories \X Kinds |-> NoFile]
      BY <2>1 DEF Init
    <3>2. QED
      BY <3>1 DEF Held
  <2>4. QED
    BY <2>2, <2>3, FS_EmptySet, EndsShort, JobsExactSays DEF SlotInv
<1>2. TypeOK /\ SlotInv /\ EndsOnlyStartedJobs /\ [Next]_vars => SlotInv'
  <2>1. SUFFICES ASSUME TypeOK, SlotInv, EndsOnlyStartedJobs, [Next]_vars PROVE SlotInv'
    OBVIOUS
  <2>2. CASE MainLoop
    BY <2>1, <2>2, MainLoopSlots
  <2>3. CASE Step
    <3>1. CASE Handle \/ End \/ EndDirectoryLoad \/ Reloading
      BY <2>1, <3>1, NestedSlots
    <3>2. CASE \/ StartFileList \/ StopUnwanted \/ StartExtensionAtOnce
               \/ \E level \in Levels : StartJob(level)
      BY <2>1, <3>2, ServiceSlots
    <3>3. CASE \/ CallOne \/ CallNoMore \/ EnqueueFile \/ MarkOutdated \/ AnnounceLoaded
               \/ UnloadDirectory \/ ForgetFileList \/ WakeUp \/ WakeOne \/ WakeNoMore
               \/ StateChanged \/ StopFileList \/ StopsDone \/ CallReady
               \/ \E level \in Levels : Skip(level) \/ FinishHead(level) \/ NextLevel(level)
      BY <2>1, <3>3, QuietSlots
    <3>4. QED
      BY <2>3, <3>1, <3>2, <3>3 DEF Step
  <2>4. CASE UNCHANGED vars
    <3>1. UNCHANGED << jobs, current, cancelled, loading, stack >>
      BY <2>4 DEF vars, slotVars, jobVars, listVars
    <3>2. QED
      BY <2>1, <3>1, SlotsUntouched
  <2>5. QED
    BY <2>1, <2>2, <2>3, <2>4 DEF Next
<1>3. SlotInv => JobsExact
  BY DEF SlotInv
<1>4. QED
  BY <1>1, <1>2, <1>3, TypeCorrect, PTL DEF Spec

-----------------------------------------------------------------------------
(***************************************************************************)
(* Clients that read attributes and load no directory: no wake-up is lost, *)
(* and every slot is accounted for.                                        *)
(***************************************************************************)
(* The calls on the stack, whatever their order.                           *)

Calls(s) == {s[i] : i \in DOMAIN s}

\* Every end of a job is followed by a call that leads to a wake-up.
Followed(s) ==
  \A i \in DOMAIN s :
    s[i].op = "end" => i + 1 \in DOMAIN s /\ s[i + 1].op \in {"changed", "service"}

\* Pushing and popping calls, by the sets of calls.
LEMMA CallsOf ==
  ASSUME NEW s \in Seq(Frames)
  PROVE  /\ Calls(s) \subseteq Frames
         /\ \A p \in Seq(Frames) : Calls(p \o s) = Calls(p) \cup Calls(s)
         /\ \A f \in Frames : Calls(<< f >> \o s) = {f} \cup Calls(s)
         /\ \A f, g \in Frames : Calls(<< f, g >> \o s) = {f, g} \cup Calls(s)
         /\ \A f, g, h \in Frames : Calls(<< f, g, h >> \o s) = {f, g, h} \cup Calls(s)
         /\ s # << >> => Calls(s) = {Head(s)} \cup Calls(Tail(s))
<1>1. ASSUME NEW p \in Seq(Frames), NEW t \in Seq(Frames)
      PROVE  Calls(p \o t) = Calls(p) \cup Calls(t)
  <2>1. /\ DOMAIN p = 1 .. Len(p) /\ DOMAIN t = 1 .. Len(t)
        /\ DOMAIN (p \o t) = 1 .. Len(p) + Len(t) /\ Len(p) \in Nat /\ Len(t) \in Nat
        /\ \A i \in 1 .. Len(p) : (p \o t)[i] = p[i]
        /\ \A i \in 1 .. Len(t) : (p \o t)[i + Len(p)] = t[i]
    OBVIOUS
  <2>2. \A i \in 1 .. Len(p) + Len(t) :
          i \in 1 .. Len(p) \/ (i - Len(p) \in 1 .. Len(t) /\ i = (i - Len(p)) + Len(p))
    BY <2>1
  <2>3. ASSUME NEW c \in Calls(p \o t) PROVE c \in Calls(p) \/ c \in Calls(t)
    <3>1. PICK i \in 1 .. Len(p) + Len(t) : c = (p \o t)[i]
      BY <2>1 DEF Calls
    <3>2. CASE i \in 1 .. Len(p)
      BY <2>1, <3>1, <3>2 DEF Calls
    <3>3. CASE i - Len(p) \in 1 .. Len(t) /\ i = (i - Len(p)) + Len(p)
      <4>1. c = t[i - Len(p)]
        BY <2>1, <3>1, <3>3
      <4>2. QED
        BY <2>1, <3>3, <4>1 DEF Calls
    <3>4. QED
      BY <2>2, <3>1, <3>2, <3>3
  <2>4. ASSUME NEW c \in Calls(p) PROVE c \in Calls(p \o t)
    <3>1. PICK i \in 1 .. Len(p) : c = p[i]
      BY <2>1 DEF Calls
    <3>2. i \in DOMAIN (p \o t) /\ c = (p \o t)[i]
      BY <2>1, <3>1
    <3>3. QED
      BY <3>2 DEF Calls
  <2>5. ASSUME NEW c \in Calls(t) PROVE c \in Calls(p \o t)
    <3>1. PICK i \in 1 .. Len(t) : c = t[i]
      BY <2>1 DEF Calls
    <3>2. i + Len(p) \in DOMAIN (p \o t) /\ c = (p \o t)[i + Len(p)]
      BY <2>1, <3>1
    <3>3. QED
      BY <3>2 DEF Calls
  <2>6. QED
    BY <2>3, <2>4, <2>5
<1>2. /\ \A f \in Frames : << f >> \in Seq(Frames) /\ Calls(<< f >>) = {f}
      /\ \A f, g \in Frames : << f, g >> \in Seq(Frames) /\ Calls(<< f, g >>) = {f, g}
      /\ \A f, g, h \in Frames : << f, g, h >> \in Seq(Frames) /\ Calls(<< f, g, h >>) = {f, g, h}
  BY DEF Calls
<1>3. ASSUME s # << >> PROVE Calls(s) = {Head(s)} \cup Calls(Tail(s))
  <2>1. Head(s) \in Frames /\ Tail(s) \in Seq(Frames) /\ s = << Head(s) >> \o Tail(s)
    BY <1>3
  <2>2. Calls(<< Head(s) >> \o Tail(s)) = Calls(<< Head(s) >>) \cup Calls(Tail(s))
    BY <1>1, <1>2, <2>1
  <2>3. QED
    BY <1>2, <2>1, <2>2
<1>4. Calls(s) \subseteq Frames
  BY DEF Calls
<1>5. ASSUME NEW f \in Frames
      PROVE  Calls(<< f >> \o s) = {f} \cup Calls(s)
  <2>1. << f >> \in Seq(Frames) /\ Calls(<< f >>) = {f}
    BY <1>2
  <2>2. Calls(<< f >> \o s) = Calls(<< f >>) \cup Calls(s)
    BY <1>1, <2>1
  <2>3. QED
    BY <2>1, <2>2
<1>6. ASSUME NEW f \in Frames, NEW g \in Frames
      PROVE  Calls(<< f, g >> \o s) = {f, g} \cup Calls(s)
  <2>1. << f, g >> \in Seq(Frames) /\ Calls(<< f, g >>) = {f, g}
    BY <1>2
  <2>2. Calls(<< f, g >> \o s) = Calls(<< f, g >>) \cup Calls(s)
    BY <1>1, <2>1
  <2>3. QED
    BY <2>1, <2>2
<1>7. ASSUME NEW f \in Frames, NEW g \in Frames, NEW h \in Frames
      PROVE  Calls(<< f, g, h >> \o s) = {f, g, h} \cup Calls(s)
  <2>1. << f, g, h >> \in Seq(Frames) /\ Calls(<< f, g, h >>) = {f, g, h}
    BY <1>2
  <2>2. Calls(<< f, g, h >> \o s) = Calls(<< f, g, h >>) \cup Calls(s)
    BY <1>1, <2>1
  <2>3. QED
    BY <2>1, <2>2
<1>8. \A p \in Seq(Frames) : Calls(p \o s) = Calls(p) \cup Calls(s)
  BY <1>1
<1>9. QED
  BY <1>3, <1>4, <1>5, <1>6, <1>7, <1>8

\* An end stays followed under what is pushed above it and popped from there.
LEMMA FollowedOf ==
  ASSUME NEW s \in Seq(Frames), Followed(s)
  PROVE  /\ \A p \in Seq(Frames) :
              (\A i \in DOMAIN p : p[i].op # "end") => Followed(p \o s)
         /\ s # << >> /\ Head(s).op \in {"changed", "service"} =>
              \A f \in Frames : Followed(<< f >> \o s)
         /\ s # << >> => Followed(Tail(s))
         /\ s # << >> /\ Head(s).op = "end" =>
              Tail(s) # << >> /\ Head(Tail(s)).op \in {"changed", "service"}
<1>1. ASSUME NEW p \in Seq(Frames), \A i \in DOMAIN p : p[i].op # "end"
      PROVE  Followed(p \o s)
  <2>1. /\ DOMAIN p = 1 .. Len(p) /\ DOMAIN s = 1 .. Len(s)
        /\ DOMAIN (p \o s) = 1 .. Len(p) + Len(s) /\ Len(p) \in Nat /\ Len(s) \in Nat
        /\ \A i \in 1 .. Len(p) : (p \o s)[i] = p[i]
        /\ \A i \in 1 .. Len(s) : (p \o s)[i + Len(p)] = s[i]
    OBVIOUS
  <2>2. SUFFICES ASSUME NEW i \in 1 .. Len(p) + Len(s), (p \o s)[i].op = "end"
                 PROVE  i + 1 \in 1 .. Len(p) + Len(s) /\ (p \o s)[i + 1].op \in {"changed", "service"}
    BY <2>1 DEF Followed
  <2>3. i \notin 1 .. Len(p)
    BY <1>1, <2>1, <2>2
  <2>4. PICK j \in 1 .. Len(s) : i = j + Len(p)
    <3>1. i - Len(p) \in 1 .. Len(s) /\ i = (i - Len(p)) + Len(p)
      BY <2>1, <2>3
    <3>2. QED
      BY <3>1
  <2>5. s[j].op = "end"
    BY <2>1, <2>2, <2>4
  <2>6. j + 1 \in 1 .. Len(s) /\ s[j + 1].op \in {"changed", "service"}
    BY <2>1, <2>5 DEF Followed
  <2>7. i + 1 = (j + 1) + Len(p)
    BY <2>1, <2>4
  <2>8. QED
    BY <2>1, <2>6, <2>7
<1>2. ASSUME NEW f \in Frames, s # << >>, Head(s).op \in {"changed", "service"}
      PROVE  Followed(<< f >> \o s)
  <2>1. /\ DOMAIN s = 1 .. Len(s) /\ Len(s) \in Nat /\ Len(s) >= 1 /\ s[1] = Head(s)
        /\ DOMAIN (<< f >> \o s) = 1 .. Len(s) + 1
        /\ \A i \in 1 .. Len(s) : (<< f >> \o s)[i + 1] = s[i]
    BY <1>2
  <2>2. SUFFICES ASSUME NEW i \in 1 .. Len(s) + 1, (<< f >> \o s)[i].op = "end"
                 PROVE  i + 1 \in 1 .. Len(s) + 1 /\ (<< f >> \o s)[i + 1].op \in {"changed", "service"}
    BY <2>1 DEF Followed
  <2>3. CASE i = 1
    BY <1>2, <2>1, <2>3
  <2>4. CASE i # 1
    <3>1. PICK j \in 1 .. Len(s) : i = j + 1
      <4>1. i - 1 \in 1 .. Len(s) /\ i = (i - 1) + 1
        BY <2>1, <2>4
      <4>2. QED
        BY <4>1
    <3>2. s[j].op = "end"
      BY <2>1, <2>2, <3>1
    <3>3. j + 1 \in 1 .. Len(s) /\ s[j + 1].op \in {"changed", "service"}
      BY <2>1, <3>2 DEF Followed
    <3>4. QED
      BY <2>1, <3>1, <3>3
  <2>5. QED
    BY <2>3, <2>4
<1>3. ASSUME s # << >>
      PROVE  /\ Followed(Tail(s))
             /\ Head(s).op = "end" =>
                  Tail(s) # << >> /\ Head(Tail(s)).op \in {"changed", "service"}
  <2>. DEFINE t == Tail(s)
  <2>1. /\ DOMAIN s = 1 .. Len(s) /\ Len(s) \in Nat /\ Len(s) >= 1 /\ s[1] = Head(s)
        /\ t \in Seq(Frames) /\ Len(t) = Len(s) - 1 /\ DOMAIN t = 1 .. Len(t)
        /\ \A i \in 1 .. Len(t) : t[i] = s[i + 1]
    BY <1>3
  <2>. HIDE DEF t
  <2>2. Followed(t)
    <3>1. SUFFICES ASSUME NEW i \in 1 .. Len(t), t[i].op = "end"
                   PROVE  i + 1 \in 1 .. Len(t) /\ t[i + 1].op \in {"changed", "service"}
      BY <2>1 DEF Followed
    <3>2. i + 1 \in 1 .. Len(s) /\ s[i + 1].op = "end"
      BY <2>1, <3>1
    <3>3. i + 1 + 1 \in 1 .. Len(s) /\ s[i + 1 + 1].op \in {"changed", "service"}
      BY <2>1, <3>2 DEF Followed
    <3>4. QED
      BY <2>1, <3>3
  <2>3. ASSUME Head(s).op = "end" PROVE t # << >> /\ Head(t).op \in {"changed", "service"}
    <3>1. 1 \in 1 .. Len(s) /\ s[1].op = "end"
      BY <2>1, <2>3
    <3>2. 1 + 1 \in 1 .. Len(s) /\ s[1 + 1].op \in {"changed", "service"}
      BY <2>1, <3>1 DEF Followed
    <3>3. 1 \in 1 .. Len(t) /\ t[1].op \in {"changed", "service"}
      BY <2>1, <3>2
    <3>4. QED
      BY <2>1, <3>3
  <2>4. QED
    BY <2>2, <2>3 DEF t
<1>4. QED
  BY <1>1, <1>2, <1>3

-----------------------------------------------------------------------------
(* Without directory loads no job ends that was not started.               *)

NoEndLoad(s) == \A c \in Calls(s) : c.op # "endload"
NoLoads == listWanted = {} /\ loading = {} /\ NoEndLoad(stack)

\* What the pending calls of one kind or another are.
LEMMA Ops ==
  /\ \A d : /\ Changed(d).op = "changed" /\ Calling(d).op = "calling"
            /\ Announce(d).op = "announce" /\ Unload(d).op = "unload"
            /\ Unlist(d).op = "unlist"
            /\ \A k : EndJob(d, k).op = "end"
            /\ \A step : Reload(d, step).op = "reload"
            /\ \A at, i, io : /\ ServiceAt(d, at, i, io).op = "service"
                              /\ ServiceAt(d, at, i, io).dir = d
  /\ Wake.op = "wake" /\ Waking.op = "waking" /\ Signal.op = "signal"
  /\ \A f, ks : Enqueueing(f).op = "enqueue" /\ Outdate(f, ks).op = "outdate"
BY DEF Changed, Calling, Announce, Unload, Unlist, ServiceAt, Reload, EndJob, Wake, Waking,
       Signal, Enqueueing, Outdate

\* add_all_files_to_work_queue pushes nothing but enqueueings.
LEMMA EnqueueAllCalls ==
  ASSUME NEW d \in Directories
  PROVE  /\ EnqueueAll(d) \in Seq(Frames)
         /\ \A i \in DOMAIN EnqueueAll(d) : EnqueueAll(d)[i].op = "enqueue"
<1>1. Listing[d] \in Seq(Files)
  BY DirectoryAsyncAssumption
<1>2. DOMAIN Listing[d] = 1 .. Len(Listing[d]) /\ Len(Listing[d]) \in Nat
  BY <1>1
<1>3. \A i \in DOMAIN Listing[d] :
        Enqueueing(Listing[d][i]) \in Frames /\ Enqueueing(Listing[d][i]).op = "enqueue"
  BY <1>1, FramesType, Ops
<1>4. QED
  BY <1>2, <1>3 DEF EnqueueAll

-----------------------------------------------------------------------------
(* The inductive invariant.                                                *)

WakesUp(c) == c.op \in {"changed", "service", "wake", "waking"}

\* A directory in its service loop has the pass on the stack, so a nested call
\* that only sets state_changed is seen; already_waking_up is set only while the
\* loop that wakes directories is on the stack, so a nested wake-up may return;
\* and while a slot is free and somebody waits, a call that leads to a wake-up is
\* pending.
InLoopPending(s) == \A d \in inLoop : \E c \in Calls(s) : c.op = "service" /\ c.dir = d
WakingPending(s) == waking => \E c \in Calls(s) : c.op = "waking"
WakeUpPending(s) == waiting # {} /\ jobs < MaxAsyncJobs => \E c \in Calls(s) : WakesUp(c)

WakeInv ==
  /\ NoLoads
  /\ Followed(stack)
  /\ InLoopPending(stack)
  /\ WakingPending(stack)
  /\ WakeUpPending(stack)

\* What holds of the calls below the top.
LEMMA PopKeeps ==
  ASSUME TypeOK, WakeInv, stack # << >>
  PROVE  /\ Below \in Seq(Frames) /\ Followed(Below) /\ NoEndLoad(Below)
         /\ Top.op # "endload"
         /\ Top.op # "service" => InLoopPending(Below)
         /\ \A d \in inLoop : d # Top.dir \/ Top.op # "service" =>
              \E c \in Calls(Below) : c.op = "service" /\ c.dir = d
         /\ Top.op # "waking" => WakingPending(Below)
         /\ ~WakesUp(Top) => WakeUpPending(Below)
         /\ Top.op = "end" => Below # << >> /\ \E c \in Calls(Below) : WakesUp(c)
<1>1. stack \in Seq(Frames) /\ Below \in Seq(Frames) /\ Calls(stack) = {Top} \cup Calls(Below)
  BY CallsOf DEF TypeOK, Top, Below
<1>2. Followed(Below)
  BY <1>1, FollowedOf DEF WakeInv, Below
<1>3. Top.op = "end" => Below # << >> /\ Head(Below).op \in {"changed", "service"}
  BY <1>1, FollowedOf DEF WakeInv, Below, Top
<1>4. Below # << >> => Head(Below) \in Calls(Below)
  BY <1>1, CallsOf
<1>5. NoEndLoad(Below) /\ Top.op # "endload"
  BY <1>1 DEF WakeInv, NoLoads, NoEndLoad
<1>6. Top.op # "service" => InLoopPending(Below)
  BY <1>1 DEF WakeInv, InLoopPending
<1>7. \A d \in inLoop : d # Top.dir \/ Top.op # "service" =>
        \E c \in Calls(Below) : c.op = "service" /\ c.dir = d
  BY <1>1 DEF WakeInv, InLoopPending
<1>8. Top.op # "waking" => WakingPending(Below)
  BY <1>1 DEF WakeInv, WakingPending
<1>9. ~WakesUp(Top) => WakeUpPending(Below)
  BY <1>1 DEF WakeInv, WakeUpPending
<1>10. Top.op = "end" => \E c \in Calls(Below) : WakesUp(c)
  BY <1>3, <1>4 DEF WakesUp
<1>11. QED
  BY <1>1, <1>2, <1>3, <1>5, <1>6, <1>7, <1>8, <1>9, <1>10

\* Calls that may be pushed on anything.
Plain(f) == f \in Frames /\ f.op \notin {"end", "endload"}

\* They keep what holds of the calls they are pushed on.
LEMMA PushKeeps ==
  ASSUME NEW s \in Seq(Frames), Followed(s), NoEndLoad(s)
  PROVE  /\ \A f : Plain(f) => /\ << f >> \o s \in Seq(Frames)
                               /\ Followed(<< f >> \o s) /\ NoEndLoad(<< f >> \o s)
                               /\ Calls(<< f >> \o s) = {f} \cup Calls(s)
         /\ \A f, g : Plain(f) /\ Plain(g) =>
                               /\ << f, g >> \o s \in Seq(Frames)
                               /\ Followed(<< f, g >> \o s) /\ NoEndLoad(<< f, g >> \o s)
                               /\ Calls(<< f, g >> \o s) = {f, g} \cup Calls(s)
<1>1. ASSUME NEW f, Plain(f)
      PROVE  /\ << f >> \o s \in Seq(Frames)
             /\ Followed(<< f >> \o s) /\ NoEndLoad(<< f >> \o s)
             /\ Calls(<< f >> \o s) = {f} \cup Calls(s)
  <2>1. << f >> \in Seq(Frames) /\ \A i \in DOMAIN << f >> : << f >>[i].op # "end"
    BY <1>1 DEF Plain
  <2>2. Followed(<< f >> \o s)
    BY <2>1, FollowedOf
  <2>3. Calls(<< f >> \o s) = {f} \cup Calls(s)
    BY <1>1, CallsOf DEF Plain
  <2>4. NoEndLoad(<< f >> \o s)
    BY <1>1, <2>3 DEF NoEndLoad, Plain
  <2>5. QED
    BY <2>1, <2>2, <2>3, <2>4
<1>2. ASSUME NEW f, NEW g, Plain(f), Plain(g)
      PROVE  /\ << f, g >> \o s \in Seq(Frames)
             /\ Followed(<< f, g >> \o s) /\ NoEndLoad(<< f, g >> \o s)
             /\ Calls(<< f, g >> \o s) = {f, g} \cup Calls(s)
  <2>1. << f, g >> \in Seq(Frames) /\ \A i \in DOMAIN << f, g >> : << f, g >>[i].op # "end"
    BY <1>2 DEF Plain
  <2>2. Followed(<< f, g >> \o s)
    BY <2>1, FollowedOf
  <2>3. Calls(<< f, g >> \o s) = {f, g} \cup Calls(s)
    BY <1>2, CallsOf DEF Plain
  <2>4. NoEndLoad(<< f, g >> \o s)
    BY <1>2, <2>3 DEF NoEndLoad, Plain
  <2>5. QED
    BY <2>1, <2>2, <2>3, <2>4
<1>3. QED
  BY <1>1, <1>2

\* The calls that are plain.
LEMMA PlainCalls ==
  /\ \A d \in Directories :
       /\ Plain(Changed(d)) /\ Plain(Calling(d)) /\ Plain(Unload(d)) /\ Plain(Unlist(d))
       /\ Plain(Announce(d))
       /\ \A step \in 1 .. 3 : Plain(Reload(d, step))
       /\ \A at \in Phases, i \in Nat, io \in Files \cup {NoFile} : Plain(ServiceAt(d, at, i, io))
  /\ Plain(Wake) /\ Plain(Waking) /\ Plain(Signal)
  /\ \A f \in Files, ks \in SUBSET Kinds : Plain(Outdate(f, ks))
BY FramesType, Ops DEF Plain

\* A client's call is followed by the state machine, which wakes up.
LEMMA ClientCallWakes ==
  ASSUME TypeOK, Listed = {}, NEW rest \in Seq(Frames), Followed(rest), NoEndLoad(rest),
         ClientCall(rest)
  PROVE  /\ Followed(stack') /\ NoEndLoad(stack') /\ Calls(rest) \subseteq Calls(stack')
         /\ \E c \in Calls(stack') : WakesUp(c)
         /\ UNCHANGED << waiting, waking, inLoop, listWanted, loading >>
<1>1. \A r \in Requests : r[1] \in Files /\ r[2] \in Kinds /\ Home[r[1]] \in Directories
  BY DirectoryAsyncAssumption
<1>2. ASSUME NEW r \in Requests,
             \/ MonitorAdd(r[1], r[2], rest) \/ MonitorRemove(r[1], r[2], rest)
             \/ CallWhenReady(r[1], r[2], rest) \/ CancelCallback(r[1], r[2], rest)
      PROVE  /\ stack' = << Changed(Home[r[1]]) >> \o rest
             /\ UNCHANGED << waiting, waking, inLoop, listWanted, loading >>
  BY <1>2 DEF MonitorAdd, MonitorRemove, CallWhenReady, CancelCallback, slotVars, loopVars,
              listVars
<1>3. ASSUME NEW r \in Requests, InvalidateAttributes(r[1], {r[2]}, rest),
             UNCHANGED << listWanted, listVars, loopVars >>
      PROVE  /\ stack' = << Changed(Home[r[1]]), Outdate(r[1], RequestedBy({r[2]})) >> \o rest
             /\ UNCHANGED << waiting, waking, inLoop, listWanted, loading >>
  BY <1>3 DEF InvalidateAttributes, loopVars, listVars
<1>4. ASSUME NEW r \in Requests, NotifyFilesChanged(r[1], rest)
      PROVE  /\ stack' = << Changed(Home[r[1]]), Signal >> \o rest
             /\ UNCHANGED << waiting, waking, inLoop, listWanted, loading >>
  BY <1>4 DEF NotifyFilesChanged, slotVars, loopVars, listVars
<1>5. PICK r \in Requests, o \in Frames :
        /\ o = Signal \/ o = Outdate(r[1], RequestedBy({r[2]}))
        /\ \/ stack' = << Changed(Home[r[1]]) >> \o rest
           \/ stack' = << Changed(Home[r[1]]), o >> \o rest
        /\ UNCHANGED << waiting, waking, inLoop, listWanted, loading >>
  <2>1. \A r \in Requests : Signal \in Frames /\ Outdate(r[1], RequestedBy({r[2]})) \in Frames
    BY <1>1, FramesType DEF RequestedBy, RequestKinds
  <2>2. QED
    BY <1>2, <1>3, <1>4, <2>1 DEF ClientCall
<1>. DEFINE c == Changed(Home[r[1]])
<1>6. Plain(c) /\ Plain(o) /\ WakesUp(c)
  <2>1. RequestedBy({r[2]}) \in SUBSET Kinds
    BY <1>1, <1>5 DEF RequestedBy, RequestKinds
  <2>2. QED
    BY <1>1, <1>5, <2>1, PlainCalls, Ops DEF WakesUp
<1>. HIDE DEF c
<1>7. stack' = << c >> \o rest \/ stack' = << c, o >> \o rest
  BY <1>5 DEF c
<1>8. /\ Followed(<< c >> \o rest) /\ NoEndLoad(<< c >> \o rest)
      /\ Calls(<< c >> \o rest) = {c} \cup Calls(rest)
      /\ Followed(<< c, o >> \o rest) /\ NoEndLoad(<< c, o >> \o rest)
      /\ Calls(<< c, o >> \o rest) = {c, o} \cup Calls(rest)
  BY <1>6, PushKeeps
<1>9. QED
  BY <1>5, <1>6, <1>7, <1>8

-----------------------------------------------------------------------------
(* The steps.                                                              *)

\* Calls pushed on what is below the top: the top was not the pass of a service
\* loop nor the loop that wakes directories.
LEMMA PushedOnBelow ==
  ASSUME TypeOK, WakeInv, stack # << >>, Top.op \notin {"service", "waking"},
         UNCHANGED << waiting, waking, inLoop, listWanted, loading >>,
         Followed(stack'), NoEndLoad(stack'), Calls(Below) \subseteq Calls(stack'),
         \/ \E c \in Calls(stack') : WakesUp(c)
         \/ ~WakesUp(Top) /\ jobs' = jobs
  PROVE  WakeInv'
<1>1. InLoopPending(Below) /\ WakingPending(Below) /\ (~WakesUp(Top) => WakeUpPending(Below))
  BY PopKeeps
<1>2. NoLoads'
  BY DEF WakeInv, NoLoads
<1>3. \A d \in inLoop : \E c \in Calls(stack') : c.op = "service" /\ c.dir = d
  BY <1>1 DEF InLoopPending
<1>4. waking => \E c \in Calls(stack') : c.op = "waking"
  BY <1>1 DEF WakingPending
<1>5. waiting # {} /\ jobs' < MaxAsyncJobs => \E c \in Calls(stack') : WakesUp(c)
  BY <1>1 DEF WakeUpPending
<1>6. QED
  BY <1>2, <1>3, <1>4, <1>5 DEF WakeInv, InLoopPending, WakingPending, WakeUpPending

\* A service loop that goes on leads to a wake-up itself.
LEMMA RoundGoesOn ==
  ASSUME TypeOK, WakeInv, stack # << >>, Top.op = "service",
         UNCHANGED << waking, inLoop, listWanted, loading >>,
         Followed(stack'), NoEndLoad(stack'), Calls(Below) \subseteq Calls(stack'),
         \E c \in Calls(stack') : c.op = "service" /\ c.dir = Top.dir
  PROVE  WakeInv'
<1>1. /\ \A d \in inLoop : d # Top.dir =>
           \E c \in Calls(Below) : c.op = "service" /\ c.dir = d
      /\ WakingPending(Below)
  BY PopKeeps
<1>2. NoLoads'
  BY DEF WakeInv, NoLoads
<1>3. \A d \in inLoop : \E c \in Calls(stack') : c.op = "service" /\ c.dir = d
  BY <1>1
<1>4. waking => \E c \in Calls(stack') : c.op = "waking"
  BY <1>1 DEF WakingPending
<1>5. \E c \in Calls(stack') : WakesUp(c)
  BY DEF WakesUp
<1>6. QED
  BY <1>2, <1>3, <1>4, <1>5 DEF WakeInv, InLoopPending, WakingPending, WakeUpPending

\* A stack that holds nothing but what an event of the main loop pushed.
LEMMA FromRest ==
  ASSUME TypeOK, WakeInv, stack = << >>,
         UNCHANGED << waiting, waking, inLoop, listWanted, loading >>,
         Followed(stack'), NoEndLoad(stack'),
         (\E c \in Calls(stack') : WakesUp(c)) \/ jobs' = jobs
  PROVE  WakeInv'
<1>1. Calls(stack) = {}
  BY DEF Calls
<1>2. inLoop = {} /\ ~waking /\ (waiting # {} => ~(jobs < MaxAsyncJobs))
  BY <1>1 DEF WakeInv, InLoopPending, WakingPending, WakeUpPending
<1>3. NoLoads'
  BY DEF WakeInv, NoLoads
<1>4. QED
  BY <1>2, <1>3 DEF WakeInv, InLoopPending, WakingPending, WakeUpPending

\* What the events of the main loop push.
LEMMA EventStacks ==
  ASSUME NEW d \in Directories
  PROVE  /\ << >> \in Seq(Frames) /\ Followed(<< >>) /\ NoEndLoad(<< >>)
         /\ Followed(<< Changed(d) >>) /\ NoEndLoad(<< Changed(d) >>)
         /\ Followed(<< Calling(d) >>) /\ NoEndLoad(<< Calling(d) >>)
         /\ Followed(<< Changed(d), Signal >>) /\ NoEndLoad(<< Changed(d), Signal >>)
         /\ \A k : /\ Followed(<< Signal, EndJob(d, k), Changed(d) >>)
                   /\ NoEndLoad(<< Signal, EndJob(d, k), Changed(d) >>)
                   /\ Changed(d) \in Calls(<< Signal, EndJob(d, k), Changed(d) >>)
         /\ Changed(d) \in Calls(<< Changed(d) >>) /\ Changed(d) \in Calls(<< Changed(d), Signal >>)
         /\ WakesUp(Changed(d))
<1>1. << >> \in Seq(Frames) /\ Followed(<< >>) /\ NoEndLoad(<< >>)
  BY DEF Followed, NoEndLoad, Calls
<1>2. /\ Followed(<< Changed(d) >>) /\ NoEndLoad(<< Changed(d) >>)
      /\ Followed(<< Calling(d) >>) /\ NoEndLoad(<< Calling(d) >>)
  BY Ops DEF Followed, NoEndLoad, Calls
<1>3. Followed(<< Changed(d), Signal >>) /\ NoEndLoad(<< Changed(d), Signal >>)
  BY Ops DEF Followed, NoEndLoad, Calls
<1>4. ASSUME NEW k
      PROVE  /\ Followed(<< Signal, EndJob(d, k), Changed(d) >>)
             /\ NoEndLoad(<< Signal, EndJob(d, k), Changed(d) >>)
             /\ Changed(d) \in Calls(<< Signal, EndJob(d, k), Changed(d) >>)
  <2>. DEFINE x == EndJob(d, k)
              y == Changed(d)
  <2>1. Signal.op = "signal" /\ x.op = "end" /\ y.op = "changed"
    BY Ops
  <2>. HIDE DEF x, y
  <2>2. Followed(<< Signal, x, y >>) /\ NoEndLoad(<< Signal, x, y >>) /\ y \in Calls(<< Signal, x, y >>)
    <3>1. DOMAIN << Signal, x, y >> = 1 .. 3
      OBVIOUS
    <3>2. \A i \in 1 .. 3 : i = 1 \/ i = 2 \/ i = 3
      OBVIOUS
    <3>3. << Signal, x, y >>[1] = Signal /\ << Signal, x, y >>[2] = x /\ << Signal, x, y >>[3] = y
      OBVIOUS
    <3>4. Followed(<< Signal, x, y >>)
      BY <2>1, <3>1, <3>2, <3>3 DEF Followed
    <3>5. NoEndLoad(<< Signal, x, y >>)
      BY <2>1, <3>1, <3>2, <3>3 DEF NoEndLoad, Calls
    <3>6. 3 \in 1 .. 3
      OBVIOUS
    <3>7. y \in Calls(<< Signal, x, y >>)
      BY <3>1, <3>3, <3>6 DEF Calls
    <3>8. QED
      BY <3>4, <3>5, <3>7
  <2>3. QED
    BY <2>2 DEF x, y
<1>5. Changed(d) \in Calls(<< Changed(d) >>) /\ Changed(d) \in Calls(<< Changed(d), Signal >>)
  BY DEF Calls
<1>6. QED
  BY <1>1, <1>2, <1>3, <1>4, <1>5, Ops DEF WakesUp

\* The events of the main loop.
LEMMA MainLoopWakes ==
  ASSUME TypeOK, WakeInv, Listed = {}, MainLoop
  PROVE  WakeInv'
<1>1. stack = << >> /\ loading = {}
  BY DEF MainLoop, Request, Answer, AnswerCancelled, LoadDone, CallReadyCallbacks,
         DeepCountProgress, Rest, WakeInv, NoLoads
<1>2. CASE Request
  <2>1. << >> \in Seq(Frames) /\ Followed(<< >>) /\ NoEndLoad(<< >>)
    BY DEF Followed, NoEndLoad, Calls
  <2>2. ClientCall(<< >>)
    BY <1>2 DEF Request
  <2>3. /\ Followed(stack') /\ NoEndLoad(stack')
        /\ \E c \in Calls(stack') : WakesUp(c)
        /\ UNCHANGED << waiting, waking, inLoop, listWanted, loading >>
    BY <2>1, <2>2, ClientCallWakes
  <2>4. QED
    BY <1>1, <2>3, FromRest
<1>3. ASSUME NEW d \in Directories, NEW k \in Kinds, Answer(d, k)
      PROVE  WakeInv'
  <2>. DEFINE t == << Signal, EndJob(d, k), Changed(d) >>
  <2>1. /\ \/ stack' = t
           \/ stack' = << Signal >> \o t
           \/ stack' = << Changed(d), Signal >>
        /\ UNCHANGED << waiting, waking, inLoop, listWanted, loading >>
    <3>1. << Signal, Signal, EndJob(d, k), Changed(d) >> = << Signal >> \o t
      OBVIOUS
    <3>2. \/ stack' = t
          \/ stack' = << Signal, Signal, EndJob(d, k), Changed(d) >>
          \/ stack' = << Changed(d), Signal >>
      BY <1>3, Zenon DEF Answer
    <3>3. UNCHANGED << waiting, waking, inLoop, listWanted, loading >>
      BY <1>3, Zenon DEF Answer, listVars, loopVars
    <3>4. QED
      BY <3>1, <3>2, <3>3, Zenon
  <2>2. t \in Seq(Frames) /\ Followed(t) /\ NoEndLoad(t) /\ Changed(d) \in Calls(t)
    <3>1. Signal \in Frames /\ EndJob(d, k) \in Frames /\ Changed(d) \in Frames
      BY FramesType
    <3>2. t \in Seq(Frames)
      BY <3>1
    <3>3. Followed(t) /\ NoEndLoad(t) /\ Changed(d) \in Calls(t)
      BY EventStacks, Zenon
    <3>4. QED
      BY <3>2, <3>3
  <2>. HIDE DEF t
  <2>3. /\ Followed(<< Signal >> \o t) /\ NoEndLoad(<< Signal >> \o t)
        /\ Calls(<< Signal >> \o t) = {Signal} \cup Calls(t)
    BY <2>2, PlainCalls, PushKeeps
  <2>4. Followed(stack') /\ NoEndLoad(stack') /\ \E c \in Calls(stack') : WakesUp(c)
    BY <2>1, <2>2, <2>3, EventStacks
  <2>5. QED
    BY <1>1, <2>1, <2>4, FromRest
<1>4. ASSUME NEW d \in Directories, NEW k \in Kinds, AnswerCancelled(d, k)
      PROVE  WakeInv'
  <2>1. /\ stack' = << Changed(d) >>
        /\ UNCHANGED << waiting, waking, inLoop, listWanted, loading >>
    BY <1>4 DEF AnswerCancelled, listVars, loopVars
  <2>2. Followed(stack') /\ NoEndLoad(stack') /\ \E c \in Calls(stack') : WakesUp(c)
    BY <2>1, EventStacks
  <2>3. QED
    BY <1>1, <2>1, <2>2, FromRest
<1>5. ASSUME NEW d \in Directories, LoadDone(d)
      PROVE  WakeInv'
  BY <1>1, <1>5 DEF LoadDone
<1>6. ASSUME NEW d \in Directories, CallReadyCallbacks(d)
      PROVE  WakeInv'
  <2>1. /\ stack' = << Calling(d) >> /\ jobs' = jobs
        /\ UNCHANGED << waiting, waking, inLoop, listWanted, loading >>
    BY <1>6 DEF CallReadyCallbacks, listVars, loopVars, slotVars
  <2>2. Followed(stack') /\ NoEndLoad(stack')
    BY <2>1, EventStacks
  <2>3. QED
    BY <1>1, <2>1, <2>2, FromRest
<1>7. ASSUME NEW d \in Directories, DeepCountProgress(d)
      PROVE  WakeInv'
  <2>1. /\ stack' = << Signal >> /\ jobs' = jobs
        /\ UNCHANGED << waiting, waking, inLoop, listWanted, loading >>
    BY <1>7 DEF DeepCountProgress, listVars, loopVars, slotVars
  <2>2. Followed(<< Signal >>) /\ NoEndLoad(<< Signal >>)
    BY Ops DEF Followed, NoEndLoad, Calls
  <2>3. QED
    BY <1>1, <2>1, <2>2, FromRest
<1>8. QED
  BY <1>2, <1>3, <1>4, <1>5, <1>6, <1>7 DEF MainLoop

\* The calls that only pop themselves, or push what leads to a wake-up.
LEMMA CallsWake ==
  ASSUME TypeOK, WakeInv,
         \/ CallOne \/ CallNoMore \/ EnqueueFile \/ End \/ MarkOutdated \/ AnnounceLoaded
         \/ UnloadDirectory \/ ForgetFileList
  PROVE  WakeInv'
<1>1. stack # << >> /\ Top.op \notin {"service", "waking"}
  BY DEF CallOne, CallNoMore, EnqueueFile, End, MarkOutdated, AnnounceLoaded, UnloadDirectory,
         ForgetFileList, Pending
<1>2. /\ Below \in Seq(Frames) /\ Followed(Below) /\ NoEndLoad(Below)
      /\ Top.op = "end" => \E c \in Calls(Below) : WakesUp(c)
  BY <1>1, PopKeeps
<1>3. UNCHANGED << waiting, waking, inLoop, listWanted, loading >>
  BY DEF CallOne, CallNoMore, EnqueueFile, End, MarkOutdated, AnnounceLoaded, UnloadDirectory,
         ForgetFileList, slotVars, listVars, loopVars
<1>4. loading = {}
  BY DEF WakeInv, NoLoads
<1>5. ASSUME NEW d \in Directories
      PROVE  /\ Followed(<< Changed(d) >> \o Below) /\ NoEndLoad(<< Changed(d) >> \o Below)
             /\ Calls(Below) \subseteq Calls(<< Changed(d) >> \o Below)
             /\ \E c \in Calls(<< Changed(d) >> \o Below) : WakesUp(c)
             /\ Followed(<< Signal, Changed(d) >> \o Below)
             /\ NoEndLoad(<< Signal, Changed(d) >> \o Below)
             /\ Calls(Below) \subseteq Calls(<< Signal, Changed(d) >> \o Below)
             /\ \E c \in Calls(<< Signal, Changed(d) >> \o Below) : WakesUp(c)
  <2>. DEFINE x == Changed(d)
  <2>1. Plain(x) /\ Plain(Signal) /\ WakesUp(x)
    BY PlainCalls, Ops DEF WakesUp
  <2>. HIDE DEF x
  <2>2. /\ Followed(<< x >> \o Below) /\ NoEndLoad(<< x >> \o Below)
        /\ Calls(<< x >> \o Below) = {x} \cup Calls(Below)
        /\ Followed(<< Signal, x >> \o Below) /\ NoEndLoad(<< Signal, x >> \o Below)
        /\ Calls(<< Signal, x >> \o Below) = {Signal, x} \cup Calls(Below)
    BY <1>2, <2>1, PushKeeps
  <2>3. QED
    BY <2>1, <2>2 DEF x
<1>6. ASSUME NEW d \in Directories,
             stack' = << Changed(d) >> \o Below \/ stack' = << Signal, Changed(d) >> \o Below
      PROVE  WakeInv'
  BY <1>1, <1>3, <1>5, <1>6, PushedOnBelow
<1>7. ASSUME stack' = Below, ~WakesUp(Top), jobs' = jobs \/ Top.op = "end"
      PROVE  WakeInv'
  BY <1>1, <1>2, <1>3, <1>7, PushedOnBelow
<1>8. CASE CallOne
  <2>1. stack' = << Signal >> \o stack /\ jobs' = jobs /\ Top.op = "calling"
    BY <1>8 DEF CallOne, Pending, slotVars
  <2>2. stack \in Seq(Frames) /\ Followed(stack) /\ NoEndLoad(stack)
    BY DEF TypeOK, WakeInv, NoLoads
  <2>3. /\ Followed(stack') /\ NoEndLoad(stack') /\ Calls(stack') = {Signal} \cup Calls(stack)
        /\ Calls(stack) = {Top} \cup Calls(Below)
    <3>1. Plain(Signal)
      BY PlainCalls
    <3>2. /\ Followed(<< Signal >> \o stack) /\ NoEndLoad(<< Signal >> \o stack)
          /\ Calls(<< Signal >> \o stack) = {Signal} \cup Calls(stack)
      BY <2>2, <3>1, PushKeeps
    <3>3. Calls(stack) = {Top} \cup Calls(Below)
      BY <1>1, <2>2, CallsOf DEF Top, Below
    <3>4. QED
      BY <2>1, <3>2, <3>3
  <2>4. ~WakesUp(Top)
    BY <2>1 DEF WakesUp
  <2>5. QED
    BY <1>1, <1>3, <2>1, <2>3, <2>4, PushedOnBelow
<1>9. CASE CallNoMore
  <2>1. Top.dir \in Directories /\ stack' = << Changed(Top.dir) >> \o Below
    BY <1>1, <1>9, TopType DEF CallNoMore, Pending, TypeOK
  <2>2. QED
    BY <1>6, <2>1
<1>10. CASE EnqueueFile
  BY <1>7, <1>10 DEF EnqueueFile, Pending, WakesUp, slotVars
<1>11. CASE End
  BY <1>7, <1>11 DEF End, Pending, WakesUp
<1>12. CASE MarkOutdated
  <2>1. Top.file \in Files /\ stack' = << Changed(Home[Top.file]) >> \o Below
    BY <1>1, <1>12, TopType DEF MarkOutdated, Pending, TypeOK
  <2>2. Home[Top.file] \in Directories
    BY <2>1, DirectoryAsyncAssumption
  <2>3. QED
    BY <1>6, <2>1, <2>2
<1>13. CASE AnnounceLoaded
  <2>1. Top.dir \in Directories /\ Top.op = "announce" /\ jobs' = jobs
    BY <1>1, <1>13, TopType DEF AnnounceLoaded, Pending, TypeOK, slotVars
  <2>2. stack' = << Signal, Changed(Top.dir) >> \o Below \/ stack' = Below
    BY <1>13 DEF AnnounceLoaded
  <2>3. QED
    BY <1>6, <1>7, <2>1, <2>2 DEF WakesUp
<1>14. CASE UnloadDirectory
  BY <1>4, <1>7, <1>14 DEF UnloadDirectory, Pending, WakesUp, slotVars
<1>15. CASE ForgetFileList
  BY <1>7, <1>15 DEF ForgetFileList, Pending, WakesUp, slotVars
<1>16. QED
  BY <1>8, <1>9, <1>10, <1>11, <1>12, <1>13, <1>14, <1>15

\* A handler's call into the engine, and a reload that is under way.
LEMMA NestedWakes ==
  ASSUME TypeOK, WakeInv, Listed = {}, Handle \/ Reloading
  PROVE  WakeInv'
<1>1. stack # << >> /\ Top.op \notin {"service", "waking"} /\ ~WakesUp(Top)
  BY DEF Handle, Reloading, Pending, WakesUp
<1>2. Below \in Seq(Frames) /\ Followed(Below) /\ NoEndLoad(Below)
  BY <1>1, PopKeeps
<1>3. CASE Handle
  <2>1. CASE ClientCall(Below)
    <3>1. /\ Followed(stack') /\ NoEndLoad(stack') /\ Calls(Below) \subseteq Calls(stack')
          /\ \E c \in Calls(stack') : WakesUp(c)
          /\ UNCHANGED << waiting, waking, inLoop, listWanted, loading >>
      BY <1>2, <2>1, ClientCallWakes
    <3>2. QED
      BY <1>1, <3>1, PushedOnBelow
  <2>2. CASE ~ClientCall(Below)
    <3>1. stack' = Below /\ UNCHANGED << jobs, waiting, waking, inLoop, listWanted, loading >>
      BY <1>3, <2>2 DEF Handle, slotVars, listVars, loopVars
    <3>2. QED
      BY <1>1, <1>2, <3>1, PushedOnBelow
  <2>3. QED
    BY <2>1, <2>2
<1>4. CASE Reloading
  <2>1. Top.dir \in Directories /\ Top.step \in 1 .. 3
    BY <1>1, <1>4, TopType DEF Reloading, Pending, TypeOK
  <2>2. UNCHANGED << waiting, waking, inLoop, listWanted, loading >>
    BY <1>4 DEF Reloading, InvalidateAttributes, slotVars, loopVars
  <2>3. CASE Top.step = 1
    <3>. DEFINE x == Unload(Top.dir)
                y == Reload(Top.dir, 2)
    <3>1. stack' = << x, y >> \o Below /\ jobs' = jobs
      BY <1>4, <2>3 DEF Reloading, slotVars
    <3>2. Plain(x) /\ Plain(y)
      BY <2>1, PlainCalls
    <3>. HIDE DEF x, y
    <3>3. /\ Followed(stack') /\ NoEndLoad(stack') /\ Calls(Below) \subseteq Calls(stack')
      BY <1>2, <3>1, <3>2, PushKeeps
    <3>4. QED
      BY <1>1, <2>2, <3>1, <3>3, PushedOnBelow
  <2>4. CASE Top.step = 2
    <3>. DEFINE own == Corresponding[Top.dir]
                ks == LoadFills \cap Kinds
                x == Changed(Home[own])
                y == Outdate(own, RequestedBy(ks))
                z == Reload(Top.dir, 3)
                rest == << z >> \o Below
    <3>1. stack' = << x, y >> \o rest
      BY <1>4, <2>4 DEF Reloading, InvalidateAttributes
    <3>2. own \in Files /\ Home[own] \in Directories /\ RequestedBy(ks) \in SUBSET Kinds
      <4>1. own \in Files
        BY <2>1, DirectoryAsyncAssumption
      <4>2. Home[own] \in Directories
        BY <4>1, DirectoryAsyncAssumption
      <4>3. RequestedBy(ks) \in SUBSET Kinds
        BY DEF RequestedBy, RequestKinds
      <4>4. QED
        BY <4>1, <4>2, <4>3
    <3>3. Plain(x) /\ Plain(y) /\ Plain(z) /\ WakesUp(x)
      <4>. HIDE DEF own, ks
      <4>1. QED
        BY <2>1, <3>2, PlainCalls, Ops DEF WakesUp
    <3>. HIDE DEF x, y, z
    <3>4. /\ rest \in Seq(Frames) /\ Followed(rest) /\ NoEndLoad(rest)
          /\ Calls(rest) = {z} \cup Calls(Below)
      BY <1>2, <3>3, PushKeeps
    <3>. HIDE DEF rest
    <3>5. /\ Followed(stack') /\ NoEndLoad(stack')
          /\ Calls(stack') = {x, y} \cup Calls(rest)
      BY <3>1, <3>3, <3>4, PushKeeps
    <3>6. Calls(Below) \subseteq Calls(stack') /\ \E c \in Calls(stack') : WakesUp(c)
      BY <3>3, <3>4, <3>5
    <3>7. QED
      BY <1>1, <2>2, <3>5, <3>6, PushedOnBelow
  <2>5. CASE Top.step = 3
    <3>. DEFINE x == Changed(Top.dir)
                p == EnqueueAll(Top.dir)
    <3>1. stack' = p \o << x >> \o Below
      BY <1>4, <2>5 DEF Reloading
    <3>2. Plain(x) /\ WakesUp(x) /\ p \in Seq(Frames) /\ \A i \in DOMAIN p : p[i].op = "enqueue"
      BY <2>1, PlainCalls, Ops, EnqueueAllCalls DEF WakesUp
    <3>. HIDE DEF x, p
    <3>3. /\ << x >> \o Below \in Seq(Frames)
          /\ Followed(<< x >> \o Below) /\ NoEndLoad(<< x >> \o Below)
          /\ Calls(<< x >> \o Below) = {x} \cup Calls(Below)
      BY <1>2, <3>2, PushKeeps
    <3>4. stack' = p \o (<< x >> \o Below)
      <4>1. << x >> \in Seq(Frames)
        BY <3>2 DEF Plain
      <4>2. QED
        BY <1>2, <3>1, <3>2, <4>1
    <3>5. Followed(stack') /\ Calls(stack') = Calls(p) \cup Calls(<< x >> \o Below)
      BY <3>2, <3>3, <3>4, FollowedOf, CallsOf
    <3>6. NoEndLoad(stack')
      BY <3>2, <3>3, <3>5 DEF NoEndLoad, Calls
    <3>7. Calls(Below) \subseteq Calls(stack') /\ \E c \in Calls(stack') : WakesUp(c)
      BY <3>2, <3>3, <3>5
    <3>8. QED
      BY <1>1, <2>2, <3>5, <3>6, <3>7, PushedOnBelow
  <2>6. QED
    BY <2>1, <2>3, <2>4, <2>5
<1>5. QED
  BY <1>3, <1>4

\* async_job_wake_up goes on waking while a slot is free and somebody waits; a
\* nested one may return because the outer one is still at it.
LEMMA WakingWakes ==
  ASSUME TypeOK, WakeInv, WakeUp \/ WakeOne \/ WakeNoMore
  PROVE  WakeInv'
<1>1. stack # << >> /\ Top.op \in {"wake", "waking"} /\ stack \in Seq(Frames)
  BY DEF WakeUp, WakeOne, WakeNoMore, Pending, TypeOK
<1>2. /\ Below \in Seq(Frames) /\ Followed(Below) /\ NoEndLoad(Below) /\ InLoopPending(Below)
      /\ Top.op # "waking" => WakingPending(Below)
      /\ Calls(stack) = {Top} \cup Calls(Below)
  BY <1>1, PopKeeps, CallsOf DEF Top, Below
<1>3. UNCHANGED << jobs, inLoop, listWanted, loading >>
  BY DEF WakeUp, WakeOne, WakeNoMore, slotVars, listVars, loopVars
<1>4. NoLoads' <=> NoEndLoad(stack')
  BY <1>3 DEF WakeInv, NoLoads
<1>5. CASE WakeUp
  <2>1. waiting' = waiting /\ waking' = TRUE /\ Top.op = "wake"
        /\ stack' = IF waking THEN Below ELSE << Waking >> \o Below
    BY <1>5 DEF WakeUp, Pending
  <2>2. /\ Plain(Waking) /\ Waking.op = "waking" /\ WakesUp(Waking)
    BY PlainCalls, Ops DEF WakesUp
  <2>3. /\ Followed(<< Waking >> \o Below) /\ NoEndLoad(<< Waking >> \o Below)
        /\ Calls(<< Waking >> \o Below) = {Waking} \cup Calls(Below)
    BY <1>2, <2>2, PushKeeps
  <2>4. /\ Followed(stack') /\ NoEndLoad(stack') /\ Calls(Below) \subseteq Calls(stack')
    BY <1>2, <2>1, <2>3
  <2>5. \E c \in Calls(stack') : c.op = "waking"
    <3>1. CASE waking
      BY <1>2, <2>1, <3>1 DEF WakingPending
    <3>2. CASE ~waking
      BY <2>1, <2>2, <2>3, <3>2
    <3>3. QED
      BY <3>1, <3>2
  <2>6. \E c \in Calls(stack') : WakesUp(c)
    BY <2>5 DEF WakesUp
  <2>7. QED
    BY <1>2, <1>3, <1>4, <2>4, <2>5, <2>6
    DEF WakeInv, InLoopPending, WakingPending, WakeUpPending
<1>6. CASE WakeOne
  <2>1. PICK d \in Directories : stack' = << Changed(d) >> \o stack /\ waking' = waking
    BY <1>6 DEF WakeOne, TypeOK
  <2>. DEFINE x == Changed(d)
  <2>2. Plain(x) /\ WakesUp(x)
    BY PlainCalls, Ops DEF WakesUp
  <2>3. stack' = << x >> \o stack
    BY <2>1
  <2>. HIDE DEF x
  <2>4. Followed(stack) /\ NoEndLoad(stack)
    BY DEF WakeInv, NoLoads
  <2>5. /\ Followed(stack') /\ NoEndLoad(stack') /\ Calls(stack') = {x} \cup Calls(stack)
    BY <1>1, <2>2, <2>3, <2>4, PushKeeps
  <2>6. QED
    BY <1>2, <1>3, <1>4, <2>1, <2>2, <2>5
    DEF WakeInv, InLoopPending, WakingPending, WakeUpPending
<1>7. CASE WakeNoMore
  <2>1. stack' = Below /\ waking' = FALSE /\ waiting' = waiting /\ (jobs >= MaxAsyncJobs \/ waiting = {})
    BY <1>7 DEF WakeNoMore
  <2>2. ~(waiting' # {} /\ jobs' < MaxAsyncJobs)
    BY <1>3, <2>1, DirectoryAsyncAssumption DEF TypeOK
  <2>3. QED
    BY <1>2, <1>3, <1>4, <2>1, <2>2
    DEF WakeInv, InLoopPending, WakingPending, WakeUpPending
<1>8. QED
  BY <1>5, <1>6, <1>7

\* The service loop: until it ends it stays on the stack, and its end wakes up.
LEMMA ServiceWakes ==
  ASSUME TypeOK, WakeInv,
         \/ StartFileList \/ StopFileList \/ StopUnwanted \/ StopsDone \/ StartExtensionAtOnce
         \/ CallReady
         \/ \E level \in Levels : StartJob(level) \/ Skip(level) \/ FinishHead(level) \/ NextLevel(level)
  PROVE  WakeInv'
<1>1. stack # << >> /\ stack \in Seq(Frames) /\ Top.op = "service"
  BY ZenonT(60) DEF StartFileList, StopFileList, StopUnwanted, StopsDone, StartExtensionAtOnce, CallReady,
         StartJob, Skip, FinishHead, NextLevel, AtPhase, Pending, TypeOK
<1>2. /\ Top.dir \in Directories /\ Top.i \in Nat /\ Top.io \in Files \cup {NoFile}
      /\ Below \in Seq(Frames) /\ Followed(Below) /\ NoEndLoad(Below)
  BY <1>1, TopType, PopKeeps
<1>3. UNCHANGED << waking, listWanted, loading >> \/ StartFileList
  BY DEF StopFileList, StopUnwanted, StopsDone, StartExtensionAtOnce, CallReady, StartJob,
         Skip, FinishHead, NextLevel, slotVars, listVars, TakeSlot, NoSlot
<1>4. ASSUME NEW at \in Phases, NEW i \in Nat, NEW io \in Files \cup {NoFile}
      PROVE  LET x == ServiceAt(Top.dir, at, i, io)
             IN  /\ Plain(x) /\ x.op = "service" /\ x.dir = Top.dir
                 /\ << x >> \o Below \in Seq(Frames)
                 /\ Followed(<< x >> \o Below) /\ NoEndLoad(<< x >> \o Below)
                 /\ Calls(<< x >> \o Below) = {x} \cup Calls(Below)
  <2>. DEFINE x == ServiceAt(Top.dir, at, i, io)
  <2>1. Plain(x) /\ x.op = "service" /\ x.dir = Top.dir
    BY <1>2, PlainCalls, Ops
  <2>. HIDE DEF x
  <2>2. /\ << x >> \o Below \in Seq(Frames)
        /\ Followed(<< x >> \o Below) /\ NoEndLoad(<< x >> \o Below)
        /\ Calls(<< x >> \o Below) = {x} \cup Calls(Below)
    BY <1>2, <2>1, PushKeeps
  <2>3. QED
    BY <2>1, <2>2 DEF x
<1>5. ASSUME NEW at \in Phases, NEW i \in Nat, NEW io \in Files \cup {NoFile}, GoTo(at, i, io),
             UNCHANGED << waking, inLoop, listWanted, loading >>
      PROVE  WakeInv'
  <2>. DEFINE x == ServiceAt(Top.dir, at, i, io)
  <2>1. stack' = << x >> \o Below
    BY <1>5 DEF GoTo
  <2>2. /\ x.op = "service" /\ x.dir = Top.dir
        /\ Followed(<< x >> \o Below) /\ NoEndLoad(<< x >> \o Below)
        /\ Calls(<< x >> \o Below) = {x} \cup Calls(Below)
    BY <1>4
  <2>. HIDE DEF x
  <2>3. QED
    BY <1>1, <1>5, <2>1, <2>2, RoundGoesOn
<1>6. {"list", "stop", "ready", "high", "low", "extension"} \subseteq Phases /\ 1 \in Nat /\ 2 \in Nat
  BY LevelsAre DEF Phases
<1>7. CASE StartFileList
  BY <1>7 DEF StartFileList, WakeInv, NoLoads
<1>8. CASE StopFileList
  <2>. DEFINE x == ServiceAt(Top.dir, "stop", 1, NoFile)
              u == Unload(Top.dir)
              v == Unlist(Top.dir)
              next == << x >> \o Below
  <2>1. stack' = << u, v >> \o next \/ stack' = next
    BY <1>8 DEF StopFileList
  <2>2. inLoop' = inLoop /\ UNCHANGED << waking, listWanted, loading >>
    BY <1>8 DEF StopFileList, slotVars, loopVars
  <2>3. /\ x.op = "service" /\ x.dir = Top.dir /\ next \in Seq(Frames)
        /\ Followed(next) /\ NoEndLoad(next) /\ Calls(next) = {x} \cup Calls(Below)
    BY <1>4, <1>6
  <2>4. Plain(u) /\ Plain(v)
    BY <1>2, PlainCalls
  <2>. HIDE DEF x, u, v, next
  <2>5. /\ Followed(<< u, v >> \o next) /\ NoEndLoad(<< u, v >> \o next)
        /\ Calls(<< u, v >> \o next) = {u, v} \cup Calls(next)
    BY <2>3, <2>4, PushKeeps
  <2>6. /\ Followed(stack') /\ NoEndLoad(stack') /\ Calls(Below) \subseteq Calls(stack')
        /\ x \in Calls(stack')
    BY <2>1, <2>3, <2>5
  <2>7. QED
    BY <1>1, <2>2, <2>3, <2>6, RoundGoesOn
<1>9. CASE StopUnwanted
  <2>1. PICK j \in NextJob(StopOrder, Top.i) : GoTo("stop", j + 1, NoFile)
    BY <1>9 DEF StopUnwanted
  <2>2. j + 1 \in Nat
    BY <1>2, <2>1 DEF NextJob, StopOrder
  <2>3. UNCHANGED << waking, inLoop, listWanted, loading >>
    BY <1>9 DEF StopUnwanted, listVars, loopVars
  <2>4. QED
    BY <1>5, <1>6, <2>1, <2>2, <2>3
<1>10. CASE StopsDone
  BY <1>5, <1>6, <1>10 DEF StopsDone, slotVars, listVars, loopVars
<1>11. ASSUME NEW level \in Levels, StartJob(level)
       PROVE  WakeInv'
  <2>1. PICK j \in NextJob(StartOrder[level], Top.i) :
          LET k == StartOrder[level][j]
              f == FileTried(level)
          IN  GoTo(level, j + 1,
                   IF Top.io # NoFile \/ Running(Top.dir, k) \/ Needy(f, k) THEN f ELSE NoFile)
    BY <1>11, Zenon DEF StartJob
  <2>2. j + 1 \in Nat
    BY <1>2, <2>1, LevelsAre DEF NextJob, StartOrder
  <2>3. UNCHANGED << waking, inLoop, listWanted, loading >>
    BY <1>11 DEF StartJob, listVars, loopVars, slotVars, TakeSlot, NoSlot
  <2>4. level \in Phases
    BY DEF Phases
  <2>5. QED
    <3>1. PICK io \in Files \cup {NoFile} : GoTo(level, j + 1, io)
      <4>1. FileTried(level) \in Files
        BY <1>11, FileTriedType DEF StartJob, TypeOK
      <4>2. GoTo(level, j + 1, FileTried(level)) \/ GoTo(level, j + 1, NoFile)
        BY <2>1
      <4>3. QED
        BY <4>1, <4>2, Zenon
    <3>2. QED
      BY <1>5, <2>2, <2>3, <2>4, <3>1
<1>12. ASSUME NEW level \in Levels, FinishHead(level)
       PROVE  WakeInv'
  <2>1. GoTo("ready", 1, NoFile) \/ GoTo(level, 1, NoFile)
    BY <1>12, Zenon DEF FinishHead
  <2>2. UNCHANGED << waking, inLoop, listWanted, loading >>
    BY <1>12 DEF FinishHead, listVars, loopVars, slotVars
  <2>3. level \in Phases
    BY DEF Phases
  <2>4. QED
    BY <1>5, <1>6, <2>1, <2>2, <2>3
<1>13. ASSUME NEW level \in Levels, NextLevel(level)
       PROVE  WakeInv'
  <2>1. \E at \in {"low", "extension", "ready"} : GoTo(at, 1, NoFile)
    BY <1>13, LevelsAre DEF NextLevel
  <2>2. UNCHANGED << waking, inLoop, listWanted, loading >>
    BY <1>13 DEF NextLevel, listVars, loopVars, slotVars
  <2>3. QED
    BY <1>5, <1>6, <2>1, <2>2
<1>14. CASE StartExtensionAtOnce
  <2>. DEFINE f == Head(queue[Top.dir].extension)
              x == ServiceAt(Top.dir, "extension", 2, f)
              y == EndJob(Top.dir, "extension_info")
              next == << x >> \o Below
  <2>1. /\ stack' = << Signal, y, x >> \o Below /\ "extension_info" \in Kinds
        /\ UNCHANGED << waking, inLoop, listWanted, loading >>
    BY <1>14 DEF StartExtensionAtOnce, TakeSlot, listVars
  <2>2. /\ x.op = "service" /\ x.dir = Top.dir /\ next \in Seq(Frames) /\ Plain(x)
        /\ Followed(next) /\ NoEndLoad(next) /\ Calls(next) = {x} \cup Calls(Below)
    <3>1. f \in Files
      BY <1>2, <1>14, LevelsAre DEF StartExtensionAtOnce, TypeOK
    <3>. HIDE DEF f
    <3>2. QED
      BY <1>4, <1>6, <3>1
  <2>3. Plain(Signal) /\ y \in Frames /\ y.op = "end"
    BY <1>2, <2>1, FramesType, PlainCalls, Ops
  <2>4. Head(next) = x /\ next # << >>
    <3>1. x \in Frames
      BY <2>2 DEF Plain
    <3>. HIDE DEF x
    <3>2. QED
      BY <1>2, <3>1
  <2>5. stack' = << Signal >> \o (<< y >> \o next)
    <3>1. x \in Frames /\ y \in Frames /\ Signal \in Frames
      BY <2>2, <2>3 DEF Plain
    <3>. HIDE DEF x, y
    <3>2. \A u \in Seq(Frames), a, b, c \in Frames :
            << a, b, c >> \o u = << a >> \o (<< b >> \o (<< c >> \o u))
      BY PushedInTurn
    <3>3. << Signal, y, x >> \o Below = << Signal >> \o (<< y >> \o (<< x >> \o Below))
      BY <1>2, <3>1, <3>2, SMTT(30)
    <3>4. QED
      BY <2>1, <3>3
  <2>. DEFINE rest == << y >> \o next
  <2>. HIDE DEF x, y, next
  <2>6. rest \in Seq(Frames) /\ Calls(rest) = {y} \cup Calls(next) /\ Followed(rest)
    <3>1. << y >> \in Seq(Frames)
      BY <2>3
    <3>2. Calls(rest) = {y} \cup Calls(next)
      BY <2>2, <2>3, CallsOf
    <3>3. Followed(rest)
      BY <2>2, <2>3, <2>4, FollowedOf
    <3>4. QED
      BY <2>2, <3>1, <3>2, <3>3
  <2>7. NoEndLoad(rest)
    BY <2>2, <2>3, <2>6 DEF NoEndLoad
  <2>8. stack' = << Signal >> \o rest
    BY <2>5
  <2>. HIDE DEF rest
  <2>9. /\ Followed(stack') /\ NoEndLoad(stack') /\ Calls(stack') = {Signal} \cup Calls(rest)
    BY <2>3, <2>6, <2>7, <2>8, PushKeeps
  <2>10. QED
    BY <1>1, <2>1, <2>2, <2>6, <2>9, RoundGoesOn
<1>15. CASE CallReady
  <2>1. UNCHANGED << jobs, waiting, waking, listWanted, loading >>
    BY <1>15 DEF CallReady, slotVars, listVars
  <2>2. CASE inLoop' = inLoop /\ GoTo("list", 1, NoFile)
    BY <1>5, <1>6, <2>1, <2>2
  <2>3. CASE inLoop' = inLoop \ {Top.dir} /\ stack' = << Wake >> \o Below
    <3>1. Plain(Wake) /\ WakesUp(Wake)
      BY PlainCalls, Ops DEF WakesUp
    <3>2. /\ Followed(stack') /\ NoEndLoad(stack') /\ Calls(stack') = {Wake} \cup Calls(Below)
      BY <1>2, <2>3, <3>1, PushKeeps
    <3>3. /\ \A d \in inLoop : d # Top.dir => \E c \in Calls(Below) : c.op = "service" /\ c.dir = d
          /\ WakingPending(Below)
      BY <1>1, PopKeeps
    <3>4. NoLoads'
      BY <2>1, <3>2 DEF WakeInv, NoLoads
    <3>5. QED
      BY <2>1, <2>3, <3>1, <3>2, <3>3, <3>4
      DEF WakeInv, InLoopPending, WakingPending, WakeUpPending
  <2>4. QED
    BY <1>15, <2>2, <2>3, Zenon DEF CallReady
<1>16. ASSUME NEW level \in Levels, Skip(level)
       PROVE  WakeInv'
  <2>1. PICK j \in NextJob(StartOrder[level], Top.i) :
          \/ stack' = << ServiceAt(Top.dir, level, j + 1, FileTried(level)) >> \o Below
          \/ stack' = << Signal, ServiceAt(Top.dir, level, j + 1, FileTried(level)) >> \o Below
    BY <1>16, Zenon DEF Skip
  <2>2. j + 1 \in Nat /\ level \in Phases
    <3>1. j + 1 \in Nat
      BY LevelsAre DEF NextJob, StartOrder
    <3>2. level \in Phases
      BY DEF Phases
    <3>3. QED
      BY <3>1, <3>2
  <2>3. UNCHANGED << waking, inLoop, listWanted, loading >>
    BY <1>16 DEF Skip, listVars, slotVars
  <2>. DEFINE x == ServiceAt(Top.dir, level, j + 1, FileTried(level))
  <2>4. /\ Plain(x) /\ x.op = "service" /\ x.dir = Top.dir
        /\ Followed(<< x >> \o Below) /\ NoEndLoad(<< x >> \o Below)
        /\ Calls(<< x >> \o Below) = {x} \cup Calls(Below)
    <3>1. FileTried(level) \in Files
      BY <1>16, FileTriedType DEF Skip, TypeOK
    <3>2. QED
      BY <1>4, <2>2, <3>1
  <2>5. stack' = << x >> \o Below \/ stack' = << Signal, x >> \o Below
    BY <2>1
  <2>. HIDE DEF x
  <2>6. /\ Followed(<< Signal, x >> \o Below) /\ NoEndLoad(<< Signal, x >> \o Below)
        /\ Calls(<< Signal, x >> \o Below) = {Signal, x} \cup Calls(Below)
    BY <1>2, <2>4, PlainCalls, PushKeeps
  <2>7. /\ Followed(stack') /\ NoEndLoad(stack') /\ Calls(Below) \subseteq Calls(stack')
        /\ x \in Calls(stack')
    BY <2>4, <2>5, <2>6
  <2>8. QED
    BY <1>1, <2>3, <2>4, <2>7, RoundGoesOn
<1>17. QED
  BY <1>7, <1>8, <1>9, <1>10, <1>11, <1>12, <1>13, <1>14, <1>15, <1>16, SMTT(30)

\* Its entry: a nested call only sets state_changed, and relies on the pass below.
LEMMA EntryWakes ==
  ASSUME TypeOK, WakeInv, StateChanged
  PROVE  WakeInv'
<1>1. stack # << >> /\ stack \in Seq(Frames) /\ Top.op = "changed"
  BY DEF StateChanged, Pending, TypeOK
<1>2. /\ Top.dir \in Directories
      /\ Below \in Seq(Frames) /\ Followed(Below) /\ NoEndLoad(Below)
      /\ InLoopPending(Below) /\ WakingPending(Below)
  BY <1>1, TopType, PopKeeps
<1>3. UNCHANGED << jobs, waiting, waking, listWanted, loading >>
  BY DEF StateChanged, slotVars, listVars
<1>4. CASE Top.dir \in inLoop
  <2>1. stack' = Below /\ inLoop' = inLoop
    BY <1>4 DEF StateChanged
  <2>2. \E c \in Calls(stack') : WakesUp(c)
    BY <1>2, <1>4, <2>1 DEF InLoopPending, WakesUp
  <2>3. QED
    BY <1>1, <1>2, <1>3, <2>1, <2>2, PushedOnBelow
<1>5. CASE Top.dir \notin inLoop
  <2>. DEFINE x == ServiceAt(Top.dir, "list", 1, NoFile)
  <2>1. stack' = << x >> \o Below /\ inLoop' = inLoop \cup {Top.dir}
    BY <1>5 DEF StateChanged, GoTo
  <2>2. Plain(x) /\ x.op = "service" /\ x.dir = Top.dir
    <3>1. "list" \in Phases /\ 1 \in Nat
      BY DEF Phases
    <3>2. ASSUME NEW io \in Files \cup {NoFile}
          PROVE  LET y == ServiceAt(Top.dir, "list", 1, io)
                 IN  Plain(y) /\ y.op = "service" /\ y.dir = Top.dir
      BY <1>2, <3>1, PlainCalls, Ops
    <3>3. NoFile \in Files \cup {NoFile}
      OBVIOUS
    <3>4. QED
      BY <3>2, <3>3, Zenon
  <2>. HIDE DEF x
  <2>3. /\ Followed(stack') /\ NoEndLoad(stack') /\ Calls(stack') = {x} \cup Calls(Below)
    BY <1>2, <2>1, <2>2, PushKeeps
  <2>4. NoLoads'
    BY <1>3, <2>3 DEF WakeInv, NoLoads
  <2>5. QED
    BY <1>2, <1>3, <2>1, <2>2, <2>3, <2>4
    DEF WakeInv, InLoopPending, WakingPending, WakeUpPending, WakesUp
<1>6. QED
  BY <1>4, <1>5

-----------------------------------------------------------------------------
(* The theorems.                                                           *)

\* WakeInv holds in the beginning, and is kept where no directory is listed.
LEMMA WakeInvInductive ==
  ASSUME Listed = {}
  PROVE  /\ Init => WakeInv
         /\ TypeOK /\ WakeInv /\ [Next]_vars => WakeInv'
<1>1. ASSUME Init PROVE WakeInv
  <2>1. stack = << >> /\ inLoop = {} /\ waking = FALSE /\ waiting = {} /\ listWanted = {} /\ loading = {}
    BY <1>1 DEF Init
  <2>2. Calls(stack) = {} /\ Followed(stack)
    BY <2>1 DEF Calls, Followed
  <2>3. QED
    BY <2>1, <2>2
    DEF WakeInv, NoLoads, NoEndLoad, InLoopPending, WakingPending, WakeUpPending
<1>2. ASSUME TypeOK, WakeInv, [Next]_vars PROVE WakeInv'
  <2>1. CASE MainLoop
    BY <1>2, <2>1, MainLoopWakes
  <2>2. CASE Step
    <3>1. EndDirectoryLoad => FALSE
      <4>1. stack # << >> => Top.op # "endload"
        BY <1>2, PopKeeps
      <4>2. QED
        BY <4>1 DEF EndDirectoryLoad, Pending
    <3>2. CASE Handle \/ Reloading
      BY <1>2, <3>2, NestedWakes
    <3>3. CASE \/ CallOne \/ CallNoMore \/ EnqueueFile \/ End \/ MarkOutdated \/ AnnounceLoaded
               \/ UnloadDirectory \/ ForgetFileList
      BY <1>2, <3>3, CallsWake
    <3>4. CASE StateChanged
      BY <1>2, <3>4, EntryWakes
    <3>5. CASE \/ StartFileList \/ StopFileList \/ StopUnwanted \/ StopsDone
               \/ StartExtensionAtOnce \/ CallReady
               \/ \E level \in Levels : StartJob(level) \/ Skip(level) \/ FinishHead(level) \/ NextLevel(level)
      BY <1>2, <3>5, ServiceWakes
    <3>6. CASE WakeUp \/ WakeOne \/ WakeNoMore
      BY <1>2, <3>6, WakingWakes
    <3>7. QED
      BY <2>2, <3>1, <3>2, <3>3, <3>4, <3>5, <3>6 DEF Step
  <2>3. CASE UNCHANGED vars
    <3>1. UNCHANGED << jobs, waiting, waking, listWanted, loading, inLoop, stack >>
      BY <2>3 DEF vars, slotVars, listVars, loopVars
    <3>2. QED
      BY <1>2, <3>1 DEF WakeInv, NoLoads, InLoopPending, WakingPending, WakeUpPending
  <2>4. QED
    BY <1>2, <2>1, <2>2, <2>3 DEF Next
<1>3. QED
  BY <1>1, <1>2

\* Clients that only read attributes never make the engine lose a wake-up, whatever
\* handlers, invalidations and cancellations nest: when the main loop waits, a
\* directory waits for a slot only while every slot is taken.
THEOREM NoWakeUpIsLost == ASSUME Listed = {} PROVE Spec => []NoLostWakeUp
<1>1. Init => WakeInv
  BY WakeInvInductive
<1>2. TypeOK /\ WakeInv /\ [Next]_vars => WakeInv'
  BY WakeInvInductive
<1>3. TypeOK /\ WakeInv => NoLostWakeUp
  <2>1. SUFFICES ASSUME TypeOK, WakeInv, Rest, waiting # {} PROVE jobs = MaxAsyncJobs
    BY DEF NoLostWakeUp
  <2>2. Calls(stack) = {}
    BY <2>1 DEF Calls, Rest
  <2>3. ~(jobs < MaxAsyncJobs)
    BY <2>1, <2>2 DEF WakeInv, WakeUpPending
  <2>4. QED
    BY <2>1, <2>3, DirectoryAsyncAssumption DEF TypeOK
<1>4. QED
  BY <1>1, <1>2, <1>3, TypeCorrect, PTL DEF Spec

\* Nor do they make it end a job that was not started, as long as the first lines of
\* text files are not among what they read: async_job_count is exact.
THEOREM AttributeSlotsExact ==
  ASSUME Listed = {}, "top_left" \notin Kinds
  PROVE  Spec => [](EndsOnlyStartedJobs /\ JobsExact)
<1>1. Init => WakeInv
  BY WakeInvInductive
<1>2. TypeOK /\ WakeInv /\ [Next]_vars => WakeInv'
  BY WakeInvInductive
<1>3. TypeOK /\ WakeInv => EndsOnlyStartedJobs
  <2>1. SUFFICES ASSUME TypeOK, WakeInv PROVE EndsOnlyStartedJobs
    OBVIOUS
  <2>2. ASSUME Pending("end"), Top.kind \in SignalsBeforeClear PROVE FALSE
    <3>1. Top.kind \in Kinds
      BY <2>1, <2>2, TopType DEF Pending, TypeOK
    <3>2. QED
      BY <2>2, <3>1, JobsAre
  <2>3. ASSUME Pending("endload") PROVE FALSE
    BY <2>1, <2>3, PopKeeps DEF Pending
  <2>4. QED
    BY <2>2, <2>3 DEF EndsOnlyStartedJobs
<1>4. QED
  BY <1>1, <1>2, <1>3, TypeCorrect, SlotsExact, PTL DEF Spec

-----------------------------------------------------------------------------
(***************************************************************************)
(* Answers to questions that were asked too early.                         *)
(***************************************************************************)
\* What was asked before an invalidation was told to stop, and is not believed.
StaleInv == stale \subseteq cancelled /\ tainted = {}

\* What is cancelled with all that is invalidated leaves no stale job that goes on.
LEMMA CancelledStale ==
  ASSUME TypeOK, stale \subseteq cancelled,
         NEW cancels, NEW invalid, invalid \subseteq {job \in cancels : current[job] # NoFile},
         CancelJobs(cancels, invalid)
  PROVE  stale' \subseteq cancelled'
BY DEF CancelJobs

\* No client call puts out of date what is still being read.
LEMMA ClientCallStale ==
  ASSUME TypeOK, StaleInv, "changed" \notin Uses \/ NotifiedKinds = {},
         "extension_info" \notin Kinds \/ "invalidate" \notin Uses,
         NEW rest, ClientCall(rest)
  PROVE  StaleInv'
<1>1. \A r \in Requests : r[1] \in Files /\ r[2] \in Kinds
  BY DirectoryAsyncAssumption
<1>2. ASSUME NEW r \in Requests,
             \/ MonitorAdd(r[1], r[2], rest) \/ MonitorRemove(r[1], r[2], rest)
             \/ CallWhenReady(r[1], r[2], rest) \/ CancelCallback(r[1], r[2], rest)
      PROVE  UNCHANGED << stale, cancelled, tainted >>
  BY <1>2 DEF MonitorAdd, MonitorRemove, CallWhenReady, CancelCallback, jobVars, attributeVars
<1>3. ASSUME NEW d \in Listed, ListMonitorAdd(d, rest) \/ ListMonitorRemove(d, rest)
      PROVE  UNCHANGED << stale, cancelled, tainted >>
  BY <1>3 DEF ListMonitorAdd, ListMonitorRemove, jobVars, attributeVars
<1>4. ASSUME NEW d \in Listed, ForceReload(d, rest)
      PROVE  stale' \subseteq cancelled' /\ UNCHANGED tainted
  <2>. DEFINE jobsOf == {job \in {d} \X ReloadedKinds : current[job] # NoFile}
  <2>1. CancelJobs(jobsOf, jobsOf) /\ jobsOf \subseteq {job \in jobsOf : current[job] # NoFile}
    BY <1>4 DEF ForceReload
  <2>2. UNCHANGED tainted
    BY <1>4 DEF ForceReload, attributeVars
  <2>. HIDE DEF jobsOf
  <2>3. QED
    BY <2>1, <2>2, CancelledStale DEF StaleInv
<1>5. ASSUME NEW r \in Requests, InvalidateAttributes(r[1], {r[2]}, rest), "extension_info" \notin Kinds
      PROVE  stale' \subseteq cancelled'
  <2>. DEFINE jobsOf == {job \in {Home[r[1]]} \X RequestedBy({r[2]}) : current[job] = r[1]}
              cancels == {job \in jobsOf : job[2] # "extension_info"}
              invalid == {job \in jobsOf : job[2] # "filesystem_info"}
  <2>1. CancelJobs(cancels, invalid)
    BY <1>5 DEF InvalidateAttributes
  <2>2. RequestedBy({r[2]}) \subseteq Kinds
    BY <1>1 DEF RequestedBy, RequestKinds
  <2>3. \A job \in jobsOf : job[2] # "extension_info"
    BY <1>5, <2>2
  <2>4. r[1] # NoFile
    BY <1>1, DirectoryAsyncAssumption
  <2>5. invalid \subseteq {job \in cancels : current[job] # NoFile}
    BY <2>3, <2>4
  <2>. HIDE DEF cancels, invalid
  <2>6. QED
    BY <2>1, <2>5, CancelledStale DEF StaleInv
<1>6. ASSUME NEW r \in Requests, NotifyFilesChanged(r[1], rest), NotifiedKinds = {}
      PROVE  UNCHANGED << stale, cancelled, tainted >>
  BY <1>6 DEF NotifyFilesChanged
<1>7. QED
  BY <1>2, <1>3, <1>4, <1>5, <1>6, Zenon DEF ClientCall, StaleInv, attributeVars

\* A stale job is cancelled, so its answer sets no flag; a job that is started is
\* not stale.
LEMMA StepsStale ==
  ASSUME TypeOK, StaleInv, "changed" \notin Uses \/ NotifiedKinds = {},
         "extension_info" \notin Kinds \/ "invalidate" \notin Uses, [Next]_vars
  PROVE  StaleInv'
<1>1. CASE Request \/ Handle
  <2>1. (\E rest : ClientCall(rest)) \/ UNCHANGED << jobVars, attributeVars >>
    BY <1>1, Zenon DEF Request, Handle
  <2>2. QED
    BY <2>1, ClientCallStale DEF StaleInv, jobVars, attributeVars
<1>2. ASSUME NEW d \in Directories, NEW k \in Kinds, Answer(d, k)
      PROVE  StaleInv'
  BY <1>2 DEF Answer, StaleInv
<1>3. ASSUME NEW d \in Directories, NEW k \in Kinds, AnswerCancelled(d, k)
      PROVE  StaleInv'
  BY <1>3 DEF AnswerCancelled, StaleInv, attributeVars
<1>4. CASE Reloading
  <2>1. Top.dir \in Directories
    <3>1. stack # << >> /\ Top.op = "reload"
      BY <1>4 DEF Reloading, Pending
    <3>2. QED
      BY <3>1, TopType DEF TypeOK
  <2>. DEFINE own == Corresponding[Top.dir]
              rest == << Reload(Top.dir, 3) >> \o Below
              jobsOf == {job \in {Home[own]} \X RequestedBy(LoadFills \cap Kinds) : current[job] = own}
              cancels == {job \in jobsOf : job[2] # "extension_info"}
              invalid == {job \in jobsOf : job[2] # "filesystem_info"}
  <2>2. \/ UNCHANGED jobVars
        \/ InvalidateAttributes(own, LoadFills \cap Kinds, rest)
    BY <1>4, Zenon DEF Reloading
  <2>3. tainted' \subseteq tainted
    BY <1>4 DEF Reloading, attributeVars
  <2>4. ASSUME InvalidateAttributes(own, LoadFills \cap Kinds, rest)
        PROVE  stale' \subseteq cancelled'
    <3>1. CancelJobs(cancels, invalid)
      BY <2>4 DEF InvalidateAttributes
    <3>2. own \in Files /\ own # NoFile
      BY <2>1, DirectoryAsyncAssumption
    <3>3. \A job \in jobsOf : job[2] # "extension_info"
      BY DEF RequestedBy, RequestKinds, LoadFills, AsksInfo
    <3>4. invalid \subseteq {job \in cancels : current[job] # NoFile}
      BY <3>2, <3>3
    <3>. HIDE DEF cancels, invalid
    <3>5. QED
      BY <3>1, <3>4, CancelledStale DEF StaleInv
  <2>5. QED
    BY <2>2, <2>3, <2>4 DEF StaleInv, jobVars
<1>5. CASE StopUnwanted
  <2>1. PICK cancels : CancelJobs(cancels, {})
    BY <1>5, Zenon DEF StopUnwanted
  <2>2. UNCHANGED tainted
    BY <1>5 DEF StopUnwanted, attributeVars
  <2>3. QED
    BY <2>1, <2>2, CancelledStale DEF StaleInv
<1>6. ASSUME NEW level \in Levels, StartJob(level)
      PROVE  StaleInv'
  <2>1. stale' \subseteq stale /\ UNCHANGED << cancelled, tainted >>
    BY <1>6 DEF StartJob, jobVars, attributeVars
  <2>2. QED
    BY <2>1 DEF StaleInv
<1>7. CASE \/ (\E level \in Levels : Skip(level)) \/ StartExtensionAtOnce \/ MarkOutdated
           \/ AnnounceLoaded \/ End
  <2>1. UNCHANGED << stale, cancelled >> /\ tainted' \subseteq tainted
    BY <1>7 DEF Skip, StartExtensionAtOnce, MarkOutdated, AnnounceLoaded, End, jobVars, attributeVars
  <2>2. QED
    BY <2>1 DEF StaleInv
<1>8. CASE \/ \E d \in Directories : DeepCountProgress(d) \/ LoadDone(d) \/ CallReadyCallbacks(d)
           \/ CallOne \/ CallNoMore \/ EnqueueFile \/ UnloadDirectory \/ EndDirectoryLoad
           \/ ForgetFileList \/ StateChanged \/ StartFileList \/ StopFileList \/ StopsDone
           \/ (\E level \in Levels : FinishHead(level) \/ NextLevel(level))
           \/ CallReady \/ WakeUp \/ WakeOne \/ WakeNoMore
  <2>1. UNCHANGED << stale, cancelled, tainted >>
    BY <1>8 DEF DeepCountProgress, LoadDone, CallReadyCallbacks, CallOne, CallNoMore, EnqueueFile,
       UnloadDirectory, EndDirectoryLoad, ForgetFileList, StateChanged, StartFileList,
       StopFileList, StopsDone, FinishHead, NextLevel, CallReady, WakeUp, WakeOne, WakeNoMore,
       jobVars, attributeVars
  <2>2. QED
    BY <2>1 DEF StaleInv
<1>9. CASE UNCHANGED vars
  BY <1>9 DEF vars, StaleInv, jobVars, attributeVars
<1>10. QED
  BY <1>1, <1>2, <1>3, <1>4, <1>5, <1>6, <1>7, <1>8, <1>9, Zenon DEF Next, MainLoop, Step

\* "Is up to date" is never said because of an answer to a question that was asked
\* before the attribute was invalidated, whatever cancellations, reloads and late
\* callbacks nest; extension info must not be invalidated (there is no case for it,
\* baul_directory_cancel_loading_file_attributes) and no change be reported
\* that puts out of date what is read (baul_directory_notify_files_changed stops
\* nothing).
THEOREM AnswersAreCurrent ==
  ASSUME "changed" \notin Uses \/ NotifiedKinds = {}, "extension_info" \notin Kinds \/ "invalidate" \notin Uses
  PROVE  Spec => []NoStaleAnswer
<1>1. Init => StaleInv
  BY DEF Init, StaleInv
<1>2. TypeOK /\ StaleInv /\ [Next]_vars => StaleInv'
  BY StepsStale
<1>3. StaleInv => NoStaleAnswer
  BY DEF StaleInv, NoStaleAnswer
<1>4. QED
  BY <1>1, <1>2, <1>3, TypeCorrect, PTL DEF Spec

-----------------------------------------------------------------------------
(***************************************************************************)
(* What is pending, whatever clients do: how the calls on the stack follow *)
(* each other, that a directory in its service loop has its pass among     *)
(* them, and that its queues and jobs are for its own files.               *)
(***************************************************************************)
Leads(s, i, c) == \E j \in DOMAIN s : j > i /\ s[j] = c

\* A pass that something was called from: it unloads its directory, or a start
\* function signals, and doing_io is set.
Interrupted(c) ==
  c.op = "service" =>
    \/ c.at = "stop" /\ c.i = 1
    \/ c.at \in {"low", "extension"} /\ c.io # NoFile

\* What follows the call at i: the end of a load is announced by the last three
\* calls of directory_load_done; a directory is unloaded last of all, or to be
\* unlisted or reloaded; a file that is enqueued, and a job that is cleared, are
\* followed by the state machine.
FollowedUp(s, i) ==
  /\ s[i].op = "announce" =>
       /\ i + 1 \in DOMAIN s /\ s[i + 1] = Changed(s[i].dir)
       /\ i + 2 = Len(s) /\ s[i + 2] = Unload(s[i].dir)
  /\ s[i].op = "unload" =>
       \/ i = Len(s)
       \/ i + 1 \in DOMAIN s /\ s[i + 1] \in {Unlist(s[i].dir), Reload(s[i].dir, 2)}
  /\ s[i].op = "enqueue" => Leads(s, i, Changed(Home[s[i].file]))
  /\ s[i].op = "end" /\ s[i].kind \in SignalsBeforeClear => Leads(s, i, Changed(s[i].dir))

\* doing_io is set once a start function was tried for a file of the directory.
IsPass(c) ==
  c.op = "service" /\ c.io # NoFile => c.i > 1 /\ c.at \in Levels /\ Home[c.io] = c.dir

Shape(s) ==
  \A i \in DOMAIN s : FollowedUp(s, i) /\ IsPass(s[i]) /\ (i > 1 => Interrupted(s[i]))

\* Calls that others may be pushed on.
Ready(s) == s \in Seq(Frames) /\ Shape(s) /\ (s # << >> => Interrupted(Head(s)))

\* What the top of the stack is followed by.
LEMMA ShapePop ==
  ASSUME NEW s \in Seq(Frames), Shape(s), s # << >>
  PROVE  /\ Ready(Tail(s))
         /\ IsPass(Head(s))
         /\ Head(s).op # "service" => Ready(s)
         /\ Head(s).op = "announce" =>
              Calls(Tail(s)) = {Changed(Head(s).dir), Unload(Head(s).dir)}
         /\ Head(s).op = "unload" =>
              \/ Tail(s) = << >>
              \/ Unlist(Head(s).dir) \in Calls(Tail(s))
              \/ Reload(Head(s).dir, 2) \in Calls(Tail(s))
         /\ Head(s).op = "enqueue" => Changed(Home[Head(s).file]) \in Calls(Tail(s))
         /\ Head(s).op = "end" /\ Head(s).kind \in SignalsBeforeClear =>
              Changed(Head(s).dir) \in Calls(Tail(s))
         /\ \A c \in Calls(Tail(s)) : Interrupted(c) /\ IsPass(c)
<1>. DEFINE t == Tail(s)
<1>1. /\ DOMAIN s = 1 .. Len(s) /\ Len(s) \in Nat /\ Len(s) >= 1 /\ s[1] = Head(s)
      /\ t \in Seq(Frames) /\ Len(t) = Len(s) - 1 /\ DOMAIN t = 1 .. Len(t)
      /\ \A i \in 1 .. Len(t) : i + 1 \in 1 .. Len(s) /\ t[i] = s[i + 1]
      /\ \A i \in 1 .. Len(s) : i > 1 => i - 1 \in 1 .. Len(t) /\ t[i - 1] = s[i]
  OBVIOUS
<1>. HIDE DEF t
<1>13. Len(s) \in Nat /\ Len(t) \in Nat /\ Len(t) = Len(s) - 1
  BY <1>1
<1>2. ASSUME NEW i \in 1 .. Len(t)
      PROVE  FollowedUp(t, i) /\ IsPass(t[i]) /\ Interrupted(t[i])
  <2>1. /\ FollowedUp(s, i + 1) /\ IsPass(s[i + 1]) /\ Interrupted(s[i + 1])
        /\ t[i] = s[i + 1] /\ i + 1 > 1
    <3>1. i + 1 \in DOMAIN s /\ i + 1 > 1 /\ t[i] = s[i + 1]
      BY <1>1
    <3>2. QED
      BY <3>1 DEF Shape
  <2>2. ASSUME NEW c, Leads(s, i + 1, c) PROVE Leads(t, i, c)
    <3>1. PICK j \in DOMAIN s : j > i + 1 /\ s[j] = c
      BY <2>2 DEF Leads
    <3>2. j - 1 \in DOMAIN t /\ j - 1 > i /\ t[j - 1] = c
      BY <1>1, <3>1
    <3>3. QED
      BY <3>2 DEF Leads
  <2>3. t[i].op = "announce" =>
          /\ i + 1 \in DOMAIN t /\ t[i + 1] = Changed(t[i].dir)
          /\ i + 2 = Len(t) /\ t[i + 2] = Unload(t[i].dir)
    <3>1. SUFFICES ASSUME t[i].op = "announce"
                   PROVE  /\ i + 1 \in DOMAIN t /\ t[i + 1] = Changed(t[i].dir)
                          /\ i + 2 = Len(t) /\ t[i + 2] = Unload(t[i].dir)
      OBVIOUS
    <3>2. /\ s[i + 1 + 1] = Changed(t[i].dir) /\ i + 1 + 2 = Len(s)
          /\ s[i + 1 + 2] = Unload(t[i].dir)
      BY <2>1, <3>1 DEF FollowedUp
    <3>3. i + 1 + 2 = Len(s)
      BY <3>2
    <3>4. i + 1 \in 1 .. Len(t) /\ i + 2 = Len(t) /\ i + 2 \in 1 .. Len(t) /\ i + 1 + 2 = i + 2 + 1
      BY <1>13, <3>3
    <3>5. t[i + 1] = s[i + 1 + 1] /\ t[i + 2] = s[i + 1 + 2]
      BY <1>1, <3>4
    <3>6. QED
      BY <1>1, <3>2, <3>4, <3>5
  <2>4. t[i].op = "unload" =>
          \/ i = Len(t)
          \/ i + 1 \in DOMAIN t /\ t[i + 1] \in {Unlist(t[i].dir), Reload(t[i].dir, 2)}
    <3>1. SUFFICES ASSUME t[i].op = "unload", i # Len(t)
                   PROVE  i + 1 \in DOMAIN t /\ t[i + 1] \in {Unlist(t[i].dir), Reload(t[i].dir, 2)}
      OBVIOUS
    <3>2. i + 1 # Len(s)
      BY <1>13, <3>1
    <3>3. s[i + 1 + 1] \in {Unlist(t[i].dir), Reload(t[i].dir, 2)}
      BY <2>1, <3>1, <3>2 DEF FollowedUp
    <3>4. i + 1 \in 1 .. Len(t)
      BY <1>13, <3>1
    <3>5. QED
      BY <1>1, <3>3, <3>4
  <2>5. /\ t[i].op = "enqueue" => Leads(t, i, Changed(Home[t[i].file]))
        /\ t[i].op = "end" /\ t[i].kind \in SignalsBeforeClear => Leads(t, i, Changed(t[i].dir))
    BY <2>1, <2>2 DEF FollowedUp
  <2>6. QED
    BY <2>1, <2>3, <2>4, <2>5 DEF FollowedUp
<1>3. /\ t # << >> => Head(t) = t[1] /\ 1 \in 1 .. Len(t)
      /\ t = << >> <=> Len(t) = 0
  BY <1>1
<1>4. Ready(t)
  BY <1>1, <1>2, <1>3 DEF Ready, Shape
<1>5. FollowedUp(s, 1) /\ IsPass(s[1])
  BY <1>1 DEF Shape
<1>6. Head(s).op # "service" => Ready(s)
  BY DEF Ready, Interrupted
<1>7. ASSUME NEW c, Leads(s, 1, c) PROVE c \in Calls(t)
  <2>1. PICK j \in DOMAIN s : j > 1 /\ s[j] = c
    BY <1>7 DEF Leads
  <2>2. j - 1 \in DOMAIN t /\ t[j - 1] = c
    BY <1>1, <2>1
  <2>3. QED
    BY <2>2 DEF Calls
<1>8. ASSUME Head(s).op = "announce"
      PROVE  Calls(t) = {Changed(Head(s).dir), Unload(Head(s).dir)}
  <2>1. 1 + 1 \in DOMAIN s /\ s[1 + 1] = Changed(Head(s).dir) /\ 1 + 2 = Len(s) /\ s[1 + 2] = Unload(Head(s).dir)
    <3>1. /\ 1 + 1 \in DOMAIN s /\ s[1 + 1] = Changed(s[1].dir)
          /\ 1 + 2 = Len(s) /\ s[1 + 2] = Unload(s[1].dir)
      <4>1. FollowedUp(s, 1) /\ s[1].op = "announce"
        BY <1>1, <1>5, <1>8
      <4>2. QED
        BY <4>1, Zenon DEF FollowedUp
    <3>2. s[1] = Head(s)
      BY <1>1
    <3>3. QED
      BY <3>1, <3>2, Zenon
  <2>2. Len(t) = 2 /\ 1 \in 1 .. Len(t) /\ 2 \in 1 .. Len(t) /\ 2 + 1 = 1 + 2
    <3>1. Len(s) = 1 + 2
      BY <2>1, Zenon
    <3>2. QED
      BY <1>13, <3>1
  <2>3. t[1] = s[1 + 1] /\ t[2] = s[1 + 2]
    BY <1>1, <2>2
  <2>4. \A i \in 1 .. 2 : i = 1 \/ i = 2
    OBVIOUS
  <2>5. Calls(t) = {t[1], t[2]}
    <3>1. DOMAIN t = 1 .. 2
      BY <1>1, <2>2
    <3>2. QED
      BY <2>2, <2>4, <3>1 DEF Calls
  <2>6. t[1] = Changed(Head(s).dir) /\ t[2] = Unload(Head(s).dir)
    BY <2>1, <2>3
  <2>7. QED
    BY <2>5, <2>6
<1>9. ASSUME Head(s).op = "unload", t # << >>
      PROVE  Unlist(Head(s).dir) \in Calls(t) \/ Reload(Head(s).dir, 2) \in Calls(t)
  <2>1. s[1 + 1] \in {Unlist(Head(s).dir), Reload(Head(s).dir, 2)}
    BY <1>1, <1>3, <1>5, <1>9 DEF FollowedUp
  <2>2. 1 \in DOMAIN t /\ t[1] \in {Unlist(Head(s).dir), Reload(Head(s).dir, 2)}
    BY <1>1, <1>3, <1>9, <2>1
  <2>3. QED
    BY <2>2 DEF Calls
<1>10. \A c \in Calls(t) : Interrupted(c) /\ IsPass(c)
  BY <1>1, <1>2 DEF Calls
<1>11. /\ Head(s).op = "enqueue" => Changed(Home[Head(s).file]) \in Calls(t)
       /\ Head(s).op = "end" /\ Head(s).kind \in SignalsBeforeClear => Changed(Head(s).dir) \in Calls(t)
  BY <1>1, <1>5, <1>7 DEF FollowedUp
<1>12. QED
  BY <1>1, <1>4, <1>5, <1>6, <1>8, <1>9, <1>10, <1>11 DEF t

\* What is below calls that are pushed stays as it is.
LEMMA ShapeBelow ==
  ASSUME NEW p \in Seq(Frames), NEW s, Ready(s)
  PROVE  \A i \in 1 .. Len(s) :
           LET t == p \o s
               j == i + Len(p)
           IN  FollowedUp(t, j) /\ IsPass(t[j]) /\ Interrupted(t[j])
<1>. DEFINE t == p \o s
            n == Len(p)
<1>0. s \in Seq(Frames)
  BY DEF Ready
<1>1. /\ DOMAIN s = 1 .. Len(s) /\ Len(s) \in Nat /\ n \in Nat
      /\ Len(t) = Len(s) + n /\ DOMAIN t = 1 .. Len(t)
      /\ \A i \in 1 .. Len(s) : i + n \in 1 .. Len(t) /\ t[i + n] = s[i]
  BY <1>0
<1>13. Len(s) \in Nat /\ n \in Nat /\ Len(t) = Len(s) + n
  BY <1>1
<1>. HIDE DEF t, n
<1>. SUFFICES ASSUME NEW i \in 1 .. Len(s)
              PROVE  FollowedUp(t, i + n) /\ IsPass(t[i + n]) /\ Interrupted(t[i + n])
  BY DEF t, n
<1>2. FollowedUp(s, i) /\ IsPass(s[i]) /\ t[i + n] = s[i]
  BY <1>1 DEF Ready, Shape
<1>3. Interrupted(s[i])
  <2>1. i = 1 => s # << >> /\ s[i] = Head(s)
    BY <1>0, <1>1
  <2>2. i # 1 => i > 1
    BY <1>1
  <2>3. QED
    BY <1>1, <2>1, <2>2 DEF Ready, Shape
<1>4. ASSUME NEW c, Leads(s, i, c) PROVE Leads(t, i + n, c)
  <2>1. PICK j \in DOMAIN s : j > i /\ s[j] = c
    BY <1>4 DEF Leads
  <2>2. j + n \in DOMAIN t /\ t[j + n] = c
    BY <1>1, <2>1
  <2>3. j \in 1 .. Len(s) /\ i \in 1 .. Len(s)
    BY <1>1
  <2>4. j + n > i + n
    BY <1>13, <2>1, <2>3
  <2>5. QED
    BY <2>2, <2>4 DEF Leads
<1>5. ASSUME s[i].op = "announce"
      PROVE  /\ i + n + 1 \in DOMAIN t /\ t[i + n + 1] = Changed(s[i].dir)
             /\ i + n + 2 = Len(t) /\ t[i + n + 2] = Unload(s[i].dir)
  <2>1. i + 1 \in DOMAIN s /\ s[i + 1] = Changed(s[i].dir) /\ i + 2 = Len(s) /\ s[i + 2] = Unload(s[i].dir)
    BY <1>2, <1>5, Zenon DEF FollowedUp
  <2>2. i + 2 = Len(s)
    BY <2>1
  <2>3. /\ i + 1 \in 1 .. Len(s) /\ i + 2 \in 1 .. Len(s) /\ i + n + 2 = Len(t)
        /\ (i + 1) + n = i + n + 1 /\ (i + 2) + n = i + n + 2
    BY <1>13, <2>2
  <2>4. /\ i + n + 1 \in 1 .. Len(t) /\ t[i + n + 1] = s[i + 1] /\ t[i + n + 2] = s[i + 2]
    BY <1>1, <2>3
  <2>5. QED
    BY <1>1, <2>1, <2>3, <2>4, Zenon
<1>6. ASSUME s[i].op = "unload"
      PROVE  \/ i + n = Len(t)
             \/ /\ i + n + 1 \in DOMAIN t
                /\ t[i + n + 1] \in {Unlist(s[i].dir), Reload(s[i].dir, 2)}
  <2>1. CASE i = Len(s)
    BY <1>13, <2>1
  <2>2. CASE i # Len(s)
    <3>1. s[i + 1] \in {Unlist(s[i].dir), Reload(s[i].dir, 2)}
      BY <1>2, <1>6, <2>2, Zenon DEF FollowedUp
    <3>2. i + 1 \in 1 .. Len(s) /\ (i + 1) + n = i + n + 1
      BY <1>13, <2>2
    <3>3. i + n + 1 \in 1 .. Len(t) /\ t[i + n + 1] = s[i + 1]
      BY <1>1, <3>2
    <3>4. QED
      BY <1>1, <3>1, <3>3
  <2>3. QED
    BY <2>1, <2>2
<1>7. /\ t[i + n].op = "enqueue" => Leads(t, i + n, Changed(Home[t[i + n].file]))
      /\ t[i + n].op = "end" /\ t[i + n].kind \in SignalsBeforeClear =>
           Leads(t, i + n, Changed(t[i + n].dir))
  BY <1>2, <1>4 DEF FollowedUp
<1>8. FollowedUp(t, i + n)
  BY <1>2, <1>5, <1>6, <1>7 DEF FollowedUp
<1>9. QED
  BY <1>2, <1>3, <1>8

\* What may be pushed on what.
LEMMA ShapePush ==
  ASSUME NEW s, Ready(s), NEW f \in Frames, IsPass(f),
         f.op = "announce" => s = << Changed(f.dir), Unload(f.dir) >>,
         f.op = "unload" =>
           s = << >> \/ (s # << >> /\ Head(s) \in {Unlist(f.dir), Reload(f.dir, 2)}),
         f.op = "enqueue" => Changed(Home[f.file]) \in Calls(s),
         f.op = "end" /\ f.kind \in SignalsBeforeClear => Changed(f.dir) \in Calls(s)
  PROVE  /\ << f >> \o s \in Seq(Frames) /\ Shape(<< f >> \o s)
         /\ Interrupted(f) => Ready(<< f >> \o s)
<1>. DEFINE t == << f >> \o s
<1>0. s \in Seq(Frames)
  BY DEF Ready
<1>1. /\ DOMAIN s = 1 .. Len(s) /\ Len(s) \in Nat
      /\ t \in Seq(Frames) /\ Len(t) = Len(s) + 1 /\ DOMAIN t = 1 .. Len(t)
      /\ t[1] = f /\ t # << >> /\ Head(t) = f
      /\ \A i \in 1 .. Len(s) : i + 1 \in 1 .. Len(t) /\ t[i + 1] = s[i]
      /\ \A i \in 1 .. Len(t) : i = 1 \/ i - 1 \in 1 .. Len(s)
  BY <1>0
<1>. HIDE DEF t
<1>2. ASSUME NEW i \in 1 .. Len(s)
      PROVE  FollowedUp(t, i + 1) /\ IsPass(t[i + 1]) /\ Interrupted(t[i + 1])
  <2>1. << f >> \in Seq(Frames) /\ Len(<< f >>) = 1
    OBVIOUS
  <2>2. QED
    BY <2>1, ShapeBelow DEF t
<1>3. ASSUME NEW c \in Calls(s) PROVE Leads(t, 1, c)
  <2>1. PICK j \in DOMAIN s : s[j] = c
    BY DEF Calls
  <2>2. j + 1 \in DOMAIN t /\ j + 1 > 1 /\ t[j + 1] = c
    BY <1>1, <2>1
  <2>3. QED
    BY <2>2 DEF Leads
<1>4. FollowedUp(t, 1)
  <2>1. f.op = "announce" =>
          /\ 1 + 1 \in DOMAIN t /\ t[1 + 1] = Changed(f.dir)
          /\ 1 + 2 = Len(t) /\ t[1 + 2] = Unload(f.dir)
    <3>1. SUFFICES ASSUME f.op = "announce"
                   PROVE  /\ 1 + 1 \in DOMAIN t /\ t[1 + 1] = Changed(f.dir)
                          /\ 1 + 2 = Len(t) /\ t[1 + 2] = Unload(f.dir)
      OBVIOUS
    <3>2. Len(s) = 2 /\ s[1] = Changed(f.dir) /\ s[2] = Unload(f.dir)
      <4>. DEFINE u == << Changed(f.dir), Unload(f.dir) >>
      <4>1. Len(u) = 2 /\ u[1] = Changed(f.dir) /\ u[2] = Unload(f.dir)
        OBVIOUS
      <4>2. QED
        BY <3>1, <4>1
    <3>3. 1 \in 1 .. Len(s) /\ 2 \in 1 .. Len(s) /\ 1 + 2 = 2 + 1
      BY <3>2
    <3>4. QED
      BY <1>1, <3>2, <3>3
  <2>2. f.op = "unload" =>
          \/ 1 = Len(t)
          \/ 1 + 1 \in DOMAIN t /\ t[1 + 1] \in {Unlist(f.dir), Reload(f.dir, 2)}
    <3>1. s = << >> => Len(s) = 0
      OBVIOUS
    <3>2. s # << >> => 1 \in 1 .. Len(s) /\ s[1] = Head(s)
      BY <1>0
    <3>3. QED
      BY <1>1, <3>1, <3>2
  <2>3. QED
    BY <1>1, <1>3, <2>1, <2>2 DEF FollowedUp
<1>5. ASSUME NEW i \in 1 .. Len(t)
      PROVE  FollowedUp(t, i) /\ IsPass(t[i]) /\ (i > 1 => Interrupted(t[i]))
  <2>1. CASE i = 1
    BY <1>1, <1>4, <2>1
  <2>2. CASE i # 1
    <3>1. i - 1 \in 1 .. Len(s) /\ i = (i - 1) + 1
      BY <1>1, <2>2
    <3>2. QED
      BY <1>2, <3>1
  <2>3. QED
    BY <2>1, <2>2
<1>6. QED
  BY <1>1, <1>5 DEF Shape, Ready, t

\* Calls that may be pushed on any others.
Easy(f) == f \in Frames /\ f.op \notin {"announce", "unload", "enqueue", "end", "service"}

LEMMA EasyCalls ==
  /\ \A d \in Directories :
       /\ Easy(Changed(d)) /\ Easy(Calling(d)) /\ Easy(Unlist(d)) /\ Easy(EndLoad(d))
       /\ \A step \in 1 .. 3 : Easy(Reload(d, step))
  /\ Easy(Wake) /\ Easy(Waking) /\ Easy(Signal)
  /\ \A f \in Files, ks \in SUBSET Kinds : Easy(Outdate(f, ks))
<1>1. \A d : EndLoad(d).op = "endload"
  BY DEF EndLoad
<1>2. QED
  BY <1>1, FramesType, Ops DEF Easy

\* They leave the shape of what they are pushed on.
LEMMA PushEasy ==
  ASSUME NEW s, Ready(s)
  PROVE  /\ \A f : Easy(f) => Ready(<< f >> \o s) /\ Calls(<< f >> \o s) = {f} \cup Calls(s)
         /\ \A f, g : Easy(f) /\ Easy(g) =>
              Ready(<< f, g >> \o s) /\ Calls(<< f, g >> \o s) = {f, g} \cup Calls(s)
<1>1. ASSUME NEW t, Ready(t), NEW f, Easy(f)
      PROVE  Ready(<< f >> \o t) /\ Calls(<< f >> \o t) = {f} \cup Calls(t)
  <2>1. f \in Frames /\ IsPass(f) /\ Interrupted(f)
    BY <1>1 DEF Easy, IsPass, Interrupted
  <2>2. f.op \notin {"announce", "unload", "enqueue", "end", "service"}
    BY <1>1 DEF Easy
  <2>3. Ready(<< f >> \o t)
    BY <1>1, <2>1, <2>2, ShapePush
  <2>4. QED
    BY <1>1, <2>1, <2>3, CallsOf DEF Ready
<1>2. ASSUME NEW f, NEW g, Easy(f), Easy(g)
      PROVE  Ready(<< f, g >> \o s) /\ Calls(<< f, g >> \o s) = {f, g} \cup Calls(s)
  <2>1. s \in Seq(Frames) /\ f \in Frames /\ g \in Frames /\ << f >> \in Seq(Frames) /\ << g >> \in Seq(Frames)
    BY <1>2 DEF Ready, Easy
  <2>2. << f >> \o (<< g >> \o s) = << f >> \o << g >> \o s
    BY <2>1, ConcatAssociative
  <2>3. << f, g >> \o s = << f >> \o (<< g >> \o s)
    BY <2>1, <2>2, PushedTogether
  <2>4. Ready(<< g >> \o s)
    BY <1>1, <1>2
  <2>5. Ready(<< f >> \o (<< g >> \o s))
    BY <1>1, <1>2, <2>4
  <2>6. Calls(<< f, g >> \o s) = {f, g} \cup Calls(s)
    BY <2>1, CallsOf
  <2>7. Ready(<< f, g >> \o s)
    BY <2>3, <2>5
  <2>8. QED
    BY <2>6, <2>7
<1>3. QED
  BY <1>1, <1>2

\* A pass of the service loop.
LEMMA PushPass ==
  ASSUME NEW s, Ready(s), NEW d \in Directories, NEW at \in Phases, NEW i \in Nat,
         NEW io \in Files \cup {NoFile},
         io # NoFile => i > 1 /\ at \in Levels /\ Home[io] = d
  PROVE  LET c == ServiceAt(d, at, i, io)
         IN  /\ << c >> \o s \in Seq(Frames) /\ Shape(<< c >> \o s)
             /\ Calls(<< c >> \o s) = {c} \cup Calls(s)
             /\ (at = "stop" /\ i = 1) \/ (at \in {"low", "extension"} /\ io # NoFile) =>
                  Ready(<< c >> \o s)
<1>. DEFINE c == ServiceAt(d, at, i, io)
<1>1. c \in Frames /\ c.op = "service" /\ c.dir = d /\ c.at = at /\ c.i = i /\ c.io = io
  <2>1. c \in Frames
    BY FramesType
  <2>2. QED
    BY <2>1 DEF ServiceAt
<1>. HIDE DEF c
<1>2. IsPass(c)
  BY <1>1 DEF IsPass
<1>3. /\ << c >> \o s \in Seq(Frames) /\ Shape(<< c >> \o s)
      /\ Interrupted(c) => Ready(<< c >> \o s)
  BY <1>1, <1>2, ShapePush
<1>4. Calls(<< c >> \o s) = {c} \cup Calls(s)
  BY <1>1, CallsOf DEF Ready
<1>5. QED
  BY <1>1, <1>3, <1>4 DEF c, Interrupted

\* The files of a list, and the state machine after them.
LEMMA PushListed ==
  ASSUME NEW s, Ready(s), NEW d \in Directories
  PROVE  /\ Ready(EnqueueAll(d) \o << Changed(d) >> \o s)
         /\ Calls(EnqueueAll(d) \o << Changed(d) >> \o s) =
              {Enqueueing(Listing[d][i]) : i \in DOMAIN Listing[d]} \cup {Changed(d)} \cup Calls(s)
<1>. DEFINE p == EnqueueAll(d)
            u == << Changed(d) >> \o s
            t == p \o u
            n == Len(p)
<1>1. Ready(u) /\ Calls(u) = {Changed(d)} \cup Calls(s)
  BY PushEasy, EasyCalls
<1>2. /\ p \in Seq(Frames) /\ DOMAIN p = DOMAIN Listing[d]
      /\ \A i \in DOMAIN p : /\ p[i] = Enqueueing(Listing[d][i])
                             /\ p[i].op = "enqueue" /\ Home[p[i].file] = d
  BY EnqueueAllCalls, ListingAssumption DEF EnqueueAll, Enqueueing
<1>3. s \in Seq(Frames) /\ u \in Seq(Frames) /\ << Changed(d) >> \in Seq(Frames)
  BY <1>1, FramesType DEF Ready
<1>4. EnqueueAll(d) \o << Changed(d) >> \o s = t
  BY <1>2, <1>3, ConcatAssociative
<1>5. Calls(t) = {Enqueueing(Listing[d][i]) : i \in DOMAIN Listing[d]} \cup {Changed(d)} \cup Calls(s)
  <2>1. Calls(t) = Calls(p) \cup Calls(u)
    BY <1>2, <1>3, CallsOf
  <2>2. Calls(p) = {Enqueueing(Listing[d][i]) : i \in DOMAIN Listing[d]}
    BY <1>2 DEF Calls
  <2>3. QED
    BY <1>1, <2>1, <2>2
<1>6. u # << >> /\ Head(u) = Changed(d) /\ u[1] = Changed(d) /\ Len(u) >= 1
  BY <1>3
<1>. HIDE DEF u
<1>7. \A i \in 1 .. Len(u) : FollowedUp(t, i + n) /\ IsPass(t[i + n]) /\ Interrupted(t[i + n])
  BY <1>1, <1>2, ShapeBelow
<1>. HIDE DEF p
<1>8. /\ n \in Nat /\ DOMAIN p = 1 .. n /\ Len(u) \in Nat
      /\ t \in Seq(Frames) /\ Len(t) = n + Len(u) /\ DOMAIN t = 1 .. Len(t)
      /\ \A i \in 1 .. n : t[i] = p[i]
      /\ t[n + 1] = Changed(d)
  BY <1>2, <1>3, <1>6
<1>9. n \in Nat /\ Len(u) \in Nat /\ Len(u) >= 1 /\ Len(t) = n + Len(u)
  BY <1>6, <1>8
<1>. HIDE DEF t, n
<1>10. ASSUME NEW i \in 1 .. n
       PROVE  FollowedUp(t, i) /\ IsPass(t[i]) /\ Interrupted(t[i])
  <2>1. t[i].op = "enqueue" /\ Home[t[i].file] = d
    BY <1>2, <1>8
  <2>2. Leads(t, i, Changed(d))
    <3>1. n + 1 \in 1 .. Len(t) /\ n + 1 > i
      BY <1>9
    <3>2. QED
      BY <1>8, <3>1 DEF Leads
  <2>3. QED
    BY <2>1, <2>2 DEF FollowedUp, IsPass, Interrupted
<1>11. ASSUME NEW i \in 1 .. Len(t)
       PROVE  FollowedUp(t, i) /\ IsPass(t[i]) /\ Interrupted(t[i])
  <2>1. i \in 1 .. n \/ (i - n \in 1 .. Len(u) /\ i = (i - n) + n)
    BY <1>9
  <2>2. QED
    BY <1>7, <1>10, <2>1
<1>12. Head(t) = t[1] /\ 1 \in 1 .. Len(t)
  BY <1>8, <1>9
<1>13. Ready(t)
  BY <1>8, <1>11, <1>12 DEF Ready, Shape
<1>14. QED
  BY <1>4, <1>5, <1>13

\* An empty stack is ready for any call.
LEMMA ReadyAtRest == Ready(<< >>) /\ Calls(<< >>) = {}
BY DEF Ready, Shape, Calls

\* Short sequences of calls, pushed in turn.
LEMMA ShortStacks ==
  ASSUME NEW a \in Frames, NEW b \in Frames, NEW c \in Frames, NEW e \in Frames
  PROVE  /\ << a >> = << a >> \o << >>
         /\ << a, b >> = << a >> \o << b >>
         /\ << a, b, c >> = << a >> \o << b, c >>
         /\ << a, b, c, e >> = << a >> \o << b, c, e >>
<1>1. << a >> = << a >> \o << >>
  OBVIOUS
<1>2. ASSUME NEW x \in Seq(Frames), NEW y \in Seq(Frames), Len(x) = Len(y),
             \A i \in 1 .. Len(x) : x[i] = y[i]
      PROVE  x = y
  BY <1>2
<1>3. << a, b >> = << a >> \o << b >>
  <2>. DEFINE x == << a, b >>
              y == << a >> \o << b >>
  <2>1. /\ x \in Seq(Frames) /\ y \in Seq(Frames) /\ Len(x) = 2 /\ Len(y) = 2
        /\ x[1] = a /\ x[2] = b /\ y[1] = a /\ y[2] = b
    OBVIOUS
  <2>2. \A i \in 1 .. 2 : i = 1 \/ i = 2
    OBVIOUS
  <2>. HIDE DEF x, y
  <2>3. x = y
    BY <1>2, <2>1, <2>2
  <2>4. QED
    BY <2>3 DEF x, y
<1>4. << a, b, c >> = << a >> \o << b, c >>
  <2>. DEFINE x == << a, b, c >>
              y == << a >> \o << b, c >>
  <2>1. /\ x \in Seq(Frames) /\ y \in Seq(Frames) /\ Len(x) = 3 /\ Len(y) = 3
        /\ x[1] = a /\ x[2] = b /\ x[3] = c /\ y[1] = a /\ y[2] = b /\ y[3] = c
    OBVIOUS
  <2>2. \A i \in 1 .. 3 : i = 1 \/ i = 2 \/ i = 3
    OBVIOUS
  <2>. HIDE DEF x, y
  <2>3. x = y
    BY <1>2, <2>1, <2>2
  <2>4. QED
    BY <2>3 DEF x, y
<1>5. << a, b, c, e >> = << a >> \o << b, c, e >>
  <2>. DEFINE x == << a, b, c, e >>
              y == << a >> \o << b, c, e >>
  <2>1. /\ x \in Seq(Frames) /\ y \in Seq(Frames) /\ Len(x) = 4 /\ Len(y) = 4
        /\ x[1] = a /\ x[2] = b /\ x[3] = c /\ x[4] = e
        /\ y[1] = a /\ y[2] = b /\ y[3] = c /\ y[4] = e
    OBVIOUS
  <2>2. \A i \in 1 .. 4 : i = 1 \/ i = 2 \/ i = 3 \/ i = 4
    OBVIOUS
  <2>. HIDE DEF x, y
  <2>3. x = y
    BY <1>2, <2>1, <2>2
  <2>4. QED
    BY <2>3 DEF x, y
<1>6. QED
  BY <1>1, <1>3, <1>4, <1>5

\* The end of a job of d, with the call that must follow it.
LEMMA PushEnd ==
  ASSUME NEW s, Ready(s), NEW d \in Directories, NEW k \in Kinds,
         k \in SignalsBeforeClear => Changed(d) \in Calls(s)
  PROVE  Ready(<< EndJob(d, k) >> \o s) /\ Calls(<< EndJob(d, k) >> \o s) = {EndJob(d, k)} \cup Calls(s)
<1>. DEFINE c == EndJob(d, k)
<1>1. c \in Frames
  BY FramesType
<1>2. c.op = "end" /\ c.dir = d /\ c.kind = k
  BY DEF EndJob
<1>. HIDE DEF c
<1>3. IsPass(c) /\ Interrupted(c)
  BY <1>2 DEF IsPass, Interrupted
<1>4. Ready(<< c >> \o s)
  BY <1>1, <1>2, <1>3, ShapePush
<1>5. Calls(<< c >> \o s) = {c} \cup Calls(s)
  BY <1>1, CallsOf DEF Ready
<1>6. QED
  BY <1>4, <1>5 DEF c

\* A directory is unloaded last of all, or to be unlisted or reloaded.
LEMMA PushUnload ==
  ASSUME NEW s, Ready(s), NEW d \in Directories,
         s = << >> \/ (s # << >> /\ Head(s) \in {Unlist(d), Reload(d, 2)})
  PROVE  Ready(<< Unload(d) >> \o s) /\ Calls(<< Unload(d) >> \o s) = {Unload(d)} \cup Calls(s)
<1>. DEFINE c == Unload(d)
<1>1. c \in Frames
  BY FramesType
<1>2. c.op = "unload" /\ c.dir = d
  BY DEF Unload
<1>. HIDE DEF c
<1>3. IsPass(c) /\ Interrupted(c)
  BY <1>2 DEF IsPass, Interrupted
<1>4. Ready(<< c >> \o s)
  BY <1>1, <1>2, <1>3, ShapePush
<1>5. Calls(<< c >> \o s) = {c} \cup Calls(s)
  BY <1>1, CallsOf DEF Ready
<1>6. QED
  BY <1>4, <1>5 DEF c

\* What the events of the main loop push.
LEMMA EventsReady ==
  ASSUME NEW d \in Directories
  PROVE  /\ Ready(<< Changed(d) >>) /\ Calls(<< Changed(d) >>) = {Changed(d)}
         /\ Ready(<< Signal >>) /\ Calls(<< Signal >>) = {Signal}
         /\ Ready(<< Calling(d) >>) /\ Calls(<< Calling(d) >>) = {Calling(d)}
         /\ Ready(<< Changed(d), Signal >>) /\ Calls(<< Changed(d), Signal >>) = {Changed(d), Signal}
         /\ \A k \in Kinds :
              /\ Ready(<< Signal, EndJob(d, k), Changed(d) >>)
              /\ Calls(<< Signal, EndJob(d, k), Changed(d) >>) = {Signal, EndJob(d, k), Changed(d)}
              /\ Ready(<< Signal, Signal, EndJob(d, k), Changed(d) >>)
              /\ Calls(<< Signal, Signal, EndJob(d, k), Changed(d) >>) = {Signal, EndJob(d, k), Changed(d)}
         /\ Ready(<< Signal, Announce(d), Changed(d), Unload(d) >>)
         /\ Calls(<< Signal, Announce(d), Changed(d), Unload(d) >>) =
              {Signal, Announce(d), Changed(d), Unload(d)}
<1>1. /\ Changed(d) \in Frames /\ Signal \in Frames /\ Calling(d) \in Frames
      /\ Announce(d) \in Frames /\ Unload(d) \in Frames
  BY FramesType
<1>2. Easy(Changed(d)) /\ Easy(Signal) /\ Easy(Calling(d))
  BY EasyCalls
<1>3. /\ Ready(<< Changed(d) >>) /\ Calls(<< Changed(d) >>) = {Changed(d)}
      /\ Ready(<< Signal >>) /\ Calls(<< Signal >>) = {Signal}
      /\ Ready(<< Calling(d) >>) /\ Calls(<< Calling(d) >>) = {Calling(d)}
  <2>1. ASSUME NEW c, Easy(c) PROVE Ready(<< c >>) /\ Calls(<< c >>) = {c}
    <3>1. Ready(<< c >> \o << >>) /\ Calls(<< c >> \o << >>) = {c} \cup {}
      BY <2>1, ReadyAtRest, PushEasy
    <3>2. << c >> \o << >> = << c >>
      BY <2>1, ShortStacks DEF Easy
    <3>3. QED
      BY <3>1, <3>2
  <2>2. QED
    BY <1>2, <2>1
<1>4. ASSUME NEW u, Ready(u), NEW c, Easy(c)
      PROVE  Ready(<< c >> \o u) /\ Calls(<< c >> \o u) = {c} \cup Calls(u)
  BY <1>4, PushEasy
<1>5. Ready(<< Changed(d), Signal >>) /\ Calls(<< Changed(d), Signal >>) = {Changed(d), Signal}
  <2>. DEFINE u == << Signal >>
              v == << Changed(d), Signal >>
  <2>1. Ready(u) /\ Calls(u) = {Signal} /\ v = << Changed(d) >> \o u
    BY <1>1, <1>3, ShortStacks
  <2>. HIDE DEF u, v
  <2>2. Ready(v) /\ Calls(v) = {Changed(d)} \cup {Signal}
    BY <1>2, <1>4, <2>1
  <2>3. QED
    BY <2>2 DEF v
<1>6. ASSUME NEW k \in Kinds
      PROVE  /\ Ready(<< Signal, EndJob(d, k), Changed(d) >>)
             /\ Calls(<< Signal, EndJob(d, k), Changed(d) >>) = {Signal, EndJob(d, k), Changed(d)}
             /\ Ready(<< Signal, Signal, EndJob(d, k), Changed(d) >>)
             /\ Calls(<< Signal, Signal, EndJob(d, k), Changed(d) >>) = {Signal, EndJob(d, k), Changed(d)}
  <2>. DEFINE x == EndJob(d, k)
              u == << Changed(d) >>
              v == << x, Changed(d) >>
              w == << Signal, x, Changed(d) >>
              z == << Signal, Signal, x, Changed(d) >>
  <2>1. x \in Frames
    BY FramesType
  <2>2. /\ Ready(u) /\ Calls(u) = {Changed(d)}
        /\ v = << x >> \o u /\ w = << Signal >> \o v /\ z = << Signal >> \o w
    <3>1. Ready(u) /\ Calls(u) = {Changed(d)}
      BY <1>3
    <3>. HIDE DEF x
    <3>2. v = << x >> \o u /\ w = << Signal >> \o v
      BY <1>1, <2>1, ShortStacks
    <3>3. z = << Signal >> \o w
      BY <1>1, <2>1, ShortStacks
    <3>4. QED
      BY <3>1, <3>2, <3>3
  <2>. HIDE DEF u, v, w, z
  <2>3. Ready(v) /\ Calls(v) = {x} \cup {Changed(d)}
    BY <2>2, PushEnd
  <2>. HIDE DEF x
  <2>4. Ready(w) /\ Calls(w) = {Signal} \cup Calls(v)
    BY <1>2, <1>4, <2>2, <2>3
  <2>5. Ready(z) /\ Calls(z) = {Signal} \cup Calls(w)
    BY <1>2, <1>4, <2>2, <2>4
  <2>6. /\ Ready(w) /\ Calls(w) = {Signal, x, Changed(d)}
        /\ Ready(z) /\ Calls(z) = {Signal, x, Changed(d)}
    BY <2>3, <2>4, <2>5
  <2>7. QED
    BY <2>6, Zenon DEF w, z, x
<1>7. /\ Ready(<< Signal, Announce(d), Changed(d), Unload(d) >>)
      /\ Calls(<< Signal, Announce(d), Changed(d), Unload(d) >>) =
           {Signal, Announce(d), Changed(d), Unload(d)}
  <2>. DEFINE x == Announce(d)
              u == << Unload(d) >>
              v == << Changed(d), Unload(d) >>
              w == << x, Changed(d), Unload(d) >>
              z == << Signal, x, Changed(d), Unload(d) >>
  <2>1. /\ u = << Unload(d) >> \o << >> /\ v = << Changed(d) >> \o u
        /\ w = << x >> \o v /\ z = << Signal >> \o w
    BY <1>1, ShortStacks
  <2>2. Ready(u) /\ Calls(u) = {Unload(d)}
    <3>1. Ready(<< Unload(d) >> \o << >>) /\ Calls(<< Unload(d) >> \o << >>) = {Unload(d)} \cup {}
      BY ReadyAtRest, PushUnload
    <3>2. u = << Unload(d) >> \o << >>
      BY <2>1
    <3>. HIDE DEF u
    <3>3. QED
      BY <3>1, <3>2
  <2>3. x \in Frames /\ x.op = "announce" /\ x.dir = d /\ v = << Changed(d), Unload(d) >>
    BY <1>1 DEF Announce
  <2>4. IsPass(x) /\ Interrupted(x)
    BY <2>3 DEF IsPass, Interrupted
  <2>. HIDE DEF u, v, w, x, z
  <2>5. Ready(v) /\ Calls(v) = {Changed(d)} \cup {Unload(d)}
    BY <1>2, <1>4, <2>1, <2>2
  <2>6. Ready(w)
    BY <2>1, <2>3, <2>4, <2>5, ShapePush
  <2>7. Calls(w) = {x} \cup Calls(v)
    BY <2>1, <2>3, <2>5, CallsOf DEF Ready
  <2>8. Ready(z) /\ Calls(z) = {Signal} \cup Calls(w)
    BY <1>2, <1>4, <2>1, <2>6
  <2>9. Ready(z) /\ Calls(z) = {Signal, x, Changed(d), Unload(d)}
    BY <2>5, <2>7, <2>8
  <2>10. QED
    BY <2>9, Zenon DEF z, x
<1>8. QED
  BY <1>3, <1>5, <1>6, <1>7

\* The top of the stack and what is below it.
LEMMA Pops ==
  ASSUME stack \in Seq(Frames), Shape(stack), stack # << >>
  PROVE  /\ Ready(Below) /\ Below \in Seq(Frames)
         /\ Calls(stack) = {Top} \cup Calls(Below)
         /\ IsPass(Top)
         /\ Top.op # "service" => Ready(stack)
         /\ Top.op = "announce" => Calls(Below) = {Changed(Top.dir), Unload(Top.dir)}
         /\ Top.op = "unload" =>
              \/ Below = << >>
              \/ Unlist(Top.dir) \in Calls(Below)
              \/ Reload(Top.dir, 2) \in Calls(Below)
         /\ Top.op = "enqueue" => Changed(Home[Top.file]) \in Calls(Below)
         /\ Top.op = "end" /\ Top.kind \in SignalsBeforeClear => Changed(Top.dir) \in Calls(Below)
         /\ \A c \in Calls(Below) : Interrupted(c) /\ IsPass(c)
<1>1. Calls(stack) = {Top} \cup Calls(Below)
  BY CallsOf DEF Top, Below
<1>2. Below \in Seq(Frames)
  BY DEF Below
<1>3. QED
  BY <1>1, <1>2, ShapePop DEF Top, Below

\* What each call of a client pushes.
LEMMA ClientStacks ==
  ASSUME TypeOK, NEW rest, Ready(rest)
  PROVE  /\ \A r \in Requests :
              /\ (\/ MonitorAdd(r[1], r[2], rest) \/ MonitorRemove(r[1], r[2], rest)
                  \/ CallWhenReady(r[1], r[2], rest) \/ CancelCallback(r[1], r[2], rest))
                   => Ready(stack') /\ Calls(stack') = {Changed(Home[r[1]])} \cup Calls(rest)
              /\ NotifyFilesChanged(r[1], rest) =>
                   Ready(stack') /\ Calls(stack') = {Changed(Home[r[1]]), Signal} \cup Calls(rest)
         /\ \A f \in Files, ks \in SUBSET Kinds :
              InvalidateAttributes(f, ks, rest) =>
                /\ Ready(stack')
                /\ Calls(stack') = {Changed(Home[f]), Outdate(f, RequestedBy(ks))} \cup Calls(rest)
         /\ \A d \in Listed :
              /\ ListMonitorAdd(d, rest) =>
                   /\ Ready(stack')
                   /\ Calls(stack') = {Enqueueing(Listing[d][i]) : i \in DOMAIN Listing[d]}
                                        \cup {Changed(d)} \cup Calls(rest)
              /\ ListMonitorRemove(d, rest) =>
                   Ready(stack') /\ Calls(stack') = {Changed(d)} \cup Calls(rest)
              /\ ForceReload(d, rest) =>
                   Ready(stack') /\ Calls(stack') = {Changed(d), Reload(d, 1)} \cup Calls(rest)
<1>1. ASSUME NEW r \in Requests
      PROVE  /\ (\/ MonitorAdd(r[1], r[2], rest) \/ MonitorRemove(r[1], r[2], rest)
                 \/ CallWhenReady(r[1], r[2], rest) \/ CancelCallback(r[1], r[2], rest))
                  => Ready(stack') /\ Calls(stack') = {Changed(Home[r[1]])} \cup Calls(rest)
             /\ NotifyFilesChanged(r[1], rest) =>
                  Ready(stack') /\ Calls(stack') = {Changed(Home[r[1]]), Signal} \cup Calls(rest)
  <2>. DEFINE c == Changed(Home[r[1]])
  <2>1. Home[r[1]] \in Directories
    BY DirectoryAsyncAssumption
  <2>2. Easy(c) /\ Easy(Signal)
    BY <2>1, EasyCalls
  <2>3. (\/ MonitorAdd(r[1], r[2], rest) \/ MonitorRemove(r[1], r[2], rest)
         \/ CallWhenReady(r[1], r[2], rest) \/ CancelCallback(r[1], r[2], rest))
          => stack' = << c >> \o rest
    BY DEF MonitorAdd, MonitorRemove, CallWhenReady, CancelCallback
  <2>4. NotifyFilesChanged(r[1], rest) => stack' = << c, Signal >> \o rest
    BY DEF NotifyFilesChanged
  <2>. HIDE DEF c
  <2>5. /\ Ready(<< c >> \o rest) /\ Calls(<< c >> \o rest) = {c} \cup Calls(rest)
        /\ Ready(<< c, Signal >> \o rest) /\ Calls(<< c, Signal >> \o rest) = {c, Signal} \cup Calls(rest)
    BY <2>2, PushEasy
  <2>6. QED
    BY <2>3, <2>4, <2>5 DEF c
<1>2. ASSUME NEW f \in Files, NEW ks \in SUBSET Kinds, InvalidateAttributes(f, ks, rest)
      PROVE  /\ Ready(stack')
             /\ Calls(stack') = {Changed(Home[f]), Outdate(f, RequestedBy(ks))} \cup Calls(rest)
  <2>. DEFINE c == Changed(Home[f])
              o == Outdate(f, RequestedBy(ks))
  <2>1. Home[f] \in Directories /\ RequestedBy(ks) \in SUBSET Kinds
    BY DirectoryAsyncAssumption DEF RequestedBy, RequestKinds
  <2>2. Easy(c) /\ Easy(o)
    BY <2>1, EasyCalls
  <2>3. stack' = << c, o >> \o rest
    BY <1>2 DEF InvalidateAttributes
  <2>. HIDE DEF c, o
  <2>4. Ready(stack') /\ Calls(stack') = {c, o} \cup Calls(rest)
    BY <2>2, <2>3, PushEasy
  <2>5. QED
    BY <2>4 DEF c, o
<1>3. ASSUME NEW d \in Listed
      PROVE  /\ ListMonitorAdd(d, rest) =>
                  /\ Ready(stack')
                  /\ Calls(stack') = {Enqueueing(Listing[d][i]) : i \in DOMAIN Listing[d]}
                                       \cup {Changed(d)} \cup Calls(rest)
             /\ ListMonitorRemove(d, rest) =>
                  Ready(stack') /\ Calls(stack') = {Changed(d)} \cup Calls(rest)
             /\ ForceReload(d, rest) =>
                  Ready(stack') /\ Calls(stack') = {Changed(d), Reload(d, 1)} \cup Calls(rest)
  <2>. DEFINE c == Changed(d)
              o == Reload(d, 1)
  <2>1. d \in Directories
    BY DirectoryAsyncAssumption
  <2>2. Easy(c) /\ Easy(o)
    <3>1. 1 \in 1 .. 3
      OBVIOUS
    <3>2. QED
      BY <2>1, <3>1, EasyCalls
  <2>3. /\ ListMonitorAdd(d, rest) => stack' = EnqueueAll(d) \o << c >> \o rest
        /\ ListMonitorRemove(d, rest) => stack' = << c >> \o rest
        /\ ForceReload(d, rest) => stack' = << c, o >> \o rest
    BY DEF ListMonitorAdd, ListMonitorRemove, ForceReload
  <2>4. /\ Ready(EnqueueAll(d) \o << c >> \o rest)
        /\ Calls(EnqueueAll(d) \o << c >> \o rest) =
             {Enqueueing(Listing[d][i]) : i \in DOMAIN Listing[d]} \cup {c} \cup Calls(rest)
    BY <2>1, PushListed
  <2>. HIDE DEF c, o
  <2>5. /\ Ready(<< c >> \o rest) /\ Calls(<< c >> \o rest) = {c} \cup Calls(rest)
        /\ Ready(<< c, o >> \o rest) /\ Calls(<< c, o >> \o rest) = {c, o} \cup Calls(rest)
    BY <2>2, PushEasy
  <2>6. QED
    BY <2>3, <2>4, <2>5 DEF c, o
<1>4. QED
  BY <1>1, <1>2, <1>3

\* Whatever a client calls is pushed on what remains to be done, which stays.
LEMMA ClientCallStack ==
  ASSUME TypeOK, NEW rest, Ready(rest), ClientCall(rest)
  PROVE  Ready(stack') /\ Calls(rest) \subseteq Calls(stack') /\ UNCHANGED loopVars
<1>1. \A r \in Requests : r[1] \in Files /\ {r[2]} \in SUBSET Kinds
  BY DirectoryAsyncAssumption
<1>2. ASSUME NEW r \in Requests,
             \/ MonitorAdd(r[1], r[2], rest) \/ MonitorRemove(r[1], r[2], rest)
             \/ CallWhenReady(r[1], r[2], rest) \/ CancelCallback(r[1], r[2], rest)
      PROVE  Ready(stack') /\ Calls(rest) \subseteq Calls(stack') /\ UNCHANGED loopVars
  <2>1. UNCHANGED loopVars
    BY <1>2 DEF MonitorAdd, MonitorRemove, CallWhenReady, CancelCallback
  <2>2. Ready(stack') /\ Calls(stack') = {Changed(Home[r[1]])} \cup Calls(rest)
    BY <1>2, ClientStacks
  <2>3. QED
    BY <2>1, <2>2
<1>3. ASSUME NEW r \in Requests, InvalidateAttributes(r[1], {r[2]}, rest)
      PROVE  Ready(stack') /\ Calls(rest) \subseteq Calls(stack')
  <2>. DEFINE f == r[1]
              ks == {r[2]}
  <2>1. f \in Files /\ ks \in SUBSET Kinds /\ InvalidateAttributes(f, ks, rest)
    BY <1>1, <1>3
  <2>. HIDE DEF f, ks
  <2>2. QED
    BY <2>1, ClientStacks
<1>4. ASSUME NEW r \in Requests, NotifyFilesChanged(r[1], rest)
      PROVE  Ready(stack') /\ Calls(rest) \subseteq Calls(stack') /\ UNCHANGED loopVars
  <2>1. UNCHANGED loopVars
    BY <1>4 DEF NotifyFilesChanged
  <2>2. Ready(stack') /\ Calls(stack') = {Changed(Home[r[1]]), Signal} \cup Calls(rest)
    BY <1>4, ClientStacks
  <2>3. QED
    BY <2>1, <2>2
<1>5. ASSUME NEW d \in Listed,
             ListMonitorAdd(d, rest) \/ ListMonitorRemove(d, rest) \/ ForceReload(d, rest)
      PROVE  Ready(stack') /\ Calls(rest) \subseteq Calls(stack') /\ UNCHANGED loopVars
  <2>1. UNCHANGED loopVars
    BY <1>5 DEF ListMonitorAdd, ListMonitorRemove, ForceReload
  <2>2. QED
    BY <1>5, <2>1, ClientStacks
<1>6. QED
  BY <1>2, <1>3, <1>4, <1>5, Zenon DEF ClientCall

\* What the calls on the stack leave of it.
LEMMA NestedStacks ==
  ASSUME TypeOK, Shape(stack)
  PROVE  /\ CallOne => Ready(stack') /\ Calls(stack') = {Signal} \cup Calls(stack)
         /\ CallNoMore => Ready(stack') /\ Calls(stack') = {Changed(Top.dir)} \cup Calls(Below)
         /\ EnqueueFile \/ End \/ EndDirectoryLoad \/ ForgetFileList \/ WakeNoMore =>
              stack' = Below /\ Ready(stack')
         /\ MarkOutdated =>
              Ready(stack') /\ Calls(stack') = {Changed(Home[Top.file])} \cup Calls(Below)
         /\ AnnounceLoaded =>
              /\ Ready(stack')
              /\ Top.dir \in loaded => Calls(stack') = {Signal, Changed(Top.dir)} \cup Calls(Below)
              /\ Top.dir \notin loaded => stack' = Below
         /\ UnloadDirectory =>
              /\ Ready(stack')
              /\ Top.dir \notin loading => stack' = Below
              /\ Top.dir \in loading =>
                   Calls(stack') = {EndLoad(Top.dir)} \cup Calls(Below)
                     \cup (IF Home[Corresponding[Top.dir]] # Top.dir
                           THEN {Changed(Home[Corresponding[Top.dir]])} ELSE {})
         /\ WakeUp => Ready(stack') /\ Calls(stack') = (IF waking THEN {} ELSE {Waking}) \cup Calls(Below)
         /\ WakeOne =>
              Ready(stack') /\ \E d \in waiting : /\ Calls(stack') = {Changed(d)} \cup Calls(stack)
                                                  /\ waiting' = waiting \ {d}
<1>0. stack \in Seq(Frames)
  BY DEF TypeOK
<1>1. ASSUME stack # << >> PROVE Ready(Below) /\ (Top.op # "service" => Ready(stack))
  BY <1>0, <1>1, Pops
<1>2. ASSUME CallOne PROVE Ready(stack') /\ Calls(stack') = {Signal} \cup Calls(stack)
  <2>1. Ready(stack) /\ stack' = << Signal >> \o stack
    BY <1>1, <1>2 DEF CallOne, Pending
  <2>2. QED
    BY <2>1, PushEasy, EasyCalls
<1>3. ASSUME CallNoMore PROVE Ready(stack') /\ Calls(stack') = {Changed(Top.dir)} \cup Calls(Below)
  <2>1. Ready(Below) /\ stack' = << Changed(Top.dir) >> \o Below /\ Top.dir \in Directories
    BY <1>0, <1>1, <1>3, TopType DEF CallNoMore, Pending
  <2>2. QED
    BY <2>1, PushEasy, EasyCalls
<1>4. ASSUME EnqueueFile \/ End \/ EndDirectoryLoad \/ ForgetFileList \/ WakeNoMore
      PROVE  stack' = Below /\ Ready(stack')
  <2>1. stack # << >> /\ stack' = Below
    BY <1>4 DEF EnqueueFile, End, EndDirectoryLoad, ForgetFileList, WakeNoMore, Pending
  <2>2. QED
    BY <1>1, <2>1
<1>5. ASSUME MarkOutdated
      PROVE  Ready(stack') /\ Calls(stack') = {Changed(Home[Top.file])} \cup Calls(Below)
  <2>1. Ready(Below) /\ stack' = << Changed(Home[Top.file]) >> \o Below /\ Top.file \in Files
    BY <1>0, <1>1, <1>5, TopType DEF MarkOutdated, Pending
  <2>2. Home[Top.file] \in Directories
    BY <2>1, DirectoryAsyncAssumption
  <2>3. QED
    BY <2>1, <2>2, PushEasy, EasyCalls
<1>6. ASSUME AnnounceLoaded
      PROVE  /\ Ready(stack')
             /\ Top.dir \in loaded => Calls(stack') = {Signal, Changed(Top.dir)} \cup Calls(Below)
             /\ Top.dir \notin loaded => stack' = Below
  <2>. DEFINE c == Changed(Top.dir)
  <2>1. /\ Ready(Below) /\ Top.dir \in Directories
        /\ Top.dir \in loaded => stack' = << Signal, c >> \o Below
        /\ Top.dir \notin loaded => stack' = Below
    BY <1>0, <1>1, <1>6, TopType DEF AnnounceLoaded, Pending
  <2>2. Easy(Signal) /\ Easy(c)
    BY <2>1, EasyCalls
  <2>. HIDE DEF c
  <2>3. /\ Ready(<< Signal, c >> \o Below)
        /\ Calls(<< Signal, c >> \o Below) = {Signal, c} \cup Calls(Below)
    BY <2>1, <2>2, PushEasy
  <2>4. QED
    BY <2>1, <2>3 DEF c
<1>7. ASSUME UnloadDirectory
      PROVE  /\ Ready(stack')
             /\ Top.dir \notin loading => stack' = Below
             /\ Top.dir \in loading =>
                  Calls(stack') = {EndLoad(Top.dir)} \cup Calls(Below)
                    \cup (IF Home[Corresponding[Top.dir]] # Top.dir
                          THEN {Changed(Home[Corresponding[Top.dir]])} ELSE {})
  <2>. DEFINE e == EndLoad(Top.dir)
              parent == Home[Corresponding[Top.dir]]
              c == Changed(parent)
              u == << e >> \o Below
  <2>1. /\ Ready(Below) /\ Top.dir \in Directories
        /\ Top.dir \notin loading => stack' = Below
        /\ Top.dir \in loading =>
             stack' = (IF parent # Top.dir THEN << c >> ELSE << >>) \o << e >> \o Below
    BY <1>0, <1>1, <1>7, TopType DEF UnloadDirectory, Pending
  <2>2. parent \in Directories
    BY <2>1, DirectoryAsyncAssumption
  <2>3. Easy(e) /\ Easy(c)
    BY <2>1, <2>2, EasyCalls
  <2>. HIDE DEF e, c, parent
  <2>4. Ready(u) /\ Calls(u) = {e} \cup Calls(Below)
    BY <2>1, <2>3, PushEasy
  <2>5. Below \in Seq(Frames) /\ e \in Frames /\ c \in Frames
    BY <2>1, <2>3 DEF Ready, Easy
  <2>6. Top.dir \in loading => stack' = IF parent # Top.dir THEN << c, e >> \o Below ELSE u
    BY <2>1, <2>5, PushedTogether
  <2>. HIDE DEF u
  <2>7. /\ Ready(<< c, e >> \o Below)
        /\ Calls(<< c, e >> \o Below) = {c, e} \cup Calls(Below)
    BY <2>1, <2>3, PushEasy
  <2>8. CASE Top.dir \notin loading
    BY <2>1, <2>8
  <2>9. CASE Top.dir \in loading
    <3>1. CASE parent # Top.dir
      <4>1. stack' = << c, e >> \o Below
        BY <2>6, <2>9, <3>1
      <4>2. Ready(stack') /\ Calls(stack') = {e} \cup Calls(Below) \cup {c}
        BY <2>7, <4>1
      <4>3. QED
        BY <2>9, <3>1, <4>2 DEF e, c, parent
    <3>2. CASE parent = Top.dir
      <4>1. stack' = u
        BY <2>6, <2>9, <3>2
      <4>2. Ready(stack') /\ Calls(stack') = {e} \cup Calls(Below) \cup {}
        BY <2>4, <4>1
      <4>3. QED
        BY <2>9, <3>2, <4>2 DEF e, c, parent
    <3>3. QED
      BY <3>1, <3>2
  <2>10. QED
    BY <2>8, <2>9
<1>8. ASSUME WakeUp
      PROVE  Ready(stack') /\ Calls(stack') = (IF waking THEN {} ELSE {Waking}) \cup Calls(Below)
  <2>1. Ready(Below) /\ stack' = IF waking THEN Below ELSE << Waking >> \o Below
    BY <1>1, <1>8 DEF WakeUp, Pending
  <2>2. Ready(<< Waking >> \o Below) /\ Calls(<< Waking >> \o Below) = {Waking} \cup Calls(Below)
    BY <2>1, PushEasy, EasyCalls
  <2>3. QED
    BY <2>1, <2>2
<1>9. ASSUME WakeOne
      PROVE  Ready(stack') /\ \E d \in waiting : /\ Calls(stack') = {Changed(d)} \cup Calls(stack)
                                                 /\ waiting' = waiting \ {d}
  <2>1. PICK d \in waiting : stack' = << Changed(d) >> \o stack /\ waiting' = waiting \ {d}
    BY <1>9 DEF WakeOne
  <2>2. Ready(stack) /\ d \in Directories
    BY <1>1, <1>9, <2>1 DEF WakeOne, Pending, TypeOK
  <2>3. Ready(stack') /\ Calls(stack') = {Changed(d)} \cup Calls(stack)
    BY <2>1, <2>2, PushEasy, EasyCalls
  <2>4. QED
    BY <2>1, <2>3
<1>10. QED
  BY <1>2, <1>3, <1>4, <1>5, <1>6, <1>7, <1>8, <1>9

\* Queues and jobs are for the files of their directory.
Homed ==
  /\ \A d \in Directories, k \in Kinds : Running(d, k) => Home[current[<< d, k >>]] = d
  /\ \A d \in Directories, level \in Levels :
       \A i \in DOMAIN queue[d][level] : Home[queue[d][level][i]] = d

\* So is the file that a pass tries.
LEMMA FileTriedHome ==
  ASSUME TypeOK, Homed, Shape(stack), NEW level \in Levels, AtPhase(level), HasFile(level)
  PROVE  FileTried(level) \in Files /\ Home[FileTried(level)] = Top.dir /\ Top.dir \in Directories
<1>1. stack \in Seq(Frames) /\ stack # << >> /\ Top.op = "service"
  BY DEF TypeOK, AtPhase, Pending
<1>2. Top.dir \in Directories /\ IsPass(Top) /\ FileTried(level) \in Files
  BY <1>1, TopType, Pops, FileTriedType DEF TypeOK
<1>3. CASE Top.io # NoFile
  BY <1>1, <1>2, <1>3 DEF FileTried, IsPass
<1>4. CASE Top.io = NoFile
  <2>. DEFINE q == queue[Top.dir][level]
  <2>1. q \in Seq(Files) /\ q # << >> /\ FileTried(level) = Head(q)
    BY <1>2, <1>4 DEF TypeOK, FileTried, HasFile
  <2>2. 1 \in DOMAIN q /\ Head(q) = q[1]
    BY <2>1
  <2>3. Home[q[1]] = Top.dir
    BY <1>2, <2>2 DEF Homed
  <2>4. QED
    BY <1>2, <2>1, <2>2, <2>3
<1>5. QED
  BY <1>3, <1>4

\* What force_reload leaves of the stack, step by step.
LEMMA ReloadStacks ==
  ASSUME TypeOK, Shape(stack), Reloading
  PROVE  /\ stack # << >> /\ Top.op = "reload" /\ Top.dir \in Directories /\ Top.step \in 1 .. 3
         /\ Ready(stack')
         /\ Top.step = 1 =>
              Calls(stack') = {Unload(Top.dir), Reload(Top.dir, 2)} \cup Calls(Below)
         /\ Top.step = 2 =>
              Calls(stack') =
                {Changed(Home[Corresponding[Top.dir]]),
                 Outdate(Corresponding[Top.dir], RequestedBy(LoadFills \cap Kinds)),
                 Reload(Top.dir, 3)} \cup Calls(Below)
         /\ Top.step = 3 =>
              Calls(stack') = {Enqueueing(Listing[Top.dir][i]) : i \in DOMAIN Listing[Top.dir]}
                                \cup {Changed(Top.dir)} \cup Calls(Below)
<1>1. stack # << >> /\ Top.op = "reload" /\ stack \in Seq(Frames)
  BY DEF Reloading, Pending, TypeOK
<1>2. /\ Top.dir \in Directories /\ Top.step \in 1 .. 3 /\ Ready(Below)
      /\ Easy(Reload(Top.dir, 2)) /\ Easy(Reload(Top.dir, 3))
  <2>1. 2 \in 1 .. 3 /\ 3 \in 1 .. 3
    OBVIOUS
  <2>2. QED
    BY <1>1, <2>1, TopType, Pops, EasyCalls
<1>3. ASSUME Top.step = 1
      PROVE  Ready(stack') /\ Calls(stack') = {Unload(Top.dir), Reload(Top.dir, 2)} \cup Calls(Below)
  <2>. DEFINE u == Unload(Top.dir)
              v == Reload(Top.dir, 2)
              s == << v >> \o Below
  <2>1. stack' = << u, v >> \o Below
    BY <1>3 DEF Reloading
  <2>2. u \in Frames /\ v \in Frames /\ Below \in Seq(Frames)
    BY <1>2, FramesType DEF Easy, Ready
  <2>3. Ready(s) /\ Calls(s) = {v} \cup Calls(Below)
    BY <1>2, PushEasy
  <2>. HIDE DEF v
  <2>4. s # << >> /\ Head(s) = v
    BY <2>2
  <2>. HIDE DEF u, s
  <2>5. << u, v >> \o Below = << u >> \o s
    <3>1. << u >> \in Seq(Frames) /\ << v >> \in Seq(Frames)
      BY <2>2
    <3>2. << u >> \o (<< v >> \o Below) = << u >> \o << v >> \o Below
      BY <2>2, <3>1, ConcatAssociative
    <3>3. << u, v >> \o Below = << u >> \o (<< v >> \o Below)
      BY <2>2, <3>2, PushedTogether
    <3>4. QED
      BY <3>3 DEF s
  <2>6. Ready(<< u >> \o s) /\ Calls(<< u >> \o s) = {u} \cup Calls(s)
    BY <1>2, <2>3, <2>4, PushUnload DEF u, v
  <2>7. Ready(stack') /\ Calls(stack') = {u, v} \cup Calls(Below)
    BY <2>1, <2>3, <2>5, <2>6
  <2>8. QED
    BY <2>7 DEF u, v
<1>4. ASSUME Top.step = 2
      PROVE  /\ Ready(stack')
             /\ Calls(stack') =
                  {Changed(Home[Corresponding[Top.dir]]),
                   Outdate(Corresponding[Top.dir], RequestedBy(LoadFills \cap Kinds)),
                   Reload(Top.dir, 3)} \cup Calls(Below)
  <2>. DEFINE own == Corresponding[Top.dir]
              ks == LoadFills \cap Kinds
              rest == << Reload(Top.dir, 3) >> \o Below
  <2>1. InvalidateAttributes(own, ks, rest)
    BY <1>4 DEF Reloading
  <2>2. own \in Files /\ ks \in SUBSET Kinds
    BY <1>2, DirectoryAsyncAssumption
  <2>3. Ready(rest) /\ Calls(rest) = {Reload(Top.dir, 3)} \cup Calls(Below)
    BY <1>2, PushEasy
  <2>. HIDE DEF own, ks, rest
  <2>4. Ready(stack') /\ Calls(stack') = {Changed(Home[own]), Outdate(own, RequestedBy(ks))} \cup Calls(rest)
    BY <2>1, <2>2, <2>3, ClientStacks
  <2>5. Calls(stack') = {Changed(Home[own]), Outdate(own, RequestedBy(ks)), Reload(Top.dir, 3)} \cup Calls(Below)
    BY <2>3, <2>4
  <2>6. QED
    BY <2>4, <2>5 DEF own, ks
<1>5. ASSUME Top.step = 3
      PROVE  /\ Ready(stack')
             /\ Calls(stack') = {Enqueueing(Listing[Top.dir][i]) : i \in DOMAIN Listing[Top.dir]}
                                  \cup {Changed(Top.dir)} \cup Calls(Below)
  <2>1. stack' = EnqueueAll(Top.dir) \o << Changed(Top.dir) >> \o Below
    BY <1>5 DEF Reloading
  <2>2. /\ Ready(EnqueueAll(Top.dir) \o << Changed(Top.dir) >> \o Below)
        /\ Calls(EnqueueAll(Top.dir) \o << Changed(Top.dir) >> \o Below) =
             {Enqueueing(Listing[Top.dir][i]) : i \in DOMAIN Listing[Top.dir]}
               \cup {Changed(Top.dir)} \cup Calls(Below)
    BY <1>2, PushListed
  <2>3. QED
    BY <2>1, <2>2
<1>6. Top.step = 1 \/ Top.step = 2 \/ Top.step = 3
  BY <1>2
<1>7. QED
  BY <1>1, <1>2, <1>3, <1>4, <1>5, <1>6, Zenon

\* The pass goes on.
LEMMA PassGoesOn ==
  ASSUME stack \in Seq(Frames), Shape(stack), stack # << >>, Top.op = "service",
         NEW at \in Phases, NEW i \in Nat, NEW io \in Files \cup {NoFile},
         io # NoFile => i > 1 /\ at \in Levels /\ Home[io] = Top.dir
  PROVE  LET x == ServiceAt(Top.dir, at, i, io)
         IN  /\ << x >> \o Below \in Seq(Frames) /\ Shape(<< x >> \o Below)
             /\ Calls(<< x >> \o Below) = {x} \cup Calls(Below)
             /\ (at = "stop" /\ i = 1) \/ (at \in {"low", "extension"} /\ io # NoFile) =>
                  Ready(<< x >> \o Below)
BY Pops, TopType, PushPass

\* What each step of start_or_stop_io leaves of the stack.
LEMMA ServiceStacks ==
  ASSUME TypeOK, Homed, Shape(stack)
  PROVE  /\ StateChanged =>
              /\ stack # << >> /\ Top.op = "changed" /\ Top.dir \in Directories
              /\ Shape(stack')
              /\ Top.dir \in inLoop => stack' = Below
              /\ Top.dir \notin inLoop =>
                   Calls(stack') = {ServiceAt(Top.dir, "list", 1, NoFile)} \cup Calls(Below)
         /\ StartFileList =>
              /\ Shape(stack')
              /\ Calls(stack') = {ServiceAt(Top.dir, "stop", 1, NoFile)} \cup Calls(Below)
         /\ StopFileList =>
              /\ Shape(stack')
              /\ \/ Calls(stack') = {ServiceAt(Top.dir, "stop", 1, NoFile)} \cup Calls(Below)
                 \/ Calls(stack') = {Unload(Top.dir), Unlist(Top.dir),
                                     ServiceAt(Top.dir, "stop", 1, NoFile)} \cup Calls(Below)
         /\ \A j \in NextJob(StopOrder, Top.i) :
              AtPhase("stop") /\ GoTo("stop", j + 1, NoFile) =>
                /\ Shape(stack')
                /\ Calls(stack') = {ServiceAt(Top.dir, "stop", j + 1, NoFile)} \cup Calls(Below)
         /\ StopsDone =>
              Shape(stack') /\ Calls(stack') = {ServiceAt(Top.dir, "high", 1, NoFile)} \cup Calls(Below)
         /\ CallReady =>
              /\ Shape(stack')
              /\ \/ Calls(stack') = {ServiceAt(Top.dir, "list", 1, NoFile)} \cup Calls(Below) /\ inLoop' = inLoop
                 \/ /\ Calls(stack') = {Wake} \cup Calls(Below) /\ inLoop' = inLoop \ {Top.dir}
                    /\ Top.dir \notin stateChanged /\ Due(Top.dir) = {}
<1>0. stack \in Seq(Frames)
  BY DEF TypeOK
<1>1. ASSUME Pending("service"), NEW at \in Phases, NEW i \in Nat
      PROVE  LET x == ServiceAt(Top.dir, at, i, NoFile)
             IN  /\ << x >> \o Below \in Seq(Frames) /\ Shape(<< x >> \o Below)
                 /\ Calls(<< x >> \o Below) = {x} \cup Calls(Below)
                 /\ (at = "stop" /\ i = 1) => Ready(<< x >> \o Below)
  <2>1. NoFile \in Files \cup {NoFile} /\ Top.op = "service" /\ stack # << >>
    BY <1>1 DEF Pending
  <2>2. QED
    BY <1>0, <2>1, PassGoesOn
<1>2. {"list", "stop", "ready", "high"} \subseteq Phases /\ 1 \in Nat
  BY LevelsAre DEF Phases
<1>3. ASSUME StateChanged
      PROVE  /\ stack # << >> /\ Top.op = "changed" /\ Top.dir \in Directories
             /\ Shape(stack')
             /\ Top.dir \in inLoop => stack' = Below
             /\ Top.dir \notin inLoop =>
                  Calls(stack') = {ServiceAt(Top.dir, "list", 1, NoFile)} \cup Calls(Below)
  <2>1. stack # << >> /\ Top.op = "changed"
    BY <1>3 DEF StateChanged, Pending
  <2>2. Top.dir \in Directories /\ Ready(Below)
    BY <1>0, <2>1, TopType, Pops
  <2>. DEFINE x == ServiceAt(Top.dir, "list", 1, NoFile)
  <2>3. IF Top.dir \in inLoop THEN stack' = Below ELSE stack' = << x >> \o Below
    BY <1>3 DEF StateChanged, GoTo
  <2>4. Shape(<< x >> \o Below) /\ Calls(<< x >> \o Below) = {x} \cup Calls(Below)
    <3>1. "list" \in Phases /\ NoFile \in Files \cup {NoFile}
      BY <1>2
    <3>2. ASSUME NEW d \in Directories, NEW at \in Phases, NEW i \in Nat
          PROVE  LET c == ServiceAt(d, at, i, NoFile)
                 IN  Shape(<< c >> \o Below) /\ Calls(<< c >> \o Below) = {c} \cup Calls(Below)
      BY <2>2, <3>1, PushPass
    <3>3. QED
      BY <1>2, <2>2, <3>1, <3>2
  <2>. HIDE DEF x
  <2>5. QED
    BY <2>1, <2>2, <2>3, <2>4 DEF Ready, x
<1>4. ASSUME StartFileList
      PROVE  Shape(stack') /\ Calls(stack') = {ServiceAt(Top.dir, "stop", 1, NoFile)} \cup Calls(Below)
  <2>. DEFINE x == ServiceAt(Top.dir, "stop", 1, NoFile)
  <2>1. stack' = << x >> \o Below /\ Pending("service")
    BY <1>4 DEF StartFileList, GoTo, AtPhase
  <2>2. QED
    BY <1>1, <1>2, <2>1
<1>5. ASSUME StopFileList
      PROVE  /\ Shape(stack')
             /\ \/ Calls(stack') = {ServiceAt(Top.dir, "stop", 1, NoFile)} \cup Calls(Below)
                \/ Calls(stack') = {Unload(Top.dir), Unlist(Top.dir),
                                    ServiceAt(Top.dir, "stop", 1, NoFile)} \cup Calls(Below)
  <2>. DEFINE x == ServiceAt(Top.dir, "stop", 1, NoFile)
              u == Unload(Top.dir)
              v == Unlist(Top.dir)
              next == << x >> \o Below
              s == << v >> \o next
  <2>1. (stack' = << u, v >> \o next \/ stack' = next) /\ Pending("service")
    BY <1>5 DEF StopFileList, AtPhase
  <2>2. Ready(next) /\ Calls(next) = {x} \cup Calls(Below)
    BY <1>1, <1>2, <2>1
  <2>3. Top.dir \in Directories
    BY <1>0, <2>1, TopType DEF Pending
  <2>4. u \in Frames /\ v \in Frames /\ Easy(v) /\ next \in Seq(Frames)
    BY <2>2, <2>3, FramesType, EasyCalls DEF Ready
  <2>. HIDE DEF x, next
  <2>5. Ready(s) /\ Calls(s) = {v} \cup Calls(next)
    BY <2>2, <2>4, PushEasy
  <2>. HIDE DEF v
  <2>6. s # << >> /\ Head(s) = v
    BY <2>4
  <2>. HIDE DEF u, s
  <2>7. << u, v >> \o next = << u >> \o s
    <3>1. << u >> \in Seq(Frames) /\ << v >> \in Seq(Frames)
      BY <2>4
    <3>2. << u >> \o (<< v >> \o next) = << u >> \o << v >> \o next
      BY <2>4, <3>1, ConcatAssociative
    <3>3. << u, v >> \o next = << u >> \o (<< v >> \o next)
      BY <2>4, <3>2, PushedTogether
    <3>4. QED
      BY <3>3 DEF s
  <2>8. Ready(<< u >> \o s) /\ Calls(<< u >> \o s) = {u} \cup Calls(s)
    BY <2>3, <2>5, <2>6, PushUnload DEF u, v
  <2>9. /\ Shape(stack')
        /\ Calls(stack') = {x} \cup Calls(Below) \/ Calls(stack') = {u, v, x} \cup Calls(Below)
    BY <2>1, <2>2, <2>5, <2>7, <2>8 DEF Ready
  <2>10. QED
    BY <2>9 DEF u, v, x
<1>6. ASSUME NEW j \in NextJob(StopOrder, Top.i), AtPhase("stop"), GoTo("stop", j + 1, NoFile)
      PROVE  /\ Shape(stack')
             /\ Calls(stack') = {ServiceAt(Top.dir, "stop", j + 1, NoFile)} \cup Calls(Below)
  <2>1. j + 1 \in Nat
    BY DEF NextJob, StopOrder
  <2>2. QED
    BY <1>1, <1>2, <1>6, <2>1 DEF AtPhase, GoTo
<1>7. ASSUME StopsDone
      PROVE  Shape(stack') /\ Calls(stack') = {ServiceAt(Top.dir, "high", 1, NoFile)} \cup Calls(Below)
  BY <1>1, <1>2, <1>7 DEF StopsDone, AtPhase, GoTo
<1>8. ASSUME CallReady
      PROVE  /\ Shape(stack')
             /\ \/ Calls(stack') = {ServiceAt(Top.dir, "list", 1, NoFile)} \cup Calls(Below) /\ inLoop' = inLoop
                \/ /\ Calls(stack') = {Wake} \cup Calls(Below) /\ inLoop' = inLoop \ {Top.dir}
                   /\ Top.dir \notin stateChanged /\ Due(Top.dir) = {}
  <2>1. Pending("service") /\ stack # << >> /\ Ready(Below)
    BY <1>0, <1>8, Pops DEF CallReady, AtPhase, Pending
  <2>2. \/ GoTo("list", 1, NoFile) /\ inLoop' = inLoop
        \/ /\ stack' = << Wake >> \o Below /\ inLoop' = inLoop \ {Top.dir}
           /\ Top.dir \notin stateChanged /\ Due(Top.dir) = {}
    BY <1>8 DEF CallReady
  <2>3. CASE GoTo("list", 1, NoFile) /\ inLoop' = inLoop
    BY <1>1, <1>2, <2>1, <2>3 DEF GoTo
  <2>4. Ready(<< Wake >> \o Below) /\ Calls(<< Wake >> \o Below) = {Wake} \cup Calls(Below)
    BY <2>1, PushEasy, EasyCalls
  <2>5. QED
    BY <2>2, <2>3, <2>4 DEF Ready
<1>9. QED
  BY <1>3, <1>4, <1>5, <1>6, <1>7, <1>8

\* What each step of a level leaves of the stack.
LEMMA LevelStacks ==
  ASSUME TypeOK, Homed, Shape(stack), NEW level \in Levels
  PROVE  /\ StartJob(level) =>
              /\ Shape(stack')
              /\ \E j \in NextJob(StartOrder[level], Top.i) :
                   Calls(stack') =
                     {ServiceAt(Top.dir, level, j + 1,
                        IF \/ Top.io # NoFile \/ Running(Top.dir, StartOrder[level][j])
                           \/ Needy(FileTried(level), StartOrder[level][j])
                        THEN FileTried(level) ELSE NoFile)} \cup Calls(Below)
         /\ Skip(level) =>
              /\ Shape(stack')
              /\ \E j \in NextJob(StartOrder[level], Top.i) :
                   LET x == ServiceAt(Top.dir, level, j + 1, FileTried(level))
                   IN  Calls(stack') = {x} \cup Calls(Below) \/ Calls(stack') = {Signal, x} \cup Calls(Below)
         /\ FinishHead(level) =>
              /\ Shape(stack')
              /\ Calls(stack') = {IF Top.io # NoFile THEN ServiceAt(Top.dir, "ready", 1, NoFile)
                                  ELSE ServiceAt(Top.dir, level, 1, NoFile)} \cup Calls(Below)
         /\ NextLevel(level) =>
              /\ Shape(stack')
              /\ Calls(stack') = {ServiceAt(Top.dir, CASE level = "high" -> "low"
                                                       [] level = "low" -> "extension"
                                                       [] OTHER -> "ready", 1, NoFile)} \cup Calls(Below)
<1>0. stack \in Seq(Frames)
  BY DEF TypeOK
<1>1. ASSUME Pending("service"), NEW at \in Phases, NEW i \in Nat, NEW io \in Files \cup {NoFile},
             io # NoFile => i > 1 /\ at \in Levels /\ Home[io] = Top.dir
      PROVE  LET x == ServiceAt(Top.dir, at, i, io)
             IN  /\ << x >> \o Below \in Seq(Frames) /\ Shape(<< x >> \o Below)
                 /\ Calls(<< x >> \o Below) = {x} \cup Calls(Below)
                 /\ (at \in {"low", "extension"} /\ io # NoFile) => Ready(<< x >> \o Below)
  <2>1. Top.op = "service" /\ stack # << >>
    BY <1>1 DEF Pending
  <2>2. QED
    BY <1>0, <1>1, <2>1, PassGoesOn
<1>2. {"low", "extension", "ready"} \subseteq Phases /\ level \in Phases /\ 1 \in Nat /\ NoFile \in Files \cup {NoFile}
  BY LevelsAre DEF Phases
<1>3. \A j \in NextJob(StartOrder[level], Top.i) : j + 1 \in Nat /\ j + 1 > 1
  BY LevelsAre DEF NextJob, StartOrder
<1>4. AtPhase(level) => Pending("service")
  BY DEF AtPhase
<1>5. AtPhase(level) /\ HasFile(level) =>
        FileTried(level) \in Files /\ Home[FileTried(level)] = Top.dir /\ FileTried(level) # NoFile
  BY FileTriedHome, DirectoryAsyncAssumption
<1>6. ASSUME StartJob(level)
      PROVE  /\ Shape(stack')
             /\ \E j \in NextJob(StartOrder[level], Top.i) :
                  Calls(stack') =
                    {ServiceAt(Top.dir, level, j + 1,
                       IF \/ Top.io # NoFile \/ Running(Top.dir, StartOrder[level][j])
                          \/ Needy(FileTried(level), StartOrder[level][j])
                       THEN FileTried(level) ELSE NoFile)} \cup Calls(Below)
  <2>1. PICK j \in NextJob(StartOrder[level], Top.i) :
          LET k == StartOrder[level][j]
              f == FileTried(level)
          IN  GoTo(level, j + 1,
                   IF Top.io # NoFile \/ Running(Top.dir, k) \/ Needy(f, k) THEN f ELSE NoFile)
    BY <1>6, Zenon DEF StartJob
  <2>. DEFINE io == IF \/ Top.io # NoFile \/ Running(Top.dir, StartOrder[level][j])
                       \/ Needy(FileTried(level), StartOrder[level][j])
                    THEN FileTried(level) ELSE NoFile
              i == j + 1
              x == ServiceAt(Top.dir, level, i, io)
  <2>2. stack' = << x >> \o Below
    BY <2>1 DEF GoTo
  <2>3. AtPhase(level) /\ HasFile(level)
    BY <1>6 DEF StartJob
  <2>4. i \in Nat /\ i > 1
    BY <1>3
  <2>5. io \in Files \cup {NoFile} /\ (io # NoFile => Home[io] = Top.dir)
    BY <1>5, <2>3
  <2>. HIDE DEF io, i
  <2>6. Shape(<< x >> \o Below) /\ Calls(<< x >> \o Below) = {x} \cup Calls(Below)
    BY <1>1, <1>2, <1>4, <2>3, <2>4, <2>5
  <2>. HIDE DEF x
  <2>7. Shape(stack') /\ Calls(stack') = {x} \cup Calls(Below)
    BY <2>2, <2>6
  <2>8. QED
    BY <2>7 DEF x, i, io
<1>7. ASSUME Skip(level)
      PROVE  /\ Shape(stack')
             /\ \E j \in NextJob(StartOrder[level], Top.i) :
                  LET x == ServiceAt(Top.dir, level, j + 1, FileTried(level))
                  IN  Calls(stack') = {x} \cup Calls(Below) \/ Calls(stack') = {Signal, x} \cup Calls(Below)
  <2>1. PICK j \in NextJob(StartOrder[level], Top.i) :
          \/ stack' = << ServiceAt(Top.dir, level, j + 1, FileTried(level)) >> \o Below
          \/ /\ JobOf[StartOrder[level][j]].skips = "signals"
             /\ stack' = << Signal, ServiceAt(Top.dir, level, j + 1, FileTried(level)) >> \o Below
    BY <1>7, Zenon DEF Skip
  <2>2. AtPhase(level) /\ HasFile(level)
    BY <1>7 DEF Skip
  <2>. DEFINE i == j + 1
              f == FileTried(level)
              x == ServiceAt(Top.dir, level, i, f)
              s == << x >> \o Below
  <2>3. i \in Nat /\ i > 1
    BY <1>3
  <2>4. f \in Files \cup {NoFile} /\ f # NoFile /\ Home[f] = Top.dir
    BY <1>5, <2>2
  <2>5. \/ stack' = s
        \/ JobOf[StartOrder[level][j]].skips = "signals" /\ stack' = << Signal, x >> \o Below
    BY <2>1
  <2>. HIDE DEF i, f
  <2>6. /\ s \in Seq(Frames) /\ Shape(s) /\ Calls(s) = {x} \cup Calls(Below)
        /\ level \in {"low", "extension"} => Ready(s)
    BY <1>1, <1>2, <1>4, <2>2, <2>3, <2>4
  <2>7. x \in Frames /\ Signal \in Frames /\ Below \in Seq(Frames)
    <3>1. Top.dir \in Directories /\ Below \in Seq(Frames)
      BY <1>0, <2>2, TopType DEF AtPhase, Pending
    <3>2. QED
      BY <1>2, <2>3, <2>4, <3>1, FramesType
  <2>8. CASE stack' = s
    BY <2>6, <2>8 DEF x, i, f
  <2>9. CASE JobOf[StartOrder[level][j]].skips = "signals" /\ stack' = << Signal, x >> \o Below
    <3>1. level \in {"low", "extension"}
      <4>1. SUFFICES ASSUME level = "high" PROVE FALSE
        BY LevelsAre
      <4>2. StartOrder[level][j] \in {"file_info", "link_info"}
        BY <4>1, LevelsAre DEF NextJob, StartOrder
      <4>3. JobOf["file_info"].skips = "never" /\ JobOf["link_info"].skips = "silently"
        BY DEF JobOf, FileInfoJob, LinkInfoJob
      <4>4. QED
        BY <2>9, <4>2, <4>3
    <3>. HIDE DEF x
    <3>2. << Signal, x >> \o Below = << Signal >> \o s
      <4>1. << Signal >> \in Seq(Frames) /\ << x >> \in Seq(Frames)
        BY <2>7
      <4>2. << Signal >> \o (<< x >> \o Below) = << Signal >> \o << x >> \o Below
        BY <2>7, <4>1, ConcatAssociative
      <4>3. QED
        BY <2>7, <4>2, PushedTogether
    <3>. HIDE DEF s
    <3>3. Ready(<< Signal >> \o s) /\ Calls(<< Signal >> \o s) = {Signal} \cup Calls(s)
      BY <2>6, <3>1, PushEasy, EasyCalls
    <3>4. Shape(stack') /\ Calls(stack') = {Signal, x} \cup Calls(Below)
      BY <2>6, <2>9, <3>2, <3>3 DEF Ready
    <3>5. QED
      BY <3>4 DEF x, i, f
  <2>10. QED
    BY <2>5, <2>8, <2>9
<1>8. ASSUME FinishHead(level)
      PROVE  /\ Shape(stack')
             /\ Calls(stack') = {IF Top.io # NoFile THEN ServiceAt(Top.dir, "ready", 1, NoFile)
                                 ELSE ServiceAt(Top.dir, level, 1, NoFile)} \cup Calls(Below)
  <2>1. /\ AtPhase(level)
        /\ IF Top.io # NoFile THEN GoTo("ready", 1, NoFile) ELSE GoTo(level, 1, NoFile)
    BY <1>8 DEF FinishHead
  <2>2. QED
    BY <1>1, <1>2, <1>4, <2>1 DEF GoTo
<1>9. ASSUME NextLevel(level)
      PROVE  /\ Shape(stack')
             /\ Calls(stack') = {ServiceAt(Top.dir, CASE level = "high" -> "low"
                                                      [] level = "low" -> "extension"
                                                      [] OTHER -> "ready", 1, NoFile)} \cup Calls(Below)
  <2>. DEFINE at == CASE level = "high" -> "low" [] level = "low" -> "extension" [] OTHER -> "ready"
  <2>1. AtPhase(level) /\ GoTo(at, 1, NoFile)
    BY <1>9 DEF NextLevel
  <2>2. at \in Phases
    BY <1>2
  <2>. HIDE DEF at
  <2>3. Shape(stack') /\ Calls(stack') = {ServiceAt(Top.dir, at, 1, NoFile)} \cup Calls(Below)
    BY <1>1, <1>2, <1>4, <2>1, <2>2 DEF GoTo
  <2>4. QED
    BY <2>3 DEF at
<1>10. QED
  BY <1>6, <1>7, <1>8, <1>9

\* Three calls pushed together.
LEMMA PushThree ==
  ASSUME NEW s \in Seq(Frames), NEW a, Easy(a), NEW b \in Frames, NEW c \in Frames,
         Ready(<< b >> \o (<< c >> \o s))
  PROVE  Ready(<< a, b, c >> \o s) /\ Calls(<< a, b, c >> \o s) = {a, b, c} \cup Calls(s)
<1>. DEFINE t == << b >> \o (<< c >> \o s)
<1>1. a \in Frames
  BY DEF Easy
<1>2. << a, b, c >> \o s = << a >> \o t
  BY <1>1, PushedInTurn, SMTT(30)
<1>3. Ready(t)
  OBVIOUS
<1>. HIDE DEF t
<1>4. Ready(<< a >> \o t)
  BY <1>3, PushEasy
<1>5. Calls(<< a, b, c >> \o s) = {a, b, c} \cup Calls(s)
  BY <1>1, CallsOf
<1>6. QED
  BY <1>2, <1>4, <1>5

\* extension_info_start, when the extension answers at once.
LEMMA ExtensionStack ==
  ASSUME TypeOK, Homed, Shape(stack), StartExtensionAtOnce
  PROVE  LET f == Head(queue[Top.dir].extension)
             x == ServiceAt(Top.dir, "extension", 2, f)
         IN  /\ AtPhase("extension") /\ Top.dir \in Directories
             /\ f \in Files /\ Home[f] = Top.dir
             /\ Shape(stack')
             /\ Calls(stack') = {Signal, EndJob(Top.dir, "extension_info"), x} \cup Calls(Below)
<1>. DEFINE tried == Head(queue[Top.dir].extension)
            x == ServiceAt(Top.dir, "extension", 2, tried)
            y == EndJob(Top.dir, "extension_info")
            pass == << x >> \o Below
            rest == << y >> \o pass
<1>1. /\ AtPhase("extension") /\ HasFile("extension") /\ FileTried("extension") = tried
      /\ stack' = << Signal, y, x >> \o Below /\ "extension_info" \in Kinds /\ "extension" \in Levels
  BY LevelsAre DEF StartExtensionAtOnce, HasFile, FileTried
<1>2. tried \in Files /\ Home[tried] = Top.dir /\ Top.dir \in Directories /\ tried # NoFile
  BY <1>1, FileTriedHome, DirectoryAsyncAssumption
<1>. HIDE DEF tried
<1>3. /\ pass \in Seq(Frames) /\ Calls(pass) = {x} \cup Calls(Below) /\ Ready(pass)
  <2>1. stack \in Seq(Frames) /\ stack # << >> /\ Top.op = "service" /\ "extension" \in Phases
    BY <1>1 DEF TypeOK, AtPhase, Pending, Phases
  <2>2. \A i \in Nat :
          i > 1 => LET c == ServiceAt(Top.dir, "extension", i, tried)
                   IN  /\ << c >> \o Below \in Seq(Frames) /\ Ready(<< c >> \o Below)
                       /\ Calls(<< c >> \o Below) = {c} \cup Calls(Below)
    BY <1>1, <1>2, <2>1, PassGoesOn DEF TypeOK
  <2>3. 2 \in Nat /\ 2 > 1
    OBVIOUS
  <2>4. QED
    BY <2>2, <2>3
<1>4. x \in Frames /\ y \in Frames /\ Signal \in Frames /\ Below \in Seq(Frames)
  <2>1. "extension" \in Phases /\ 2 \in Nat
    BY <1>1 DEF Phases
  <2>2. Below \in Seq(Frames)
    BY <1>1, TopType DEF AtPhase, Pending, TypeOK
  <2>3. \A i \in Nat : ServiceAt(Top.dir, "extension", i, tried) \in Frames
    BY <1>2, <2>1, FramesType
  <2>4. x \in Frames
    BY <2>1, <2>3
  <2>5. y \in Frames /\ Signal \in Frames
    BY <1>1, <1>2, FramesType
  <2>6. QED
    BY <2>2, <2>4, <2>5
<1>. HIDE DEF pass, x
<1>5. Ready(rest) /\ Calls(rest) = {y} \cup Calls(pass)
  <2>1. "extension_info" \notin SignalsBeforeClear
    BY JobsAre
  <2>2. QED
    BY <1>1, <1>2, <1>3, <2>1, PushEnd
<1>6. Ready(<< y >> \o (<< x >> \o Below))
  BY <1>5 DEF rest, pass
<1>. HIDE DEF rest, y
<1>7. Ready(stack') /\ Calls(stack') = {Signal, y, x} \cup Calls(Below)
  <2>1. Easy(Signal) /\ stack' = << Signal, y, x >> \o Below
    BY <1>1, EasyCalls
  <2>2. QED
    BY <1>4, <1>6, <2>1, PushThree
<1>8. Shape(stack') /\ Calls(stack') = {Signal, y, x} \cup Calls(Below)
  BY <1>7 DEF Ready
<1>9. QED
  BY <1>1, <1>2, <1>8 DEF tried, x, y

\* A pass over d is among the calls.
Passing(s, d) == \E c \in Calls(s) : c.op = "service" /\ c.dir = d

\* A directory that is in its service loop, or is to have another round of it, has
\* its pass on the stack.
LoopInv == \A d \in inLoop \cup stateChanged : Passing(stack, d)

BaseInv == Homed /\ Shape(stack) /\ LoopInv

\* What d loses its place in the loop by is the end of its own pass.
LoopKept ==
  \A d \in inLoop' \cup stateChanged' :
    \/ d \in inLoop \cup stateChanged /\ (Rest \/ Top.op # "service" \/ Top.dir # d)
    \/ Passing(stack', d)

\* An event starts from an empty stack.
LEMMA EventsStack ==
  ASSUME TypeOK, MainLoop
  PROVE  Ready(stack') /\ UNCHANGED loopVars
<1>1. CASE Request
  <2>1. Ready(<< >>) /\ ClientCall(<< >>)
    BY <1>1, ReadyAtRest DEF Request
  <2>2. QED
    BY <2>1, ClientCallStack
<1>2. ASSUME NEW d \in Directories, NEW k \in Kinds, Answer(d, k)
      PROVE  Ready(stack') /\ UNCHANGED loopVars
  <2>1. \/ stack' = << Signal, EndJob(d, k), Changed(d) >>
        \/ stack' = << Signal, Signal, EndJob(d, k), Changed(d) >>
        \/ stack' = << Changed(d), Signal >>
    BY <1>2, Zenon DEF Answer
  <2>2. UNCHANGED loopVars
    BY <1>2 DEF Answer
  <2>3. QED
    BY <2>1, <2>2, EventsReady
<1>3. ASSUME NEW d \in Directories, NEW k \in Kinds, AnswerCancelled(d, k)
      PROVE  Ready(stack') /\ UNCHANGED loopVars
  BY <1>3, EventsReady DEF AnswerCancelled
<1>4. ASSUME NEW d \in Directories, DeepCountProgress(d) \/ LoadDone(d) \/ CallReadyCallbacks(d)
      PROVE  Ready(stack') /\ UNCHANGED loopVars
  BY <1>4, EventsReady DEF DeepCountProgress, LoadDone, CallReadyCallbacks
<1>5. QED
  BY <1>1, <1>2, <1>3, <1>4 DEF MainLoop

\* A pass that goes on keeps its directory in the loop.
LEMMA PassKeeps ==
  ASSUME TypeOK, NEW c, c.op = "service" /\ c.dir = Top.dir,
         Calls(stack') = {c} \cup Calls(Below),
         inLoop' \subseteq inLoop \cup {Top.dir}, stateChanged' \subseteq stateChanged \cup {Top.dir}
  PROVE  Calls(Below) \subseteq Calls(stack') /\ LoopKept
BY DEF LoopKept, Passing

\* Every step keeps the shape of the stack, what is below the top of it, and the
\* loops of the directories.
LEMMA StackNext ==
  ASSUME TypeOK, Homed, Shape(stack), Step
  PROVE  Shape(stack') /\ Calls(Below) \subseteq Calls(stack') /\ LoopKept
<1>0. stack \in Seq(Frames)
  BY DEF TypeOK
<1>. DEFINE Good == Shape(stack') /\ Calls(Below) \subseteq Calls(stack') /\ LoopKept
<1>1. ASSUME Ready(stack'), Calls(Below) \subseteq Calls(stack'), UNCHANGED loopVars,
             Top.op # "service"
      PROVE  Good
  BY <1>1 DEF LoopKept, Ready, loopVars
<1>2. ASSUME NEW at, NEW i, NEW io, Shape(stack'),
             Calls(stack') = {ServiceAt(Top.dir, at, i, io)} \cup Calls(Below),
             inLoop' \subseteq inLoop \cup {Top.dir}, stateChanged' \subseteq stateChanged \cup {Top.dir}
      PROVE  Good
  <2>. DEFINE c == ServiceAt(Top.dir, at, i, io)
  <2>1. c.op = "service" /\ c.dir = Top.dir
    BY DEF ServiceAt
  <2>2. Calls(stack') = {c} \cup Calls(Below)
    BY <1>2
  <2>. HIDE DEF c
  <2>3. Calls(Below) \subseteq Calls(stack') /\ LoopKept
    BY <1>2, <2>1, <2>2, PassKeeps
  <2>4. QED
    BY <1>2, <2>3
<1>3. CASE Handle
  <2>1. stack # << >> /\ Top.op = "signal"
    BY <1>3 DEF Handle, Pending
  <2>2. Ready(Below)
    BY <1>0, <2>1, Pops
  <2>3. CASE stack' = Below /\ UNCHANGED loopVars
    BY <1>1, <2>1, <2>2, <2>3
  <2>4. CASE ClientCall(Below)
    BY <1>1, <2>1, <2>2, <2>4, ClientCallStack
  <2>5. QED
    BY <1>3, <2>3, <2>4 DEF Handle
<1>4. CASE \/ CallOne \/ CallNoMore \/ EnqueueFile \/ End \/ MarkOutdated \/ AnnounceLoaded
           \/ UnloadDirectory \/ EndDirectoryLoad \/ ForgetFileList \/ WakeUp \/ WakeOne \/ WakeNoMore
  <2>1. stack # << >> /\ Top.op # "service"
    BY <1>4 DEF CallOne, CallNoMore, EnqueueFile, End, MarkOutdated, AnnounceLoaded, UnloadDirectory,
                EndDirectoryLoad, ForgetFileList, WakeUp, WakeOne, WakeNoMore, Pending
  <2>2. UNCHANGED loopVars
    BY <1>4 DEF CallOne, CallNoMore, EnqueueFile, End, MarkOutdated, AnnounceLoaded, UnloadDirectory,
                EndDirectoryLoad, ForgetFileList, WakeUp, WakeOne, WakeNoMore
  <2>3. Calls(stack) = {Top} \cup Calls(Below)
    BY <1>0, <2>1, Pops
  <2>4. Ready(stack') /\ Calls(Below) \subseteq Calls(stack')
    <3>1. CASE CallOne
      BY <2>3, <3>1, NestedStacks
    <3>2. CASE CallNoMore
      BY <3>2, NestedStacks
    <3>3. CASE EnqueueFile \/ End \/ EndDirectoryLoad \/ ForgetFileList \/ WakeNoMore
      BY <3>3, NestedStacks
    <3>4. CASE MarkOutdated
      BY <3>4, NestedStacks
    <3>5. CASE AnnounceLoaded
      BY <3>5, NestedStacks
    <3>6. CASE UnloadDirectory
      BY <3>6, NestedStacks
    <3>7. CASE WakeUp
      BY <3>7, NestedStacks
    <3>8. CASE WakeOne
      BY <2>3, <3>8, NestedStacks
    <3>9. QED
      BY <1>4, <3>1, <3>2, <3>3, <3>4, <3>5, <3>6, <3>7, <3>8
  <2>5. QED
    BY <1>1, <2>1, <2>2, <2>4
<1>5. CASE Reloading
  <2>1. /\ Top.op = "reload" /\ Top.step \in 1 .. 3 /\ Ready(stack')
        /\ Top.step = 1 \/ Top.step = 2 \/ Top.step = 3 => Calls(Below) \subseteq Calls(stack')
    BY <1>5, ReloadStacks
  <2>2. UNCHANGED loopVars
    BY <1>5 DEF Reloading
  <2>3. QED
    BY <1>1, <2>1, <2>2
<1>6. CASE StateChanged
  <2>1. /\ Top.op = "changed" /\ Shape(stack') /\ stack # << >>
        /\ Top.dir \in inLoop => stack' = Below
        /\ Top.dir \notin inLoop => Calls(stack') = {ServiceAt(Top.dir, "list", 1, NoFile)} \cup Calls(Below)
    BY <1>6, ServiceStacks
  <2>2. CASE Top.dir \in inLoop
    <3>1. inLoop' = inLoop /\ stateChanged' = stateChanged \cup {Top.dir} /\ stack' = Below
      BY <1>6, <2>2 DEF StateChanged
    <3>2. QED
      BY <2>1, <2>2, <3>1 DEF LoopKept
  <2>3. CASE Top.dir \notin inLoop
    <3>1. inLoop' = inLoop \cup {Top.dir} /\ stateChanged' = stateChanged \ {Top.dir}
      BY <1>6, <2>3 DEF StateChanged
    <3>2. QED
      BY <1>2, <2>1, <2>3, <3>1
  <2>4. QED
    BY <2>2, <2>3
<1>7. CASE StartFileList \/ StopsDone
  <2>1. UNCHANGED loopVars
    BY <1>7 DEF StartFileList, StopsDone
  <2>2. QED
    BY <1>2, <1>7, <2>1, ServiceStacks DEF loopVars
<1>8. CASE StopFileList
  <2>1. UNCHANGED loopVars
    BY <1>8 DEF StopFileList
  <2>2. /\ Shape(stack') /\ Calls(Below) \subseteq Calls(stack')
        /\ ServiceAt(Top.dir, "stop", 1, NoFile) \in Calls(stack')
    BY <1>8, ServiceStacks
  <2>3. Passing(stack', Top.dir)
    BY <2>2 DEF Passing, ServiceAt
  <2>4. QED
    BY <2>1, <2>2, <2>3 DEF LoopKept, loopVars
<1>9. CASE StopUnwanted
  <2>1. UNCHANGED loopVars /\ AtPhase("stop")
    BY <1>9 DEF StopUnwanted
  <2>2. PICK j \in NextJob(StopOrder, Top.i) : GoTo("stop", j + 1, NoFile)
    BY <1>9, Zenon DEF StopUnwanted
  <2>3. Shape(stack') /\ Calls(stack') = {ServiceAt(Top.dir, "stop", j + 1, NoFile)} \cup Calls(Below)
    BY <2>1, <2>2, ServiceStacks
  <2>4. QED
    BY <1>2, <2>1, <2>3 DEF loopVars
<1>10. ASSUME NEW level \in Levels, StartJob(level)
       PROVE  Good
  <2>1. UNCHANGED loopVars
    BY <1>10 DEF StartJob
  <2>2. Shape(stack') /\ \E i, io : Calls(stack') = {ServiceAt(Top.dir, level, i, io)} \cup Calls(Below)
    BY <1>10, LevelStacks
  <2>3. QED
    BY <1>2, <2>1, <2>2 DEF loopVars
<1>11. ASSUME NEW level \in Levels, Skip(level)
       PROVE  Good
  <2>1. inLoop' = inLoop /\ stateChanged' = stateChanged \cup {Top.dir}
    BY <1>11 DEF Skip
  <2>2. PICK j \in NextJob(StartOrder[level], Top.i) :
          LET x == ServiceAt(Top.dir, level, j + 1, FileTried(level))
          IN  Calls(stack') = {x} \cup Calls(Below) \/ Calls(stack') = {Signal, x} \cup Calls(Below)
    BY <1>11, LevelStacks
  <2>3. ServiceAt(Top.dir, level, j + 1, FileTried(level)) \in Calls(stack') /\ Calls(Below) \subseteq Calls(stack')
    BY <2>2
  <2>4. Passing(stack', Top.dir)
    BY <2>3 DEF Passing, ServiceAt
  <2>5. Shape(stack')
    BY <1>11, LevelStacks
  <2>6. QED
    BY <2>1, <2>3, <2>4, <2>5 DEF LoopKept
<1>12. ASSUME NEW level \in Levels, FinishHead(level) \/ NextLevel(level)
       PROVE  Good
  <2>1. UNCHANGED loopVars
    BY <1>12 DEF FinishHead, NextLevel
  <2>2. Shape(stack') /\ \E at, i, io : Calls(stack') = {ServiceAt(Top.dir, at, i, io)} \cup Calls(Below)
    BY <1>12, LevelStacks
  <2>3. QED
    BY <1>2, <2>1, <2>2 DEF loopVars
<1>13. CASE StartExtensionAtOnce
  <2>1. inLoop' = inLoop /\ stateChanged' = stateChanged \cup {Top.dir}
    BY <1>13 DEF StartExtensionAtOnce
  <2>2. /\ Shape(stack') /\ Calls(Below) \subseteq Calls(stack')
        /\ ServiceAt(Top.dir, "extension", 2, Head(queue[Top.dir].extension)) \in Calls(stack')
    BY <1>13, ExtensionStack
  <2>3. Passing(stack', Top.dir)
    BY <2>2 DEF Passing, ServiceAt
  <2>4. QED
    BY <2>1, <2>2, <2>3 DEF LoopKept
<1>14. CASE CallReady
  <2>1. stateChanged' = stateChanged \ {Top.dir}
    BY <1>14 DEF CallReady
  <2>2. /\ Shape(stack')
        /\ \/ Calls(stack') = {ServiceAt(Top.dir, "list", 1, NoFile)} \cup Calls(Below) /\ inLoop' = inLoop
           \/ Calls(stack') = {Wake} \cup Calls(Below) /\ inLoop' = inLoop \ {Top.dir}
    BY <1>14, ServiceStacks
  <2>3. CASE Calls(stack') = {ServiceAt(Top.dir, "list", 1, NoFile)} \cup Calls(Below) /\ inLoop' = inLoop
    BY <1>2, <2>1, <2>2, <2>3
  <2>4. CASE Calls(stack') = {Wake} \cup Calls(Below) /\ inLoop' = inLoop \ {Top.dir}
    BY <2>1, <2>2, <2>4 DEF LoopKept
  <2>5. QED
    BY <2>2, <2>3, <2>4
<1>15. QED
  BY <1>3, <1>4, <1>5, <1>6, <1>7, <1>8, <1>9, <1>10, <1>11, <1>12, <1>13, <1>14 DEF Step

\* A sequence without its i-th element.
LEMMA WithoutOne ==
  ASSUME NEW q \in Seq(Files), NEW i \in 1 .. Len(q)
  PROVE  LET r == SubSeq(q, 1, i - 1) \o SubSeq(q, i + 1, Len(q))
         IN  /\ DOMAIN r = 1 .. Len(q) - 1
             /\ \A j \in 1 .. i - 1 : r[j] = q[j]
             /\ \A j \in i + 1 .. Len(q) : r[j - 1] = q[j]
<1>. DEFINE n == Len(q)
            u == SubSeq(q, 1, i - 1)
            v == SubSeq(q, i + 1, n)
<1>1. n \in Nat /\ i \in 1 .. n /\ \A j \in 1 .. n : q[j] \in Files
  OBVIOUS
<1>. HIDE DEF n
<1>2. u \in Seq(Files) /\ Len(u) = i - 1 /\ \A j \in 1 .. i - 1 : u[j] = q[j]
  <2>1. /\ u \in Seq(Files)
        /\ Len(u) = IF 1 <= i - 1 THEN (i - 1) - 1 + 1 ELSE 0
        /\ \A j \in 1 .. (i - 1) - 1 + 1 : u[j] = q[1 + j - 1]
    BY <1>1, SubSeqProperties
  <2>2. \A j \in 1 .. i - 1 : 1 + j - 1 = j /\ j \in 1 .. (i - 1) - 1 + 1
    BY <1>1
  <2>. HIDE DEF u
  <2>3. Len(u) = i - 1
    BY <1>1, <2>1
  <2>4. QED
    BY <2>1, <2>2, <2>3
<1>3. v \in Seq(Files) /\ Len(v) = n - i /\ \A j \in 1 .. n - i : v[j] = q[j + i]
  <2>1. /\ v \in Seq(Files)
        /\ Len(v) = IF i + 1 <= n THEN n - (i + 1) + 1 ELSE 0
        /\ \A j \in 1 .. n - (i + 1) + 1 : v[j] = q[(i + 1) + j - 1]
    <3>1. q \in Seq(Files) /\ i + 1 \in 1 .. Len(q) + 1 /\ n \in (i + 1) - 1 .. Len(q)
      BY <1>1 DEF n
    <3>2. QED
      BY <3>1, SubSeqProperties
  <2>2. \A j \in 1 .. n - i : (i + 1) + j - 1 = j + i /\ j \in 1 .. n - (i + 1) + 1
    BY <1>1
  <2>. HIDE DEF v
  <2>3. Len(v) = n - i
    BY <1>1, <2>1
  <2>4. QED
    BY <2>1, <2>2, <2>3
<1>. HIDE DEF u, v
<1>4. /\ u \o v \in Seq(Files) /\ Len(u \o v) = n - 1
      /\ \A j \in 1 .. n - 1 : (u \o v)[j] = IF j <= i - 1 THEN u[j] ELSE v[j - (i - 1)]
  <2>1. /\ u \o v \in Seq(Files) /\ Len(u \o v) = Len(u) + Len(v)
        /\ \A j \in 1 .. Len(u) + Len(v) : (u \o v)[j] = IF j <= Len(u) THEN u[j] ELSE v[j - Len(u)]
    BY <1>2, <1>3, ConcatProperties
  <2>2. Len(u) + Len(v) = n - 1
    BY <1>1, <1>2, <1>3
  <2>3. QED
    BY <1>2, <2>1, <2>2
<1>. DEFINE w == u \o v
<1>. HIDE DEF w
<1>5. /\ w \in Seq(Files) /\ Len(w) = n - 1
      /\ \A j \in 1 .. n - 1 : w[j] = IF j <= i - 1 THEN u[j] ELSE v[j - (i - 1)]
  BY <1>4 DEF w
<1>6. DOMAIN w = 1 .. n - 1
  BY <1>5
<1>7. \A j \in 1 .. i - 1 : w[j] = q[j]
  <2>1. \A j \in 1 .. i - 1 : j \in 1 .. n - 1 /\ j <= i - 1
    BY <1>1
  <2>2. QED
    BY <1>2, <1>5, <2>1
<1>8. ASSUME NEW j \in i + 1 .. n PROVE w[j - 1] = q[j]
  <2>1. j - 1 \in 1 .. n - 1 /\ ~(j - 1 <= i - 1) /\ (j - 1) - (i - 1) = j - i
        /\ j - i \in 1 .. n - i /\ (j - i) + i = j
    BY <1>1
  <2>2. w[j - 1] = v[(j - 1) - (i - 1)]
    BY <1>5, <2>1
  <2>3. v[j - i] = q[(j - i) + i]
    BY <1>3, <2>1
  <2>4. QED
    BY <2>1, <2>2, <2>3
<1>9. QED
  BY <1>6, <1>7, <1>8 DEF w, u, v, n

\* What is on a work queue after its operations.
LEMMA QueueMembers ==
  ASSUME NEW q \in Seq(Files), NEW f \in Files
  PROVE  /\ \A g \in Files : InQueue(Enqueue(q, f), g) <=> g = f \/ InQueue(q, g)
         /\ \A g \in Files : InQueue(Dequeue(q, f), g) => InQueue(q, g)
         /\ \A g \in Files : g # f /\ InQueue(q, g) => InQueue(Dequeue(q, f), g)
<1>1. ASSUME NEW g \in Files PROVE InQueue(Enqueue(q, f), g) <=> g = f \/ InQueue(q, g)
  <2>1. CASE InQueue(q, f)
    BY <2>1 DEF Enqueue, InQueue
  <2>2. CASE ~InQueue(q, f)
    <3>1. Enqueue(q, f) = Append(q, f)
      BY <2>2 DEF Enqueue
    <3>2. /\ DOMAIN Append(q, f) = 1 .. Len(q) + 1 /\ DOMAIN q = 1 .. Len(q)
          /\ \A i \in 1 .. Len(q) : Append(q, f)[i] = q[i]
          /\ Append(q, f)[Len(q) + 1] = f /\ Len(q) \in Nat
      OBVIOUS
    <3>3. QED
      BY <3>1, <3>2 DEF InQueue
  <2>3. QED
    BY <2>1, <2>2
<1>2. CASE ~InQueue(q, f)
  BY <1>1, <1>2 DEF Dequeue
<1>3. CASE InQueue(q, f)
  <2>. DEFINE i == CHOOSE j \in DOMAIN q : q[j] = f
              r == SubSeq(q, 1, i - 1) \o SubSeq(q, i + 1, Len(q))
              n == Len(q)
  <2>1. i \in 1 .. n /\ q[i] = f /\ n \in Nat /\ DOMAIN q = 1 .. n
    BY <1>3 DEF InQueue
  <2>2. Dequeue(q, f) = r
    BY <1>3 DEF Dequeue
  <2>. HIDE DEF i
  <2>3. /\ DOMAIN r = 1 .. n - 1
        /\ \A j \in 1 .. i - 1 : r[j] = q[j]
        /\ \A j \in i + 1 .. n : r[j - 1] = q[j]
    BY <2>1, WithoutOne
  <2>. HIDE DEF r, n
  <2>4. ASSUME NEW j \in 1 .. n - 1 PROVE \E m \in 1 .. n : r[j] = q[m]
    <3>1. CASE j < i
      <4>1. j \in 1 .. i - 1 /\ j \in 1 .. n
        BY <2>1, <3>1
      <4>2. QED
        BY <2>3, <4>1
    <3>2. CASE ~(j < i)
      <4>1. j + 1 \in i + 1 .. n /\ (j + 1) - 1 = j /\ j + 1 \in 1 .. n
        BY <2>1, <3>2
      <4>2. r[(j + 1) - 1] = q[j + 1]
        BY <2>3, <4>1
      <4>3. QED
        BY <4>1, <4>2
    <3>3. QED
      BY <3>1, <3>2
  <2>5. ASSUME NEW g \in Files, InQueue(r, g) PROVE InQueue(q, g)
    BY <2>1, <2>3, <2>4, <2>5 DEF InQueue
  <2>6. ASSUME NEW g \in Files, g # f, InQueue(q, g) PROVE InQueue(r, g)
    <3>1. PICK j \in 1 .. n : q[j] = g
      BY <2>1, <2>6 DEF InQueue
    <3>2. CASE j < i
      <4>1. j \in 1 .. i - 1 /\ j \in 1 .. n - 1
        BY <2>1, <3>2
      <4>2. QED
        BY <2>3, <3>1, <4>1 DEF InQueue
    <3>3. CASE j > i
      <4>1. j \in i + 1 .. n /\ j - 1 \in 1 .. n - 1
        BY <2>1, <3>1, <3>3
      <4>2. r[j - 1] = q[j]
        BY <2>3, <4>1
      <4>3. QED
        BY <2>3, <3>1, <4>1, <4>2 DEF InQueue
    <3>4. j < i \/ j > i
      BY <2>1, <2>6, <3>1
    <3>5. QED
      BY <3>2, <3>3, <3>4
  <2>7. QED
    BY <1>1, <2>2, <2>5, <2>6
<1>4. QED
  BY <1>2, <1>3

QueuesHomed ==
  \A d \in Directories, level \in Levels, f \in Files : InQueue(queue[d][level], f) => Home[f] = d
JobsHomed ==
  \A d \in Directories, k \in Kinds : Running(d, k) => Home[current[<< d, k >>]] = d

LEMMA HomedParts ==
  ASSUME queue \in [Directories -> [Levels -> Seq(Files)]]
  PROVE  Homed <=> JobsHomed /\ QueuesHomed
<1>1. ASSUME NEW d \in Directories, NEW level \in Levels
      PROVE  /\ queue[d][level] \in Seq(Files)
             /\ \A i \in DOMAIN queue[d][level] : queue[d][level][i] \in Files
  <2>1. queue[d][level] \in Seq(Files)
    OBVIOUS
  <2>2. QED
    BY <2>1
<1>2. QED
  BY <1>1 DEF Homed, JobsHomed, QueuesHomed, InQueue

\* Jobs that are cancelled or cleared are not started.
LEMMA FewerHomed ==
  ASSUME TypeOK, JobsHomed,
         \A job \in Directories \X Kinds : current'[job] \in {current[job], NoFile}
  PROVE  JobsHomed'
BY DEF JobsHomed, Running

LEMMA CancelFewer ==
  ASSUME NEW cancels, NEW invalid, CancelJobs(cancels, invalid)
  PROVE  \A job \in Directories \X Kinds : current'[job] \in {current[job], NoFile}
BY DEF CancelJobs

LEMMA ClearFewer ==
  ASSUME TypeOK, NEW d \in Directories, NEW k \in Kinds,
         current' = [current EXCEPT ![<< d, k >>] = NoFile]
  PROVE  \A job \in Directories \X Kinds : current'[job] \in {current[job], NoFile}
BY DEF TypeOK

\* A file put on or taken off its queues.
LEMMA WorkQueueHomed ==
  ASSUME TypeOK, QueuesHomed, NEW f \in Files, AddToWorkQueue(f) \/ RemoveFromWorkQueue(f)
  PROVE  QueuesHomed'
<1>1. /\ Home[f] \in Directories /\ queue \in [Directories -> [Levels -> Seq(Files)]]
      /\ \A d \in Directories, level \in Levels : queue[d][level] \in Seq(Files)
  BY DirectoryAsyncAssumption DEF TypeOK
<1>2. SUFFICES ASSUME NEW d \in Directories, NEW level \in Levels, NEW g \in Files,
                      InQueue(queue'[d][level], g)
               PROVE  Home[g] = d
  BY DEF QueuesHomed
<1>3. InQueue(queue[d][level], g) => Home[g] = d
  BY DEF QueuesHomed
<1>4. CASE AddToWorkQueue(f)
  <2>1. queue'[d][level] = IF d = Home[f] /\ level = "high" THEN Enqueue(queue[d][level], f) ELSE queue[d][level]
    BY <1>1, <1>4, LevelsAre DEF AddToWorkQueue
  <2>2. InQueue(Enqueue(queue[d][level], f), g) <=> g = f \/ InQueue(queue[d][level], g)
    BY <1>1, QueueMembers
  <2>3. QED
    BY <1>2, <1>3, <2>1, <2>2
<1>5. CASE RemoveFromWorkQueue(f)
  <2>1. queue'[d][level] = IF d = Home[f] THEN Dequeue(queue[d][level], f) ELSE queue[d][level]
    BY <1>1, <1>5 DEF RemoveFromWorkQueue
  <2>2. InQueue(Dequeue(queue[d][level], f), g) => InQueue(queue[d][level], g)
    BY <1>1, QueueMembers
  <2>3. QED
    BY <1>2, <1>3, <2>1, <2>2
<1>6. QED
  BY <1>4, <1>5

\* Every client call and every event keeps jobs and queues for their files.
LEMMA ClientCallHomed ==
  ASSUME TypeOK, JobsHomed, QueuesHomed, NEW rest, ClientCall(rest)
  PROVE  JobsHomed' /\ QueuesHomed'
<1>0. \A r \in Requests : r[1] \in Files
  BY DirectoryAsyncAssumption
<1>1. ASSUME UNCHANGED jobVars PROVE JobsHomed'
  BY <1>1 DEF jobVars, JobsHomed, Running
<1>2. ASSUME UNCHANGED queue PROVE QueuesHomed'
  BY <1>2 DEF QueuesHomed
<1>3. ASSUME NEW r \in Requests, MonitorAdd(r[1], r[2], rest) \/ CallWhenReady(r[1], r[2], rest)
      PROVE  JobsHomed' /\ QueuesHomed'
  <2>1. UNCHANGED jobVars /\ AddToWorkQueue(r[1])
    BY <1>3 DEF MonitorAdd, CallWhenReady
  <2>2. QED
    BY <1>0, <1>1, <2>1, WorkQueueHomed
<1>4. ASSUME NEW r \in Requests, MonitorRemove(r[1], r[2], rest) \/ CancelCallback(r[1], r[2], rest)
      PROVE  JobsHomed' /\ QueuesHomed'
  BY <1>1, <1>2, <1>4 DEF MonitorRemove, CancelCallback
<1>5. ASSUME NEW r \in Requests, InvalidateAttributes(r[1], {r[2]}, rest)
      PROVE  JobsHomed' /\ QueuesHomed'
  <2>1. (\E cancels, invalid : CancelJobs(cancels, invalid)) /\ RemoveFromWorkQueue(r[1])
    BY <1>5 DEF InvalidateAttributes
  <2>2. JobsHomed'
    BY <2>1, CancelFewer, FewerHomed
  <2>3. QED
    BY <1>0, <2>1, <2>2, WorkQueueHomed
<1>6. ASSUME NEW d \in Listed, ListMonitorAdd(d, rest) \/ ListMonitorRemove(d, rest)
      PROVE  JobsHomed' /\ QueuesHomed'
  BY <1>1, <1>2, <1>6 DEF ListMonitorAdd, ListMonitorRemove
<1>7. ASSUME NEW d \in Listed, ForceReload(d, rest)
      PROVE  JobsHomed' /\ QueuesHomed'
  <2>1. (\E cancels, invalid : CancelJobs(cancels, invalid)) /\ UNCHANGED queue
    BY <1>7 DEF ForceReload
  <2>2. QED
    BY <1>2, <2>1, CancelFewer, FewerHomed
<1>8. ASSUME NEW r \in Requests, NotifyFilesChanged(r[1], rest)
      PROVE  JobsHomed' /\ QueuesHomed'
  <2>1. UNCHANGED current /\ AddToWorkQueue(r[1])
    BY <1>8 DEF NotifyFilesChanged
  <2>2. QED
    BY <1>0, <2>1, WorkQueueHomed DEF JobsHomed, Running
<1>9. QED
  BY <1>3, <1>4, <1>5, <1>6, <1>7, <1>8 DEF ClientCall

LEMMA EventsHomed ==
  ASSUME TypeOK, JobsHomed, QueuesHomed, MainLoop
  PROVE  JobsHomed' /\ QueuesHomed'
<1>1. CASE Request
  BY <1>1, ClientCallHomed DEF Request
<1>2. ASSUME NEW d \in Directories, NEW k \in Kinds, Answer(d, k)
      PROVE  JobsHomed' /\ QueuesHomed'
  <2>1. (current' = [current EXCEPT ![<< d, k >>] = NoFile] \/ current' = current) /\ UNCHANGED queue
    BY <1>2, Zenon DEF Answer
  <2>2. \A job \in Directories \X Kinds : current'[job] \in {current[job], NoFile}
    BY <2>1, ClearFewer
  <2>3. QED
    BY <2>1, <2>2, FewerHomed DEF QueuesHomed
<1>3. ASSUME NEW d \in Directories, NEW k \in Kinds, AnswerCancelled(d, k)
      PROVE  JobsHomed' /\ QueuesHomed'
  BY <1>3, ClearFewer, FewerHomed DEF AnswerCancelled, QueuesHomed
<1>4. ASSUME NEW d \in Directories, DeepCountProgress(d) \/ LoadDone(d) \/ CallReadyCallbacks(d)
      PROVE  JobsHomed' /\ QueuesHomed'
  BY <1>4 DEF DeepCountProgress, LoadDone, CallReadyCallbacks, jobVars, JobsHomed, QueuesHomed, Running
<1>5. QED
  BY <1>1, <1>2, <1>3, <1>4 DEF MainLoop

LEMMA StepsHomed ==
  ASSUME TypeOK, JobsHomed, QueuesHomed, Homed, Shape(stack), Step
  PROVE  JobsHomed' /\ QueuesHomed'
<1>0. stack \in Seq(Frames) /\ \A d \in Directories, level \in Levels : queue[d][level] \in Seq(Files)
  BY DEF TypeOK
<1>1. ASSUME UNCHANGED jobVars PROVE JobsHomed'
  BY <1>1 DEF jobVars, JobsHomed, Running
<1>2. ASSUME UNCHANGED queue PROVE QueuesHomed'
  BY <1>2 DEF QueuesHomed
<1>3. CASE Handle
  BY <1>1, <1>2, <1>3, ClientCallHomed DEF Handle
<1>4. CASE CallOne \/ CallNoMore \/ AnnounceLoaded \/ UnloadDirectory \/ EndDirectoryLoad \/ ForgetFileList
           \/ StateChanged \/ StartFileList \/ StopFileList \/ StopsDone \/ CallReady
           \/ StartExtensionAtOnce \/ WakeUp \/ WakeOne \/ WakeNoMore
  <2>1. UNCHANGED << jobVars, queue >>
    BY <1>4 DEF CallOne, CallNoMore, AnnounceLoaded, UnloadDirectory, EndDirectoryLoad, ForgetFileList,
                StateChanged, StartFileList, StopFileList, StopsDone, CallReady,
                StartExtensionAtOnce, WakeUp, WakeOne, WakeNoMore
  <2>2. QED
    BY <1>1, <1>2, <2>1
<1>5. CASE EnqueueFile \/ MarkOutdated
  <2>1. UNCHANGED jobVars /\ AddToWorkQueue(Top.file)
    BY <1>5 DEF EnqueueFile, MarkOutdated
  <2>2. Top.file \in Files
    BY <1>0, <1>5, TopType DEF EnqueueFile, MarkOutdated, Pending
  <2>3. QED
    BY <1>1, <2>1, <2>2, WorkQueueHomed
<1>6. CASE End
  <2>1. Top.dir \in Directories /\ Top.kind \in Kinds
    BY <1>0, <1>6, TopType DEF End, Pending
  <2>2. UNCHANGED queue /\ (current' = [current EXCEPT ![<< Top.dir, Top.kind >>] = NoFile] \/ current' = current)
    BY <1>6 DEF End
  <2>3. \A job \in Directories \X Kinds : current'[job] \in {current[job], NoFile}
    BY <2>1, <2>2, ClearFewer
  <2>4. QED
    BY <1>2, <2>2, <2>3, FewerHomed
<1>7. CASE Reloading
  <2>1. Top.dir \in Directories /\ Top.step \in 1 .. 3
    BY <1>7, ReloadStacks
  <2>2. CASE Top.step = 2
    <3>1. InvalidateAttributes(Corresponding[Top.dir], LoadFills \cap Kinds, << Reload(Top.dir, 3) >> \o Below)
      BY <1>7, <2>2 DEF Reloading
    <3>2. (\E cancels, invalid : CancelJobs(cancels, invalid)) /\ RemoveFromWorkQueue(Corresponding[Top.dir])
      BY <3>1 DEF InvalidateAttributes
    <3>3. JobsHomed'
      BY <3>2, CancelFewer, FewerHomed
    <3>4. Corresponding[Top.dir] \in Files
      BY <2>1, DirectoryAsyncAssumption
    <3>5. QED
      BY <3>2, <3>3, <3>4, WorkQueueHomed
  <2>3. CASE Top.step # 2
    <3>1. UNCHANGED << jobVars, queue >>
      <4>1. CASE Top.step = 1
        BY <1>7, <4>1 DEF Reloading
      <4>2. CASE Top.step = 3
        BY <1>7, <4>2 DEF Reloading
      <4>3. QED
        BY <2>1, <2>3, <4>1, <4>2
    <3>2. QED
      BY <1>1, <1>2, <3>1
  <2>4. QED
    BY <2>2, <2>3
<1>8. CASE StopUnwanted
  <2>1. UNCHANGED queue /\ \E cancels, invalid : CancelJobs(cancels, invalid)
    BY <1>8 DEF StopUnwanted
  <2>2. QED
    BY <1>2, <2>1, CancelFewer, FewerHomed
<1>9. ASSUME NEW level \in Levels, StartJob(level)
      PROVE  JobsHomed' /\ QueuesHomed'
  <2>1. FileTried(level) \in Files /\ Home[FileTried(level)] = Top.dir /\ Top.dir \in Directories
    BY <1>9, FileTriedHome DEF StartJob
  <2>2. UNCHANGED queue
    BY <1>9 DEF StartJob
  <2>3. UNCHANGED jobVars \/ \E k : current' = [current EXCEPT ![<< Top.dir, k >>] = FileTried(level)]
    BY <1>9, Zenon DEF StartJob
  <2>4. CASE UNCHANGED jobVars
    BY <1>1, <1>2, <2>2, <2>4
  <2>5. ASSUME NEW k, current' = [current EXCEPT ![<< Top.dir, k >>] = FileTried(level)]
        PROVE  JobsHomed'
    <3>1. SUFFICES ASSUME NEW d \in Directories, NEW l \in Kinds, current'[<< d, l >>] # NoFile
                   PROVE  Home[current'[<< d, l >>]] = d
      BY DEF JobsHomed, Running
    <3>2. CASE d = Top.dir /\ l = k
      BY <2>1, <2>5, <3>2 DEF TypeOK
    <3>3. CASE ~(d = Top.dir /\ l = k)
      BY <2>5, <3>1, <3>3 DEF TypeOK, JobsHomed, Running
    <3>4. QED
      BY <3>2, <3>3
  <2>6. QED
    BY <1>2, <2>2, <2>3, <2>4, <2>5
<1>10. ASSUME NEW level \in Levels, Skip(level) \/ NextLevel(level)
       PROVE  JobsHomed' /\ QueuesHomed'
  BY <1>1, <1>2, <1>10 DEF Skip, NextLevel
<1>11. ASSUME NEW level \in Levels, FinishHead(level)
       PROVE  JobsHomed' /\ QueuesHomed'
  <2>1. AtPhase(level) /\ HasFile(level) /\ UNCHANGED jobVars
    BY <1>11 DEF FinishHead
  <2>2. FileTried(level) \in Files /\ Home[FileTried(level)] = Top.dir /\ Top.dir \in Directories
    BY <2>1, FileTriedHome
  <2>3. CASE UNCHANGED queue
    BY <1>1, <1>2, <2>1, <2>3
  <2>4. ASSUME queue' = [queue EXCEPT ![Top.dir] =
                      [l \in Levels |->
                         CASE l = level -> Dequeue(@[l], FileTried(level))
                           [] << level, l >> \in {<< "high", "low" >>, << "low", "extension" >>}
                                -> Enqueue(@[l], FileTried(level))
                           [] OTHER ->
                                IF level = "extension" THEN Dequeue(@[l], FileTried(level)) ELSE @[l]]]
        PROVE  QueuesHomed'
    <3>1. SUFFICES ASSUME NEW d \in Directories, NEW l \in Levels, NEW g \in Files,
                          InQueue(queue'[d][l], g)
                   PROVE  Home[g] = d
      BY DEF QueuesHomed
    <3>2. InQueue(queue[d][l], g) => Home[g] = d
      BY DEF QueuesHomed
    <3>3. CASE d # Top.dir
      BY <2>2, <2>4, <3>1, <3>2, <3>3 DEF TypeOK
    <3>4. CASE d = Top.dir
      <4>1. \/ queue'[d][l] = Dequeue(queue[d][l], FileTried(level))
            \/ queue'[d][l] = Enqueue(queue[d][l], FileTried(level))
            \/ queue'[d][l] = queue[d][l]
        BY <2>2, <2>4, <3>4 DEF TypeOK
      <4>2. /\ InQueue(Enqueue(queue[d][l], FileTried(level)), g) <=> g = FileTried(level) \/ InQueue(queue[d][l], g)
            /\ InQueue(Dequeue(queue[d][l], FileTried(level)), g) => InQueue(queue[d][l], g)
        BY <1>0, <2>2, QueueMembers
      <4>3. QED
        BY <2>2, <3>1, <3>2, <3>4, <4>1, <4>2
    <3>5. QED
      BY <3>3, <3>4
  <2>5. UNCHANGED queue \/ queue' = [queue EXCEPT ![Top.dir] =
                      [l \in Levels |->
                         CASE l = level -> Dequeue(@[l], FileTried(level))
                           [] << level, l >> \in {<< "high", "low" >>, << "low", "extension" >>}
                                -> Enqueue(@[l], FileTried(level))
                           [] OTHER ->
                                IF level = "extension" THEN Dequeue(@[l], FileTried(level)) ELSE @[l]]]
    BY <1>11 DEF FinishHead
  <2>6. QED
    BY <1>1, <2>1, <2>3, <2>4, <2>5
<1>12. QED
  BY <1>3, <1>4, <1>5, <1>6, <1>7, <1>8, <1>9, <1>10, <1>11 DEF Step

\* What is pending is as it should be, whatever clients do.
LEMMA BaseInductive ==
  /\ Init => BaseInv
  /\ TypeOK /\ BaseInv /\ [Next]_vars => BaseInv'
<1>1. ASSUME Init PROVE BaseInv
  <2>1. stack = << >> /\ inLoop = {} /\ stateChanged = {}
    BY <1>1 DEF Init
  <2>2. \A d \in Directories, level \in Levels : queue[d][level] = << >>
    BY <1>1 DEF Init
  <2>3. \A d \in Directories, k \in Kinds : ~Running(d, k)
    BY <1>1 DEF Init, Running
  <2>4. Shape(stack)
    BY <2>1 DEF Shape
  <2>5. QED
    BY <2>1, <2>2, <2>3, <2>4 DEF BaseInv, Homed, LoopInv
<1>2. ASSUME TypeOK, BaseInv, [Next]_vars PROVE BaseInv'
  <2>1. stack \in Seq(Frames) /\ queue \in [Directories -> [Levels -> Seq(Files)]]
    BY <1>2 DEF TypeOK
  <2>2. JobsHomed /\ QueuesHomed
    BY <1>2, <2>1, HomedParts DEF BaseInv
  <2>3. queue' \in [Directories -> [Levels -> Seq(Files)]]
    <3>1. TypeOK'
      <4>1. UNCHANGED vars => TypeOK'
        BY <1>2 DEF vars, slotVars, jobVars, attributeVars, requestVars, listVars, loopVars, TypeOK
      <4>2. QED
        BY <1>2, <4>1, MainLoopType, NestedCallType, ServiceLoopType DEF Next, Step
    <3>2. QED
      BY <3>1 DEF TypeOK
  <2>4. JobsHomed' /\ QueuesHomed' => Homed'
    BY <2>3 DEF Homed, JobsHomed, QueuesHomed, InQueue, Running
  <2>5. CASE MainLoop
    <3>1. Ready(stack') /\ UNCHANGED loopVars /\ JobsHomed' /\ QueuesHomed'
      BY <1>2, <2>2, <2>5, EventsStack, EventsHomed
    <3>2. stack = << >>
      BY <2>5 DEF MainLoop, Request, Answer, AnswerCancelled, DeepCountProgress, LoadDone,
                  CallReadyCallbacks, Rest
    <3>3. inLoop \cup stateChanged = {}
      BY <1>2, <3>2 DEF BaseInv, LoopInv, Passing, Calls
    <3>4. QED
      BY <2>4, <3>1, <3>3 DEF BaseInv, LoopInv, Ready, loopVars
  <2>6. CASE Step
    <3>1. JobsHomed' /\ QueuesHomed' /\ Shape(stack') /\ Calls(Below) \subseteq Calls(stack') /\ LoopKept
      BY <1>2, <2>2, <2>6, StepsHomed, StackNext DEF BaseInv
    <3>2. stack # << >>
      BY <2>6 DEF Step, Handle, CallOne, CallNoMore, EnqueueFile, End, MarkOutdated, AnnounceLoaded,
                  UnloadDirectory, EndDirectoryLoad, ForgetFileList, Reloading,
                  StateChanged, StartFileList, StopFileList, StopUnwanted, StopsDone,
                  StartJob, Skip, FinishHead, NextLevel, StartExtensionAtOnce,
                  CallReady, WakeUp, WakeOne, WakeNoMore, AtPhase, Pending
    <3>3. Calls(stack) = {Top} \cup Calls(Below)
      BY <1>2, <2>1, <3>2, Pops DEF BaseInv
    <3>4. LoopInv'
      <4>1. SUFFICES ASSUME NEW d \in inLoop' \cup stateChanged' PROVE Passing(stack', d)
        BY DEF LoopInv, Passing
      <4>2. \/ d \in inLoop \cup stateChanged /\ (Rest \/ Top.op # "service" \/ Top.dir # d)
            \/ Passing(stack', d)
        BY <3>1 DEF LoopKept
      <4>3. CASE d \in inLoop \cup stateChanged /\ (Top.op # "service" \/ Top.dir # d)
        <5>1. PICK c \in Calls(stack) : c.op = "service" /\ c.dir = d
          BY <1>2, <4>3 DEF BaseInv, LoopInv, Passing
        <5>2. c \in Calls(Below)
          BY <3>3, <4>3, <5>1
        <5>3. QED
          BY <3>1, <5>1, <5>2 DEF Passing
      <4>4. QED
        BY <3>2, <4>2, <4>3 DEF Rest
    <3>5. QED
      BY <2>4, <3>1, <3>4 DEF BaseInv
  <2>7. CASE UNCHANGED vars
    <3>1. UNCHANGED << current, queue, stack, inLoop, stateChanged >>
      BY <2>7 DEF vars, jobVars, loopVars
    <3>2. QED
      BY <1>2, <3>1 DEF BaseInv, Homed, LoopInv, Running, Passing
  <2>8. QED
    BY <1>2, <2>5, <2>6, <2>7 DEF Next
<1>3. QED
  BY <1>1, <1>2

LEMMA SmallestOf ==
  ASSUME NEW T, T \subseteq Nat, T # {}
  PROVE  \E x \in T : \A y \in T : x <= y
<1>. DEFINE R == {ss \in Nat \X Nat : ss[1] < ss[2]}
<1>1. IsWellFoundedOn(R, Nat)
  BY NatLessThanWellFounded, Zenon DEF OpToRel
<1>2. PICK x \in T : \A y \in T : ~ (<< y, x >> \in R)
  <2>. HIDE DEF R
  <2>1. QED
    BY <1>1, WFMin
<1>3. ASSUME NEW y \in T PROVE x <= y
  <2>1. x \in Nat /\ y \in Nat
    OBVIOUS
  <2>2. << y, x >> \in R <=> y < x
    BY <2>1
  <2>3. QED
    BY <1>2, <2>1, <2>2
<1>4. QED
  BY <1>3

\* A used kind that is still ahead in the order is reached: there is a next one.
LEMMA NextExists ==
  ASSUME NEW order, NEW n \in Nat, DOMAIN order = 1 .. n, NEW i \in Nat \ {0},
         NEW p \in i .. n, order[p] \in Kinds
  PROVE  NextJob(order, i) # {}
<1>. DEFINE T == {m \in 1 .. n : m >= i /\ order[m] \in Kinds}
<1>1. T \subseteq Nat /\ p \in T
  OBVIOUS
<1>2. PICK j \in T : \A y \in T : j <= y
  BY <1>1, SmallestOf
<1>3. ASSUME NEW m \in i .. j - 1 PROVE order[m] \notin Kinds
  <2>1. j \in 1 .. n /\ m \in 1 .. n /\ m >= i /\ ~(j <= m)
    BY <1>1, <1>2, <1>3
  <2>2. QED
    BY <1>2, <2>1
<1>4. QED
  BY <1>2, <1>3 DEF NextJob

-----------------------------------------------------------------------------
(* Who stops the jobs that nobody wants.                                   *)

\* A load that has not been told to end.
GoesOn(s, d) == d \in loading /\ EndLoad(d) \notin Calls(s)

\* A load that announces its end still counts, or what it announces will not: its
\* directory is not loaded any more by then.
AnnouncedInv(s) ==
  \A d \in loaded :
    Announce(d) \in Calls(s) =>
      GoesOn(s, d) \/ Unlist(d) \in Calls(s) \/ Reload(d, 2) \in Calls(s)

\* A pending call that brings about a pass over d that comes to jobs of kind k.
Promise(c, d, k) ==
  \/ c.op \in {"changed", "reload"} /\ c.dir = d
  \/ /\ c.op = "service" /\ c.dir = d
     /\ \/ c.at = "list"
        \/ c.at = "stop" /\ c.i \in Nat \ {0}
             /\ \E j \in DOMAIN StopOrder : j >= c.i /\ StopOrder[j] = k

\* The end of a load of e runs the state machine of d, where the file of e lives.
EndTells(s, e, d) ==
  /\ e \in Directories /\ Unload(e) \in Calls(s) /\ GoesOn(s, e)
  /\ Home[Corresponding[e]] = d /\ d # e

\* A pass over d will come to jobs of kind k.
Sure(s, d, k) ==
  \/ d \in stateChanged
  \/ \E c \in Calls(s) : Promise(c, d, k)
  \/ \E e : EndTells(s, e, d)

Wanted(d, k) ==
  Lacks(current[<< d, k >>], k) /\ Asks(active \cup monitors, current[<< d, k >>], k)

Unwanted(d, k) == Running(d, k) /\ << d, k >> \notin cancelled /\ ~Wanted(d, k)

\* An unwanted job is about to be stopped.
JobInv(s) == \A d \in Directories, k \in Kinds : Unwanted(d, k) => Sure(s, d, k)

StopInv == BaseInv /\ AnnouncedInv(stack) /\ JobInv(stack)

\* The calls that only directory_load_done and directory_load_cancel push.
OfLoads(c) == c.op \in {"announce", "endload"}

LEMMA LoadOps ==
  /\ \A d : /\ Changed(d) = [op |-> "changed", dir |-> d] /\ Changed(d).op = "changed" /\ Changed(d).dir = d
            /\ OfLoads(Announce(d)) /\ OfLoads(EndLoad(d))
            /\ ~OfLoads(Changed(d)) /\ ~OfLoads(Calling(d)) /\ ~OfLoads(Unload(d)) /\ ~OfLoads(Unlist(d))
            /\ \A k : ~OfLoads(EndJob(d, k))
            /\ \A step : ~OfLoads(Reload(d, step)) /\ Reload(d, step).op = "reload" /\ Reload(d, step).dir = d
            /\ \A at, i, io : ~OfLoads(ServiceAt(d, at, i, io))
  /\ ~OfLoads(Wake) /\ ~OfLoads(Waking) /\ ~OfLoads(Signal)
  /\ \A f, ks : ~OfLoads(Enqueueing(f)) /\ ~OfLoads(Outdate(f, ks))
BY DEF Changed, Calling, Announce, Unload, Unlist, EndLoad, ServiceAt, Reload, EndJob, Wake, Waking,
       Signal, Enqueueing, Outdate, OfLoads

\* Clients push no call of a load.
LEMMA ClientCallLoads ==
  ASSUME TypeOK, NEW rest, Ready(rest), ClientCall(rest)
  PROVE  \A c \in Calls(stack') : OfLoads(c) => c \in Calls(rest)
<1>0. \A r \in Requests : r[1] \in Files /\ r[2] \in Kinds /\ {r[2]} \in SUBSET Kinds
  BY DirectoryAsyncAssumption
<1>1. ASSUME NEW r \in Requests, 
             \/ MonitorAdd(r[1], r[2], rest) \/ MonitorRemove(r[1], r[2], rest)
             \/ CallWhenReady(r[1], r[2], rest) \/ CancelCallback(r[1], r[2], rest)
      PROVE  \A c \in Calls(stack') : OfLoads(c) => c \in Calls(rest)
  <2>1. Calls(stack') = {Changed(Home[r[1]])} \cup Calls(rest)
    BY <1>1, ClientStacks
  <2>2. QED
    BY <2>1, LoadOps
<1>2. ASSUME NEW r \in Requests, NotifyFilesChanged(r[1], rest)
      PROVE  \A c \in Calls(stack') : OfLoads(c) => c \in Calls(rest)
  <2>1. Calls(stack') = {Changed(Home[r[1]]), Signal} \cup Calls(rest)
    BY <1>2, ClientStacks
  <2>2. QED
    BY <2>1, LoadOps
<1>3. ASSUME NEW r \in Requests, InvalidateAttributes(r[1], {r[2]}, rest)
      PROVE  \A c \in Calls(stack') : OfLoads(c) => c \in Calls(rest)
  <2>1. \E g, ks : Calls(stack') = {Changed(Home[r[1]]), Outdate(g, ks)} \cup Calls(rest)
    BY <1>0, <1>3, ClientStacks
  <2>2. QED
    BY <2>1, LoadOps
<1>4. ASSUME NEW d \in Listed, ListMonitorAdd(d, rest) \/ ListMonitorRemove(d, rest) \/ ForceReload(d, rest)
      PROVE  \A c \in Calls(stack') : OfLoads(c) => c \in Calls(rest)
  <2>1. \/ Calls(stack') = {Enqueueing(Listing[d][i]) : i \in DOMAIN Listing[d]} \cup {Changed(d)} \cup Calls(rest)
        \/ Calls(stack') = {Changed(d)} \cup Calls(rest)
        \/ Calls(stack') = {Changed(d), Reload(d, 1)} \cup Calls(rest)
    BY <1>4, ClientStacks
  <2>2. QED
    BY <2>1, LoadOps
<1>5. QED
  BY <1>1, <1>2, <1>3, <1>4, Zenon DEF ClientCall

\* Nor does any step but the end of a load.
LEMMA StepLoads ==
  ASSUME TypeOK, Homed, Shape(stack), Step
  PROVE  \A c \in Calls(stack') : OfLoads(c) =>
           \/ c \in Calls(Below)
           \/ /\ UnloadDirectory /\ c = EndLoad(Top.dir) /\ Top = Unload(Top.dir)
              /\ Top.dir \in loading /\ Top.dir \in Directories
<1>. DEFINE Quiet == \A c \in Calls(stack') : OfLoads(c) => c \in Calls(Below)
<1>0. stack \in Seq(Frames)
  BY DEF TypeOK
<1>1. CASE Handle
  <2>1. stack # << >> /\ Top.op = "signal"
    BY <1>1 DEF Handle, Pending
  <2>2. Ready(Below)
    BY <1>0, <2>1, Pops
  <2>3. CASE ClientCall(Below)
    BY <2>2, <2>3, ClientCallLoads
  <2>4. QED
    BY <1>1, <2>3 DEF Handle
<1>2. CASE CallOne
  <2>1. Pending("calling") /\ Calls(stack) = {Top} \cup Calls(Below)
    BY <1>0, <1>2, Pops DEF CallOne, Pending
  <2>2. ~OfLoads(Top)
    BY <2>1 DEF Pending, OfLoads
  <2>3. Calls(stack') = {Signal} \cup Calls(stack)
    BY <1>2, NestedStacks
  <2>4. QED
    BY <2>1, <2>2, <2>3, LoadOps
<1>3. CASE CallNoMore \/ MarkOutdated \/ AnnounceLoaded \/ WakeUp
  <2>1. CASE CallNoMore
    BY <2>1, NestedStacks, LoadOps
  <2>2. CASE MarkOutdated
    BY <2>2, NestedStacks, LoadOps
  <2>3. CASE AnnounceLoaded
    BY <2>3, NestedStacks, LoadOps
  <2>4. CASE WakeUp
    BY <2>4, NestedStacks, LoadOps
  <2>5. QED
    BY <1>3, <2>1, <2>2, <2>3, <2>4
<1>4. CASE EnqueueFile \/ End \/ EndDirectoryLoad \/ ForgetFileList \/ WakeNoMore
  BY <1>4, NestedStacks
<1>5. CASE UnloadDirectory
  <2>1. stack # << >> /\ Top.op = "unload"
    BY <1>5 DEF UnloadDirectory, Pending
  <2>2. Top.dir \in Directories /\ Top = Unload(Top.dir)
    <3>1. Top \in Frames
      BY <1>0, <2>1 DEF Top
    <3>2. QED
      BY <2>1, <3>1 DEF Frames, Unload
  <2>3. /\ Top.dir \notin loading => stack' = Below
        /\ Top.dir \in loading =>
             Calls(stack') = {EndLoad(Top.dir)} \cup Calls(Below)
               \cup (IF Home[Corresponding[Top.dir]] # Top.dir
                     THEN {Changed(Home[Corresponding[Top.dir]])} ELSE {})
    BY <1>5, NestedStacks
  <2>4. QED
    BY <1>5, <2>2, <2>3, LoadOps
<1>6. CASE WakeOne
  <2>1. Pending("waking") /\ Calls(stack) = {Top} \cup Calls(Below)
    BY <1>0, <1>6, Pops DEF WakeOne, Pending
  <2>2. ~OfLoads(Top)
    BY <2>1 DEF Pending, OfLoads
  <2>3. \E d : Calls(stack') = {Changed(d)} \cup Calls(stack)
    BY <1>6, NestedStacks
  <2>4. QED
    BY <2>1, <2>2, <2>3, LoadOps
<1>7. CASE Reloading
  <2>1. Top.step \in 1 .. 3
    BY <1>7, ReloadStacks
  <2>2. CASE Top.step = 1
    BY <1>7, <2>2, ReloadStacks, LoadOps
  <2>3. CASE Top.step = 2
    BY <1>7, <2>3, ReloadStacks, LoadOps
  <2>4. CASE Top.step = 3
    BY <1>7, <2>4, ReloadStacks, LoadOps
  <2>5. QED
    BY <2>1, <2>2, <2>3, <2>4
<1>8. CASE StateChanged \/ StartFileList \/ StopFileList \/ StopsDone \/ CallReady
  <2>1. CASE StateChanged
    BY <2>1, ServiceStacks, LoadOps
  <2>2. CASE StartFileList
    BY <2>2, ServiceStacks, LoadOps
  <2>3. CASE StopFileList
    BY <2>3, ServiceStacks, LoadOps
  <2>4. CASE StopsDone
    BY <2>4, ServiceStacks, LoadOps
  <2>5. CASE CallReady
    BY <2>5, ServiceStacks, LoadOps
  <2>6. QED
    BY <1>8, <2>1, <2>2, <2>3, <2>4, <2>5
<1>9. CASE StopUnwanted
  <2>1. AtPhase("stop") /\ \E j \in NextJob(StopOrder, Top.i) : GoTo("stop", j + 1, NoFile)
    BY <1>9, Zenon DEF StopUnwanted
  <2>2. \E i : Calls(stack') = {ServiceAt(Top.dir, "stop", i, NoFile)} \cup Calls(Below)
    BY <2>1, ServiceStacks
  <2>3. QED
    BY <2>2, LoadOps
<1>10. ASSUME NEW level \in Levels, StartJob(level) PROVE Quiet
  <2>1. \E i, io : Calls(stack') = {ServiceAt(Top.dir, level, i, io)} \cup Calls(Below)
    BY <1>10, LevelStacks
  <2>2. QED
    BY <2>1, LoadOps
<1>11. ASSUME NEW level \in Levels, Skip(level) PROVE Quiet
  <2>1. \E i, io : LET x == ServiceAt(Top.dir, level, i, io)
                   IN  Calls(stack') = {x} \cup Calls(Below) \/ Calls(stack') = {Signal, x} \cup Calls(Below)
    BY <1>11, LevelStacks
  <2>2. QED
    BY <2>1, LoadOps
<1>12. ASSUME NEW level \in Levels, FinishHead(level) \/ NextLevel(level) PROVE Quiet
  <2>1. \E at, i, io : Calls(stack') = {ServiceAt(Top.dir, at, i, io)} \cup Calls(Below)
    BY <1>12, LevelStacks
  <2>2. QED
    BY <2>1, LoadOps
<1>13. CASE StartExtensionAtOnce
  <2>1. \E i, io : Calls(stack') = {Signal, EndJob(Top.dir, "extension_info"), ServiceAt(Top.dir, "extension", i, io)}
                                     \cup Calls(Below)
    BY <1>13, ExtensionStack
  <2>2. QED
    BY <2>1, LoadOps
<1>14. QED
  BY <1>1, <1>2, <1>3, <1>4, <1>5, <1>6, <1>7, <1>8, <1>9, <1>10, <1>11, <1>12, <1>13 DEF Step

\* The top of the stack decides which step is next.
LEMMA TopDecides ==
  ASSUME Step
  PROVE  /\ stack # << >>
         /\ Top.op = "changed" => StateChanged
         /\ Top.op = "reload" => Reloading
         /\ Top.op = "unload" => UnloadDirectory
         /\ Top.op = "unlist" => ForgetFileList
         /\ Top.op = "endload" => EndDirectoryLoad
         /\ Top.op = "enqueue" => EnqueueFile
         /\ Top.op = "outdate" => MarkOutdated
         /\ Top.op = "service" /\ Top.at = "list" => StartFileList \/ StopFileList
         /\ Top.op = "service" /\ Top.at = "stop" => StopUnwanted \/ StopsDone
         /\ Top.op = "service" /\ Top.at \in Levels =>
              \/ StartExtensionAtOnce
              \/ \E level \in Levels : StartJob(level) \/ Skip(level) \/ FinishHead(level) \/ NextLevel(level)
<1>1. /\ Handle => stack # << >> /\ Top.op = "signal"
      /\ CallOne \/ CallNoMore => stack # << >> /\ Top.op = "calling"
      /\ EnqueueFile => stack # << >> /\ Top.op = "enqueue"
      /\ End => stack # << >> /\ Top.op = "end"
      /\ MarkOutdated => stack # << >> /\ Top.op = "outdate"
      /\ AnnounceLoaded => stack # << >> /\ Top.op = "announce"
      /\ UnloadDirectory => stack # << >> /\ Top.op = "unload"
      /\ EndDirectoryLoad => stack # << >> /\ Top.op = "endload"
      /\ ForgetFileList => stack # << >> /\ Top.op = "unlist"
      /\ Reloading => stack # << >> /\ Top.op = "reload"
      /\ StateChanged => stack # << >> /\ Top.op = "changed"
      /\ WakeUp => stack # << >> /\ Top.op = "wake"
      /\ WakeOne \/ WakeNoMore => stack # << >> /\ Top.op = "waking"
  BY DEF Handle, CallOne, CallNoMore, EnqueueFile, End, MarkOutdated, AnnounceLoaded, UnloadDirectory,
         EndDirectoryLoad, ForgetFileList, Reloading, StateChanged, WakeUp, WakeOne, WakeNoMore, Pending
<1>2. /\ StartFileList \/ StopFileList => stack # << >> /\ Top.op = "service" /\ Top.at = "list"
      /\ StopUnwanted \/ StopsDone => stack # << >> /\ Top.op = "service" /\ Top.at = "stop"
      /\ CallReady => stack # << >> /\ Top.op = "service" /\ Top.at = "ready"
      /\ StartExtensionAtOnce => stack # << >> /\ Top.op = "service" /\ Top.at = "extension"
      /\ \A level \in Levels :
           StartJob(level) \/ Skip(level) \/ FinishHead(level) \/ NextLevel(level) =>
             stack # << >> /\ Top.op = "service" /\ Top.at = level
  BY DEF StartFileList, StopFileList, StopUnwanted, StopsDone, CallReady, StartExtensionAtOnce,
         StartJob, Skip, FinishHead, NextLevel, AtPhase, Pending
<1>3. "list" \notin Levels /\ "stop" \notin Levels /\ "ready" \notin Levels
  BY LevelsAre
<1>4. QED
  BY <1>1, <1>2, <1>3 DEF Step

\* What the steps do to loads.
LEMMA LoadSteps ==
  ASSUME Step
  PROVE  /\ loaded' \subseteq loaded
         /\ EndDirectoryLoad => loading' = loading \ {Top.dir}
         /\ ~EndDirectoryLoad => loading \subseteq loading'
         /\ ForgetFileList => loaded' = loaded \ {Top.dir}
         /\ Reloading /\ Top.step = 2 => loaded' = loaded \ {Top.dir}
<1>1. CASE Handle
  <2>1. UNCHANGED listVars
    BY <1>1 DEF Handle, ClientCall, MonitorAdd, MonitorRemove, CallWhenReady, CancelCallback,
                ListMonitorAdd, ListMonitorRemove, InvalidateAttributes, ForceReload, NotifyFilesChanged
  <2>2. ~EndDirectoryLoad /\ ~ForgetFileList /\ ~Reloading
    BY <1>1 DEF Handle, EndDirectoryLoad, ForgetFileList, Reloading, Pending
  <2>3. QED
    BY <2>1, <2>2 DEF listVars
<1>2. CASE \/ CallOne \/ CallNoMore \/ EnqueueFile \/ End \/ MarkOutdated \/ AnnounceLoaded
           \/ UnloadDirectory \/ StateChanged \/ StopFileList \/ StopUnwanted \/ StopsDone
           \/ StartExtensionAtOnce \/ CallReady \/ WakeUp \/ WakeOne \/ WakeNoMore
  <2>1. UNCHANGED << loaded, loading >>
    BY <1>2 DEF CallOne, CallNoMore, EnqueueFile, End, MarkOutdated, AnnounceLoaded,
                UnloadDirectory, StateChanged, StopFileList, StopUnwanted, StopsDone,
                StartExtensionAtOnce, CallReady, WakeUp, WakeOne, WakeNoMore, listVars
  <2>2. ~EndDirectoryLoad /\ ~ForgetFileList /\ ~Reloading
    BY <1>2 DEF CallOne, CallNoMore, EnqueueFile, End, MarkOutdated, AnnounceLoaded,
                UnloadDirectory, StateChanged, StopFileList, StopUnwanted, StopsDone,
                StartExtensionAtOnce, CallReady, WakeUp, WakeOne, WakeNoMore,
                EndDirectoryLoad, ForgetFileList, Reloading, Pending, AtPhase
  <2>3. QED
    BY <2>1, <2>2
<1>3. ASSUME NEW level \in Levels, StartJob(level) \/ Skip(level) \/ FinishHead(level) \/ NextLevel(level)
      PROVE  UNCHANGED << loaded, loading >> /\ ~EndDirectoryLoad /\ ~ForgetFileList /\ ~Reloading
  BY <1>3 DEF StartJob, Skip, FinishHead, NextLevel, listVars, EndDirectoryLoad, ForgetFileList, Reloading,
              Pending, AtPhase
<1>4. CASE StartFileList
  BY <1>4 DEF StartFileList, EndDirectoryLoad, ForgetFileList, Reloading, Pending, AtPhase
<1>5. CASE EndDirectoryLoad \/ ForgetFileList
  BY <1>5 DEF EndDirectoryLoad, ForgetFileList, Reloading, Pending
<1>6. CASE Reloading
  BY <1>6 DEF EndDirectoryLoad, ForgetFileList, Reloading, Pending
<1>7. QED
  BY <1>1, <1>2, <1>3, <1>4, <1>5, <1>6 DEF Step

\* A load goes on until directory_load_cancel is called for it.
LEMMA LoadsGoOn ==
  ASSUME TypeOK, Homed, Shape(stack), Step, NEW e, GoesOn(stack, e), Top # Unload(e)
  PROVE  e \in loading' /\ EndLoad(e) \notin Calls(stack')
<1>1. stack \in Seq(Frames) /\ stack # << >>
  BY TopDecides DEF TypeOK
<1>2. Calls(stack) = {Top} \cup Calls(Below)
  BY <1>1, Pops
<1>3. e \in loading'
  <2>1. CASE EndDirectoryLoad
    <3>1. Top \in Frames /\ Top.op = "endload"
      BY <1>1, <2>1 DEF EndDirectoryLoad, Pending, Top
    <3>2. Top = EndLoad(Top.dir)
      BY <3>1 DEF Frames, EndLoad
    <3>3. Top.dir # e
      BY <1>2, <3>2 DEF GoesOn
    <3>4. QED
      BY <2>1, <3>3, LoadSteps DEF GoesOn
  <2>2. CASE ~EndDirectoryLoad
    BY <2>2, LoadSteps DEF GoesOn
  <2>3. QED
    BY <2>1, <2>2
<1>4. ASSUME EndLoad(e) \in Calls(stack') PROVE FALSE
  <2>1. EndLoad(e) \notin Calls(Below)
    BY <1>2 DEF GoesOn
  <2>2. EndLoad(e) = EndLoad(Top.dir) /\ Top = Unload(Top.dir)
    BY <1>4, <2>1, StepLoads, LoadOps
  <2>3. e = Top.dir
    BY <2>2 DEF EndLoad
  <2>4. QED
    BY <2>2, <2>3
<1>5. QED
  BY <1>3, <1>4

LEMMA AnnouncedNext ==
  ASSUME TypeOK, BaseInv, AnnouncedInv(stack), [Next]_vars
  PROVE  AnnouncedInv(stack)'
<1>1. CASE UNCHANGED vars
  <2>1. UNCHANGED << stack, loaded, loading >>
    BY <1>1 DEF vars, listVars
  <2>2. QED
    BY <2>1 DEF AnnouncedInv, GoesOn
<1>2. CASE MainLoop
  <2>1. SUFFICES ASSUME NEW d \in loaded', Announce(d) \in Calls(stack')
                 PROVE  d \in loading' /\ EndLoad(d) \notin Calls(stack')
    BY DEF AnnouncedInv, GoesOn
  <2>2. OfLoads(Announce(d)) /\ Announce(d).op = "announce"
    BY LoadOps DEF Announce
  <2>3. CASE Request
    <3>1. Announce(d) \in Calls(<< >>)
      BY <2>1, <2>2, <2>3, ReadyAtRest, ClientCallLoads DEF Request
    <3>2. QED
      BY <3>1, ReadyAtRest
  <2>4. ASSUME NEW e \in Directories, NEW k \in Kinds, Answer(e, k)
        PROVE  FALSE
    <3>1. \/ stack' = << Signal, EndJob(e, k), Changed(e) >>
          \/ stack' = << Signal, Signal, EndJob(e, k), Changed(e) >>
          \/ stack' = << Changed(e), Signal >>
      BY <2>4, Zenon DEF Answer
    <3>2. Calls(stack') \subseteq {Signal, EndJob(e, k), Changed(e)}
      BY <3>1, EventsReady
    <3>3. QED
      BY <2>1, <2>2, <3>2, LoadOps
  <2>5. ASSUME NEW e \in Directories, NEW k \in Kinds, AnswerCancelled(e, k)
        PROVE  FALSE
    <3>1. Calls(stack') = {Changed(e)}
      BY <2>5, EventsReady DEF AnswerCancelled
    <3>2. QED
      BY <2>1, <2>2, <3>1, LoadOps
  <2>6. ASSUME NEW e \in Directories, DeepCountProgress(e) \/ CallReadyCallbacks(e)
        PROVE  FALSE
    <3>1. Calls(stack') \subseteq {Signal, Calling(e)}
      BY <2>6, EventsReady DEF DeepCountProgress, CallReadyCallbacks
    <3>2. QED
      BY <2>1, <2>2, <3>1, LoadOps
  <2>7. ASSUME NEW e \in Directories, LoadDone(e)
        PROVE  d \in loading' /\ EndLoad(d) \notin Calls(stack')
    <3>1. Calls(stack') = {Signal, Announce(e), Changed(e), Unload(e)} /\ e \in loading /\ loading' = loading
      BY <2>7, EventsReady DEF LoadDone
    <3>2. Announce(d) = Announce(e)
      BY <2>1, <2>2, <3>1, LoadOps
    <3>3. d = e
      BY <3>2 DEF Announce
    <3>4. EndLoad(d) # Announce(e)
      BY DEF EndLoad, Announce
    <3>5. QED
      BY <3>1, <3>3, <3>4, LoadOps
  <2>8. QED
    BY <1>2, <2>3, <2>4, <2>5, <2>6, <2>7 DEF MainLoop
<1>3. CASE Step
  <2>0. Homed /\ Shape(stack) /\ stack \in Seq(Frames) /\ stack # << >>
    BY <1>3, TopDecides DEF BaseInv, TypeOK
  <2>1. SUFFICES ASSUME NEW d \in loaded', Announce(d) \in Calls(stack')
                 PROVE  \/ d \in loading' /\ EndLoad(d) \notin Calls(stack')
                        \/ Unlist(d) \in Calls(stack') \/ Reload(d, 2) \in Calls(stack')
    BY DEF AnnouncedInv, GoesOn
  <2>2. Calls(stack) = {Top} \cup Calls(Below) /\ Calls(Below) \subseteq Calls(stack')
    BY <1>3, <2>0, Pops, StackNext
  <2>3. Announce(d) \in Calls(Below)
    <3>1. OfLoads(Announce(d)) /\ \A e : Announce(d) # EndLoad(e)
      BY DEF OfLoads, Announce, EndLoad
    <3>2. QED
      BY <1>3, <2>0, <2>1, <3>1, StepLoads
  <2>4. d \in loaded /\ (GoesOn(stack, d) \/ Unlist(d) \in Calls(stack) \/ Reload(d, 2) \in Calls(stack))
    BY <1>3, <2>1, <2>2, <2>3, LoadSteps DEF AnnouncedInv
  <2>5. CASE GoesOn(stack, d)
    <3>1. CASE Top = Unload(d)
      <4>1. Top.op = "unload" /\ Top.dir = d
        BY <3>1 DEF Unload
      <4>2. Below # << >>
        BY <2>3 DEF Calls
      <4>3. QED
        BY <2>0, <2>2, <4>1, <4>2, Pops
    <3>2. CASE Top # Unload(d)
      BY <1>3, <2>0, <2>5, <3>2, LoadsGoOn
    <3>3. QED
      BY <3>1, <3>2
  <2>6. Top # Unlist(d)
    <3>1. Top = Unlist(d) => Top.op = "unlist" /\ Top.dir = d
      BY DEF Unlist
    <3>2. QED
      BY <1>3, <2>1, <3>1, TopDecides, LoadSteps
  <2>7. Top # Reload(d, 2)
    <3>1. Top = Reload(d, 2) => Top.op = "reload" /\ Top.dir = d /\ Top.step = 2
      BY DEF Reload
    <3>2. QED
      BY <1>3, <2>1, <3>1, TopDecides, LoadSteps
  <2>8. QED
    BY <2>2, <2>4, <2>5, <2>6, <2>7
<1>4. QED
  BY <1>1, <1>2, <1>3 DEF Next

\* Every kind has its place in the order in which jobs are stopped.
LEMMA StopPlaces ==
  /\ DOMAIN StopOrder = 1 .. 10 /\ 10 \in Nat
  /\ \A k \in Kinds : \E j \in 1 .. 10 : StopOrder[j] = k
<1>1. DOMAIN StopOrder = 1 .. 10
  BY DEF StopOrder
<1>2. \A k \in AllKinds : \E j \in DOMAIN StopOrder : StopOrder[j] = k
  BY DEF AllKinds
<1>3. QED
  BY <1>1, <1>2, DirectoryAsyncAssumption

\* What makes up a promise of a pass.
LEMMA Promises ==
  ASSUME NEW d, NEW k \in Kinds
  PROVE  /\ Promise(Changed(d), d, k)
         /\ \A step : Promise(Reload(d, step), d, k)
         /\ \A i, io : Promise(ServiceAt(d, "list", i, io), d, k)
         /\ \A io : Promise(ServiceAt(d, "stop", 1, io), d, k)
<1>1. \E j \in DOMAIN StopOrder : j >= 1 /\ StopOrder[j] = k
  BY StopPlaces
<1>2. ASSUME NEW io PROVE Promise(ServiceAt(d, "stop", 1, io), d, k)
  <2>. DEFINE c == ServiceAt(d, "stop", 1, io)
  <2>1. c.op = "service" /\ c.dir = d /\ c.at = "stop" /\ c.i = 1
    BY DEF ServiceAt
  <2>. HIDE DEF c
  <2>2. c.i \in Nat \ {0} /\ \E j \in DOMAIN StopOrder : j >= c.i /\ StopOrder[j] = k
    BY <1>1, <2>1
  <2>3. Promise(c, d, k)
    BY <2>1, <2>2 DEF Promise
  <2>4. QED
    BY <2>3 DEF c
<1>3. QED
  BY <1>2 DEF Promise, Changed, Reload, ServiceAt

\* state_changed is cleared only where another round begins.
LEMMA StateKept ==
  ASSUME TypeOK, Homed, Shape(stack), Step, NEW d \in stateChanged
  PROVE  d \in stateChanged' \/ ServiceAt(d, "list", 1, NoFile) \in Calls(stack')
<1>1. CASE Handle
  BY <1>1 DEF Handle, ClientCall, MonitorAdd, MonitorRemove, CallWhenReady, CancelCallback,
              ListMonitorAdd, ListMonitorRemove, InvalidateAttributes, ForceReload, NotifyFilesChanged, loopVars
<1>2. CASE \/ CallOne \/ CallNoMore \/ EnqueueFile \/ End \/ MarkOutdated \/ AnnounceLoaded
           \/ UnloadDirectory \/ EndDirectoryLoad \/ ForgetFileList \/ Reloading
           \/ StartFileList \/ StopFileList \/ StopUnwanted \/ StopsDone
           \/ StartExtensionAtOnce \/ WakeUp \/ WakeOne \/ WakeNoMore
  BY <1>2 DEF CallOne, CallNoMore, EnqueueFile, End, MarkOutdated, AnnounceLoaded,
              UnloadDirectory, EndDirectoryLoad, ForgetFileList, Reloading,
              StartFileList, StopFileList, StopUnwanted, StopsDone,
              StartExtensionAtOnce, WakeUp, WakeOne, WakeNoMore, loopVars
<1>3. ASSUME NEW level \in Levels, StartJob(level) \/ Skip(level) \/ FinishHead(level) \/ NextLevel(level)
      PROVE  stateChanged \subseteq stateChanged'
  BY <1>3 DEF StartJob, Skip, FinishHead, NextLevel, loopVars
<1>4. CASE StateChanged
  <2>1. CASE d \in stateChanged'
    BY <2>1
  <2>2. CASE d \notin stateChanged'
    <3>1. d = Top.dir /\ Top.dir \notin inLoop
      BY <1>4, <2>2 DEF StateChanged
    <3>2. ServiceAt(d, "list", 1, NoFile) \in Calls(stack')
      BY <1>4, <3>1, ServiceStacks
    <3>3. QED
      BY <3>2, Promises
  <2>3. QED
    BY <2>1, <2>2
<1>5. CASE CallReady
  <2>1. CASE d = Top.dir
    <3>1. ServiceAt(d, "list", 1, NoFile) \in Calls(stack')
      BY <1>5, <2>1, ServiceStacks
    <3>2. QED
      BY <3>1
  <2>2. CASE d # Top.dir
    BY <1>5, <2>2 DEF CallReady
  <2>3. QED
    BY <2>1, <2>2
<1>6. QED
  BY <1>1, <1>2, <1>3, <1>4, <1>5 DEF Step

\* The step of the stop phase that comes to kind k leaves no unwanted job of it.
LEMMA StopHits ==
  ASSUME TypeOK, NEW d \in Directories, NEW k \in Kinds,
         LET wanted == Running(d, k) => Needy(current[<< d, k >>], k)
         IN  CancelJobs(IF wanted THEN {} ELSE {<< d, k >>}, {}),
         UNCHANGED << attributeVars, requestVars >>
  PROVE  ~Unwanted(d, k)'
<1>. DEFINE job == << d, k >>
            wanted == Running(d, k) => Needy(current[job], k)
            cancels == IF wanted THEN {} ELSE {job}
<1>1. job \in Directories \X Kinds
  OBVIOUS
<1>2. SUFFICES ASSUME current'[<< d, k >>] # NoFile, << d, k >> \notin cancelled', ~Wanted(d, k)'
               PROVE  FALSE
  BY DEF Unwanted, Running
<1>3. CancelJobs(cancels, {})
  OBVIOUS
<1>. HIDE DEF cancels
<1>4. current'[job] = current[job]
  BY <1>1, <1>2, <1>3 DEF CancelJobs
<1>5. UNCHANGED << outdated, active, monitors >>
  BY DEF attributeVars, requestVars
<1>6. CASE wanted
  <2>1. Needy(current[job], k)
    BY <1>2, <1>4, <1>6 DEF Running
  <2>2. Lacks(current[job], k) /\ Asks(active \cup monitors, current[job], k)
    BY <2>1 DEF Needy, Asks
  <2>3. Wanted(d, k)'
    BY <1>4, <1>5, <2>2 DEF Wanted, Lacks, Asks
  <2>4. QED
    BY <1>2, <2>3
<1>7. CASE ~wanted
  <2>1. cancels = {job}
    BY <1>7 DEF cancels
  <2>2. current[job] # NoFile
    BY <1>2, <1>4
  <2>3. QED
    BY <1>1, <1>2, <1>3, <2>1, <2>2 DEF CancelJobs
<1>8. QED
  BY <1>6, <1>7

\* A call that promises a pass keeps its word.
LEMMA PromiseKept ==
  ASSUME TypeOK, BaseInv, Step, NEW d \in Directories, NEW k \in Kinds,
         NEW c \in Calls(stack), Promise(c, d, k)
  PROVE  \/ d \in stateChanged'
         \/ \E x \in Calls(stack') : Promise(x, d, k)
         \/ ~Unwanted(d, k)'
<1>0. Homed /\ Shape(stack) /\ stack \in Seq(Frames) /\ stack # << >>
  BY TopDecides DEF BaseInv, TypeOK
<1>1. Calls(stack) = {Top} \cup Calls(Below) /\ Calls(Below) \subseteq Calls(stack')
  BY <1>0, Pops, StackNext
<1>2. CASE c \in Calls(Below)
  BY <1>1, <1>2
<1>3. CASE c = Top /\ Top.op = "changed"
  <2>1. Top.dir = d /\ StateChanged
    BY <1>3, TopDecides DEF Promise
  <2>2. CASE d \in inLoop
    BY <2>1, <2>2 DEF StateChanged
  <2>3. CASE d \notin inLoop
    <3>1. ServiceAt(d, "list", 1, NoFile) \in Calls(stack')
      BY <1>0, <2>1, <2>3, ServiceStacks
    <3>2. QED
      BY <3>1, Promises
  <2>4. QED
    BY <2>2, <2>3
<1>4. CASE c = Top /\ Top.op = "reload"
  <2>1. Top.dir = d /\ Reloading
    BY <1>4, TopDecides DEF Promise
  <2>2. Top.step = 1 \/ Top.step = 2 \/ Top.step = 3
    BY <1>0, <2>1, ReloadStacks
  <2>3. Changed(d) \in Calls(stack') \/ \E step : Reload(d, step) \in Calls(stack')
    BY <1>0, <2>1, <2>2, ReloadStacks
  <2>4. QED
    BY <2>3, Promises
<1>5. CASE c = Top /\ Top.op = "service" /\ Top.at = "list"
  <2>1. Top.dir = d /\ (StartFileList \/ StopFileList)
    BY <1>5, TopDecides DEF Promise
  <2>2. ServiceAt(d, "stop", 1, NoFile) \in Calls(stack')
    BY <1>0, <2>1, ServiceStacks
  <2>3. QED
    BY <2>2, Promises
<1>6. CASE c = Top /\ Top.op = "service" /\ Top.at = "stop"
  <2>1. Top.dir = d /\ Top.i \in Nat \ {0} /\ \E p \in DOMAIN StopOrder : p >= Top.i /\ StopOrder[p] = k
    BY <1>6 DEF Promise
  <2>2. PICK p \in 1 .. 10 : p >= Top.i /\ StopOrder[p] = k
    BY <2>1, StopPlaces
  <2>3. CASE StopsDone
    <3>1. p \in Top.i .. 10
      BY <2>1, <2>2
    <3>2. NextJob(StopOrder, Top.i) # {}
      BY <2>1, <2>2, <3>1, StopPlaces, NextExists
    <3>3. QED
      BY <2>3, <3>2 DEF StopsDone
  <2>4. CASE StopUnwanted
    <3>1. PICK j \in NextJob(StopOrder, Top.i) :
            /\ LET l == StopOrder[j]
                   wanted == Running(Top.dir, l) => Needy(current[<< Top.dir, l >>], l)
               IN  CancelJobs(IF wanted THEN {} ELSE {<< Top.dir, l >>}, {})
            /\ GoTo("stop", j + 1, NoFile)
      BY <2>4, Zenon DEF StopUnwanted
    <3>2. CASE StopOrder[j] = k
      <4>1. LET wanted == Running(Top.dir, k) => Needy(current[<< Top.dir, k >>], k)
            IN  CancelJobs(IF wanted THEN {} ELSE {<< Top.dir, k >>}, {})
        BY <3>1, <3>2, Zenon
      <4>2. UNCHANGED << attributeVars, requestVars >>
        BY <2>4 DEF StopUnwanted
      <4>3. LET wanted == Running(d, k) => Needy(current[<< d, k >>], k)
            IN  CancelJobs(IF wanted THEN {} ELSE {<< d, k >>}, {})
        BY <2>1, <4>1
      <4>4. QED
        BY <4>2, <4>3, StopHits
    <3>3. CASE StopOrder[j] # k
      <4>1. j \in 1 .. 10 /\ j >= Top.i /\ \A m \in Top.i .. j - 1 : StopOrder[m] \notin Kinds
        BY StopPlaces DEF NextJob
      <4>2. p # j
        BY <2>2, <3>3
      <4>3. ~(p \in Top.i .. j - 1)
        BY <2>2, <4>1
      <4>4. p >= j + 1 /\ j + 1 \in Nat \ {0}
        BY <2>1, <2>2, <4>1, <4>2, <4>3
      <4>. DEFINE x == ServiceAt(d, "stop", j + 1, NoFile)
      <4>5. x \in Calls(stack')
        BY <1>0, <2>1, <2>4, <3>1, ServiceStacks DEF StopUnwanted
      <4>6. Promise(x, d, k)
        <5>1. x.op = "service" /\ x.dir = d /\ x.at = "stop" /\ x.i = j + 1
          BY DEF ServiceAt
        <5>. HIDE DEF x
        <5>2. p \in DOMAIN StopOrder
          BY StopPlaces
        <5>3. QED
          BY <2>2, <4>4, <5>1, <5>2 DEF Promise
      <4>7. QED
        BY <4>5, <4>6
    <3>4. QED
      BY <3>2, <3>3
  <2>5. QED
    BY <1>6, <2>3, <2>4, TopDecides
<1>7. QED
  BY <1>1, <1>2, <1>3, <1>4, <1>5, <1>6 DEF Promise

\* A pass that is sure to come stays sure until it has come.
LEMMA SureKept ==
  ASSUME TypeOK, BaseInv, Step, NEW d \in Directories, NEW k \in Kinds, Sure(stack, d, k)
  PROVE  Sure(stack, d, k)' \/ ~Unwanted(d, k)'
<1>0. Homed /\ Shape(stack) /\ stack \in Seq(Frames) /\ stack # << >>
  BY TopDecides DEF BaseInv, TypeOK
<1>1. ASSUME \/ d \in stateChanged'
             \/ \E x \in Calls(stack') : Promise(x, d, k)
             \/ \E e \in Directories :
                  /\ Unload(e) \in Calls(stack') /\ e \in loading' /\ EndLoad(e) \notin Calls(stack')
                  /\ Home[Corresponding[e]] = d /\ d # e
      PROVE  Sure(stack, d, k)'
  BY <1>1 DEF Sure, EndTells, GoesOn
<1>2. CASE d \in stateChanged
  BY <1>0, <1>1, <1>2, StateKept, Promises
<1>3. CASE \E c \in Calls(stack) : Promise(c, d, k)
  BY <1>1, <1>3, PromiseKept
<1>4. ASSUME NEW e, EndTells(stack, e, d)
      PROVE  Sure(stack, d, k)'
  <2>1. Calls(stack) = {Top} \cup Calls(Below) /\ Calls(Below) \subseteq Calls(stack')
    BY <1>0, Pops, StackNext
  <2>2. e \in Directories /\ Unload(e) \in Calls(stack) /\ e \in loading /\ Home[Corresponding[e]] = d /\ d # e
    BY <1>4 DEF EndTells, GoesOn
  <2>3. CASE Top = Unload(e)
    <3>1. Top.op = "unload" /\ Top.dir = e
      BY <2>3 DEF Unload
    <3>2. Changed(d) \in Calls(stack')
      BY <1>0, <2>2, <3>1, TopDecides, NestedStacks
    <3>3. QED
      BY <1>1, <3>2, Promises
  <2>4. CASE Top # Unload(e)
    <3>1. Unload(e) \in Calls(stack')
      BY <2>1, <2>2, <2>4
    <3>2. e \in loading' /\ EndLoad(e) \notin Calls(stack')
      BY <1>0, <1>4, <2>4, LoadsGoOn DEF EndTells
    <3>3. QED
      BY <1>1, <2>2, <3>1, <3>2
  <2>5. QED
    BY <2>3, <2>4
<1>5. QED
  BY <1>2, <1>3, <1>4 DEF Sure

\* The state machine of d will run: it was called, or it goes round again.
Told(s, d) == Changed(d) \in Calls(s) \/ Reload(d, 2) \in Calls(s) \/ ServiceAt(d, "list", 1, NoFile) \in Calls(s)

LEMMA ToldIsSure ==
  ASSUME NEW d, NEW k \in Kinds, Told(stack', d)
  PROVE  Sure(stack, d, k)'
BY Promises DEF Told, Sure

\* A request goes only by way of the state machine of its file's directory.
LEMMA RequestsGo ==
  ASSUME TypeOK, Homed, Shape(stack), Next,
         NEW r \in active \cup monitors, r \notin active' \cup monitors'
  PROVE  Told(stack', Home[r[1]])
<1>. DEFINE Kept == r \in active' \cup monitors'
<1>1. ASSUME NEW rest, Ready(rest), ClientCall(rest), ~Kept
      PROVE  Told(stack', Home[r[1]])
  <2>1. ASSUME NEW q \in Requests, MonitorAdd(q[1], q[2], rest) \/ CallWhenReady(q[1], q[2], rest)
                                     \/ NotifyFilesChanged(q[1], rest)
        PROVE  Kept
    BY <2>1 DEF MonitorAdd, CallWhenReady, NotifyFilesChanged, requestVars
  <2>2. ASSUME UNCHANGED requestVars PROVE Kept
    BY <2>2 DEF requestVars
  <2>3. ASSUME NEW d \in Listed, ListMonitorAdd(d, rest) \/ ListMonitorRemove(d, rest) \/ ForceReload(d, rest)
        PROVE  Kept
    BY <2>3 DEF ListMonitorAdd, ListMonitorRemove, ForceReload, requestVars
  <2>4. ASSUME NEW q \in Requests, MonitorRemove(q[1], q[2], rest) \/ CancelCallback(q[1], q[2], rest), ~Kept
        PROVE  Told(stack', Home[r[1]])
    <3>1. Calls(stack') = {Changed(Home[q[1]])} \cup Calls(rest)
      BY <1>1, <2>4, ClientStacks
    <3>2. r = << q[1], q[2] >>
      BY <2>4 DEF MonitorRemove, CancelCallback
    <3>3. r[1] = q[1]
      BY <3>2
    <3>4. QED
      BY <3>1, <3>3 DEF Told
  <2>5. QED
    BY <1>1, <2>1, <2>2, <2>3, <2>4, Zenon DEF ClientCall
<1>2. CASE MainLoop
  <2>1. CASE Request
    BY <1>1, <2>1, ReadyAtRest DEF Request
  <2>2. ASSUME NEW d \in Directories, NEW k \in Kinds, Answer(d, k) \/ AnswerCancelled(d, k)
        PROVE  Kept
    BY <2>2 DEF Answer, AnswerCancelled, requestVars
  <2>3. ASSUME NEW d \in Directories, DeepCountProgress(d) \/ LoadDone(d) \/ CallReadyCallbacks(d)
        PROVE  Kept
    BY <2>3 DEF DeepCountProgress, LoadDone, CallReadyCallbacks, requestVars
  <2>4. QED
    BY <1>2, <2>1, <2>2, <2>3 DEF MainLoop
<1>3. CASE Handle
  <2>1. stack # << >> /\ Top.op = "signal" /\ stack \in Seq(Frames)
    BY <1>3 DEF Handle, Pending, TypeOK
  <2>2. Ready(Below)
    BY <2>1, Pops
  <2>3. CASE ClientCall(Below)
    BY <1>1, <2>2, <2>3
  <2>4. QED
    BY <1>3, <2>3 DEF Handle, requestVars
<1>4. CASE \/ CallOne \/ CallNoMore \/ EnqueueFile \/ End \/ MarkOutdated \/ AnnounceLoaded
           \/ UnloadDirectory \/ EndDirectoryLoad \/ ForgetFileList \/ Reloading
           \/ StateChanged \/ StartFileList \/ StopFileList \/ StopUnwanted \/ StopsDone
           \/ StartExtensionAtOnce \/ WakeUp \/ WakeOne \/ WakeNoMore
  BY <1>4 DEF CallOne, CallNoMore, EnqueueFile, End, MarkOutdated, AnnounceLoaded,
              UnloadDirectory, EndDirectoryLoad, ForgetFileList, Reloading,
              StateChanged, StartFileList, StopFileList, StopUnwanted, StopsDone,
              StartExtensionAtOnce, WakeUp, WakeOne, WakeNoMore, requestVars
<1>5. ASSUME NEW level \in Levels, StartJob(level) \/ Skip(level) \/ FinishHead(level) \/ NextLevel(level)
      PROVE  Kept
  BY <1>5 DEF StartJob, Skip, FinishHead, NextLevel, requestVars
<1>6. CASE CallReady
  <2>1. active' = active \ Due(Top.dir) /\ monitors' = monitors
    BY <1>6 DEF CallReady
  <2>2. r \in Due(Top.dir) /\ Home[r[1]] = Top.dir
    BY <2>1 DEF Due
  <2>3. ServiceAt(Top.dir, "list", 1, NoFile) \in Calls(stack')
    BY <1>6, <2>2, ServiceStacks
  <2>4. QED
    BY <2>2, <2>3 DEF Told
<1>7. QED
  BY <1>2, <1>3, <1>4, <1>5, <1>6 DEF Next, Step

\* Nor is an attribute put out of date without it.
LEMMA OutdatedGrows ==
  ASSUME TypeOK, Homed, Shape(stack), Next,
         NEW f \in Files, NEW k, << f, k >> \in outdated', << f, k >> \notin outdated
  PROVE  Told(stack', Home[f])
<1>. DEFINE Kept == << f, k >> \notin outdated'
<1>1. ASSUME NEW rest, Ready(rest), ClientCall(rest), ~Kept
      PROVE  Told(stack', Home[f])
  <2>1. ASSUME NEW q \in Requests, \/ MonitorAdd(q[1], q[2], rest) \/ MonitorRemove(q[1], q[2], rest)
                                   \/ CallWhenReady(q[1], q[2], rest) \/ CancelCallback(q[1], q[2], rest)
        PROVE  Kept
    BY <2>1 DEF MonitorAdd, MonitorRemove, CallWhenReady, CancelCallback, attributeVars
  <2>2. ASSUME UNCHANGED attributeVars PROVE Kept
    BY <2>2 DEF attributeVars
  <2>3. ASSUME NEW d \in Listed, ListMonitorAdd(d, rest) \/ ListMonitorRemove(d, rest) \/ ForceReload(d, rest)
        PROVE  Kept
    BY <2>3 DEF ListMonitorAdd, ListMonitorRemove, ForceReload, attributeVars
  <2>4. ASSUME NEW q \in Requests, NotifyFilesChanged(q[1], rest), ~Kept
        PROVE  Told(stack', Home[f])
    <3>1. Calls(stack') = {Changed(Home[q[1]]), Signal} \cup Calls(rest)
      BY <1>1, <2>4, ClientStacks
    <3>2. << f, k >> \in {q[1]} \X NotifiedKinds
      BY <2>4 DEF NotifyFilesChanged
    <3>3. f = q[1]
      BY <3>2
    <3>4. QED
      BY <3>1, <3>3 DEF Told
  <2>5. QED
    BY <1>1, <2>1, <2>2, <2>3, <2>4, Zenon DEF ClientCall
<1>2. CASE MainLoop
  <2>1. CASE Request
    BY <1>1, <2>1, ReadyAtRest DEF Request
  <2>2. ASSUME NEW d \in Directories, NEW l \in Kinds, Answer(d, l) \/ AnswerCancelled(d, l)
        PROVE  Kept
    BY <2>2 DEF Answer, AnswerCancelled, attributeVars
  <2>3. ASSUME NEW d \in Directories, DeepCountProgress(d) \/ LoadDone(d) \/ CallReadyCallbacks(d)
        PROVE  Kept
    BY <2>3 DEF DeepCountProgress, LoadDone, CallReadyCallbacks, attributeVars
  <2>4. QED
    BY <1>2, <2>1, <2>2, <2>3 DEF MainLoop
<1>3. CASE Handle
  <2>1. stack # << >> /\ Top.op = "signal" /\ stack \in Seq(Frames)
    BY <1>3 DEF Handle, Pending, TypeOK
  <2>2. Ready(Below)
    BY <2>1, Pops
  <2>3. CASE ClientCall(Below)
    BY <1>1, <2>2, <2>3
  <2>4. QED
    BY <1>3, <2>3 DEF Handle, attributeVars
<1>4. CASE \/ CallOne \/ CallNoMore \/ EnqueueFile \/ End \/ AnnounceLoaded
           \/ UnloadDirectory \/ EndDirectoryLoad \/ ForgetFileList
           \/ StateChanged \/ StartFileList \/ StopFileList \/ StopUnwanted \/ StopsDone
           \/ StartExtensionAtOnce \/ CallReady \/ WakeUp \/ WakeOne \/ WakeNoMore
  BY <1>4 DEF CallOne, CallNoMore, EnqueueFile, End, AnnounceLoaded,
              UnloadDirectory, EndDirectoryLoad, ForgetFileList,
              StateChanged, StartFileList, StopFileList, StopUnwanted, StopsDone,
              StartExtensionAtOnce, CallReady, WakeUp, WakeOne, WakeNoMore, attributeVars
<1>5. ASSUME NEW level \in Levels, StartJob(level) \/ Skip(level) \/ FinishHead(level) \/ NextLevel(level)
      PROVE  Kept
  BY <1>5 DEF StartJob, Skip, FinishHead, NextLevel, attributeVars
<1>6. CASE MarkOutdated
  <2>1. << f, k >> \in {Top.file} \X (Top.kinds \ {"filesystem_info"})
    BY <1>6 DEF MarkOutdated
  <2>2. f = Top.file
    BY <2>1
  <2>3. Changed(Home[f]) \in Calls(stack')
    BY <1>6, <2>2, NestedStacks
  <2>4. QED
    BY <2>3 DEF Told
<1>7. CASE Reloading
  <2>1. Top.dir \in Directories /\ Top.step \in 1 .. 3
    BY <1>7, ReloadStacks
  <2>2. CASE Top.step = 1
    <3>1. << f, k >> \in ReloadedFiles(Top.dir) \X ReloadedKinds
      BY <1>7, <2>2 DEF Reloading
    <3>2. f \in ReloadedFiles(Top.dir)
      BY <3>1
    <3>3. Home[f] = Top.dir
      BY <2>1, <3>2, ListingAssumption DEF ReloadedFiles
    <3>4. Reload(Top.dir, 2) \in Calls(stack')
      BY <1>7, <2>2, ReloadStacks
    <3>5. QED
      BY <3>3, <3>4 DEF Told
  <2>3. CASE Top.step = 2
    BY <1>7, <2>3 DEF Reloading, attributeVars
  <2>4. CASE Top.step = 3
    BY <1>7, <2>4 DEF Reloading, attributeVars
  <2>5. QED
    BY <2>1, <2>2, <2>3, <2>4
<1>8. QED
  BY <1>2, <1>3, <1>4, <1>5, <1>6, <1>7 DEF Next, Step

\* What a step may do to a job besides beginning it.
JobStays(job) ==
  /\ current'[job] \in {current[job], NoFile}
  /\ job \in cancelled => job \in cancelled' \/ current'[job] = NoFile

LEMMA CancelStays ==
  ASSUME NEW cancels, NEW invalid, CancelJobs(cancels, invalid), NEW job \in Directories \X Kinds
  PROVE  JobStays(job)
BY DEF CancelJobs, JobStays

LEMMA ClearStays ==
  ASSUME TypeOK, NEW e \in Directories, NEW l \in Kinds, NEW job \in Directories \X Kinds,
         current' = [current EXCEPT ![<< e, l >>] = NoFile],
         cancelled \ {<< e, l >>} \subseteq cancelled'
  PROVE  JobStays(job)
<1>1. current'[<< e, l >>] = NoFile
  BY DEF TypeOK
<1>2. ASSUME job # << e, l >> PROVE current'[job] = current[job]
  BY <1>2 DEF TypeOK
<1>3. QED
  BY <1>1, <1>2 DEF JobStays

\* Only StartJob begins a job that stays in progress.
LEMMA JobsStay ==
  ASSUME TypeOK, Shape(stack), Next, \A level \in Levels : ~StartJob(level),
         NEW job \in Directories \X Kinds
  PROVE  JobStays(job)
<1>1. ASSUME UNCHANGED << current, cancelled >> PROVE JobStays(job)
  BY <1>1 DEF JobStays
<1>2. ASSUME NEW rest, ClientCall(rest) PROVE JobStays(job)
  <2>1. ASSUME NEW q \in Requests,
               \/ MonitorAdd(q[1], q[2], rest) \/ MonitorRemove(q[1], q[2], rest)
               \/ CallWhenReady(q[1], q[2], rest) \/ CancelCallback(q[1], q[2], rest)
               \/ NotifyFilesChanged(q[1], rest)
        PROVE  JobStays(job)
    BY <1>1, <2>1 DEF MonitorAdd, MonitorRemove, CallWhenReady, CancelCallback, NotifyFilesChanged, jobVars
  <2>2. ASSUME NEW e \in Listed, ListMonitorAdd(e, rest) \/ ListMonitorRemove(e, rest)
        PROVE  JobStays(job)
    BY <1>1, <2>2 DEF ListMonitorAdd, ListMonitorRemove, jobVars
  <2>3. ASSUME NEW e \in Listed, ForceReload(e, rest) PROVE JobStays(job)
    BY <2>3, CancelStays DEF ForceReload
  <2>4. ASSUME NEW q \in Requests, InvalidateAttributes(q[1], {q[2]}, rest) PROVE JobStays(job)
    BY <2>4, CancelStays DEF InvalidateAttributes
  <2>5. QED
    BY <1>2, <2>1, <2>2, <2>3, <2>4, Zenon DEF ClientCall
<1>3. CASE MainLoop
  <2>1. CASE Request
    BY <1>2, <2>1 DEF Request
  <2>2. ASSUME NEW e \in Directories, NEW l \in Kinds, Answer(e, l)
        PROVE  JobStays(job)
    <3>1. cancelled' = cancelled
      BY <2>2 DEF Answer
    <3>2. current' = current \/ current' = [current EXCEPT ![<< e, l >>] = NoFile]
      BY <2>2, Zenon DEF Answer
    <3>3. QED
      BY <1>1, <3>1, <3>2, ClearStays
  <2>3. ASSUME NEW e \in Directories, NEW l \in Kinds, AnswerCancelled(e, l)
        PROVE  JobStays(job)
    BY <2>3, ClearStays DEF AnswerCancelled
  <2>4. ASSUME NEW e \in Directories, DeepCountProgress(e) \/ LoadDone(e) \/ CallReadyCallbacks(e)
        PROVE  JobStays(job)
    BY <1>1, <2>4 DEF DeepCountProgress, LoadDone, CallReadyCallbacks, jobVars
  <2>5. QED
    BY <1>3, <2>1, <2>2, <2>3, <2>4 DEF MainLoop
<1>4. CASE Handle
  BY <1>1, <1>2, <1>4 DEF Handle, jobVars
<1>5. CASE \/ CallOne \/ CallNoMore \/ EnqueueFile \/ MarkOutdated \/ AnnounceLoaded
           \/ UnloadDirectory \/ EndDirectoryLoad \/ ForgetFileList
           \/ StateChanged \/ StartFileList \/ StopFileList \/ StopsDone
           \/ StartExtensionAtOnce \/ CallReady \/ WakeUp \/ WakeOne \/ WakeNoMore
  BY <1>1, <1>5 DEF CallOne, CallNoMore, EnqueueFile, MarkOutdated, AnnounceLoaded,
              UnloadDirectory, EndDirectoryLoad, ForgetFileList,
              StateChanged, StartFileList, StopFileList, StopsDone,
              StartExtensionAtOnce, CallReady, WakeUp, WakeOne, WakeNoMore, jobVars
<1>6. ASSUME NEW level \in Levels, Skip(level) \/ FinishHead(level) \/ NextLevel(level)
      PROVE  JobStays(job)
  BY <1>1, <1>6 DEF Skip, FinishHead, NextLevel, jobVars
<1>7. CASE End
  <2>1. Top.dir \in Directories /\ Top.kind \in Kinds
    BY <1>7, TopType DEF End, Pending, TypeOK
  <2>2. cancelled' = cancelled
        /\ (current' = current \/ current' = [current EXCEPT ![<< Top.dir, Top.kind >>] = NoFile])
    BY <1>7, Zenon DEF End
  <2>3. QED
    BY <1>1, <2>1, <2>2, ClearStays
<1>8. CASE Reloading
  <2>1. Top.step \in 1 .. 3
    BY <1>8, ReloadStacks
  <2>2. CASE Top.step = 2
    BY <1>8, <2>2, CancelStays DEF Reloading, InvalidateAttributes
  <2>3. CASE Top.step # 2
    <3>1. UNCHANGED jobVars
      BY <1>8, <2>1, <2>3 DEF Reloading
    <3>2. QED
      BY <1>1, <3>1 DEF jobVars
  <2>4. QED
    BY <2>2, <2>3
<1>9. CASE StopUnwanted
  <2>1. \E cancels, invalid : CancelJobs(cancels, invalid)
    BY <1>9, Zenon DEF StopUnwanted
  <2>2. QED
    BY <2>1, CancelStays
<1>10. QED
  BY <1>3, <1>4, <1>5, <1>6, <1>7, <1>8, <1>9 DEF Next, Step

\* A job that is in progress was so before, for the same file, or was begun because
\* somebody asks for what it reads.
LEMMA JobsBegun ==
  ASSUME TypeOK, Homed, Shape(stack), Next, NEW d \in Directories, NEW k \in Kinds,
         current'[<< d, k >>] # NoFile, << d, k >> \notin cancelled'
  PROVE  \/ current'[<< d, k >>] = current[<< d, k >>] /\ << d, k >> \notin cancelled
         \/ Wanted(d, k)'
<1>1. CASE \A level \in Levels : ~StartJob(level)
  BY <1>1, JobsStay DEF JobStays
<1>2. ASSUME NEW level \in Levels, StartJob(level)
      PROVE  \/ current'[<< d, k >>] = current[<< d, k >>] /\ << d, k >> \notin cancelled
             \/ Wanted(d, k)'
  <2>1. PICK j \in NextJob(StartOrder[level], Top.i) :
          LET l == StartOrder[level][j]
              f == FileTried(level)
          IN  IF Running(Top.dir, l) \/ ~Needy(f, l)
              THEN UNCHANGED << slotVars, jobVars >>
              ELSE \/ NoSlot(Top.dir) /\ UNCHANGED jobVars
                   \/ /\ TakeSlot
                      /\ current' = [current EXCEPT ![<< Top.dir, l >>] = f]
                      /\ stale' = stale \ {<< Top.dir, l >>}
                      /\ UNCHANGED cancelled
    BY <1>2, Zenon DEF StartJob
  <2>. DEFINE l == StartOrder[level][j]
              f == FileTried(level)
  <2>2. UNCHANGED << outdated, active, monitors >>
    BY <1>2 DEF StartJob, attributeVars, requestVars
  <2>3. CASE UNCHANGED jobVars
    BY <2>3 DEF jobVars
  <2>4. CASE Needy(f, l) /\ current' = [current EXCEPT ![<< Top.dir, l >>] = f] /\ UNCHANGED cancelled
    <3>1. Lacks(f, l) /\ Asks(active \cup monitors, f, l)
      BY <2>4 DEF Needy, Asks
    <3>. HIDE DEF l, f
    <3>2. CASE << d, k >> = << Top.dir, l >>
      <4>1. current'[<< d, k >>] = f /\ k = l
        BY <2>4, <3>2 DEF TypeOK
      <4>2. Wanted(d, k)'
        BY <2>2, <3>1, <4>1 DEF Wanted, Lacks, Asks
      <4>3. QED
        BY <4>2
    <3>3. CASE << d, k >> # << Top.dir, l >>
      BY <2>4, <3>3 DEF TypeOK
    <3>4. QED
      BY <3>2, <3>3
  <2>5. QED
    BY <2>1, <2>3, <2>4
<1>3. QED
  BY <1>1, <1>2

\* An attribute that a job still reads is set from elsewhere only where the state
\* machine of its directory is sure to run.
LEMMA OutdatedShrinks ==
  ASSUME TypeOK, BaseInv, AnnouncedInv(stack), Next,
         NEW d \in Directories, NEW k \in Kinds, NEW f \in Files,
         current[<< d, k >>] = f, current'[<< d, k >>] = f,
         << f, k >> \in outdated, << f, k >> \notin outdated'
  PROVE  Sure(stack, d, k)'
<1>. DEFINE Kept == << f, k >> \in outdated'
<1>0. Homed /\ Shape(stack) /\ f # NoFile /\ Running(d, k) /\ Home[f] = d
  BY DirectoryAsyncAssumption DEF BaseInv, Homed, Running
<1>1. ASSUME NEW rest, ClientCall(rest) PROVE Kept
  <2>1. ASSUME NEW q \in Requests,
               \/ MonitorAdd(q[1], q[2], rest) \/ MonitorRemove(q[1], q[2], rest)
               \/ CallWhenReady(q[1], q[2], rest) \/ CancelCallback(q[1], q[2], rest)
        PROVE  Kept
    BY <2>1 DEF MonitorAdd, MonitorRemove, CallWhenReady, CancelCallback, attributeVars
  <2>2. ASSUME NEW e \in Listed, \/ ListMonitorAdd(e, rest) \/ ListMonitorRemove(e, rest)
                                 \/ ForceReload(e, rest)
        PROVE  Kept
    BY <2>2 DEF ListMonitorAdd, ListMonitorRemove, ForceReload, attributeVars
  <2>3. ASSUME UNCHANGED attributeVars PROVE Kept
    BY <2>3 DEF attributeVars
  <2>4. ASSUME NEW q \in Requests, NotifyFilesChanged(q[1], rest) PROVE Kept
    BY <2>4 DEF NotifyFilesChanged
  <2>5. QED
    BY <1>1, <2>1, <2>2, <2>3, <2>4, Zenon DEF ClientCall
<1>2. CASE MainLoop
  <2>1. CASE Request
    BY <1>1, <2>1 DEF Request
  <2>2. ASSUME NEW e \in Directories, NEW l \in Kinds, Answer(e, l), ~Kept
        PROVE  Told(stack', d)
    <3>1. Running(e, l) /\ outdated' = outdated \ {<< current[<< e, l >>], l >>}
      BY <2>2 DEF Answer
    <3>2. f = current[<< e, l >>] /\ k = l
      BY <2>2, <3>1
    <3>3. Home[current[<< e, l >>]] = e
      BY <1>0, <3>1 DEF Homed
    <3>4. e = d
      BY <1>0, <3>2, <3>3
    <3>5. \/ current' = [current EXCEPT ![<< e, l >>] = NoFile]
          \/ stack' = << Signal, EndJob(e, l), Changed(e) >>
      BY <2>2, Zenon DEF Answer
    <3>6. current' # [current EXCEPT ![<< e, l >>] = NoFile]
      BY <1>0, <3>2, <3>4 DEF TypeOK
    <3>7. Changed(e) \in Calls(stack')
      BY <3>5, <3>6, EventsReady
    <3>8. QED
      BY <3>4, <3>7 DEF Told
  <2>3. ASSUME NEW e \in Directories, NEW l \in Kinds, AnswerCancelled(e, l) PROVE Kept
    BY <2>3 DEF AnswerCancelled, attributeVars
  <2>4. ASSUME NEW e \in Directories, DeepCountProgress(e) \/ LoadDone(e) \/ CallReadyCallbacks(e)
        PROVE  Kept
    BY <2>4 DEF DeepCountProgress, LoadDone, CallReadyCallbacks, attributeVars
  <2>5. QED
    BY <1>2, <2>1, <2>2, <2>3, <2>4, ToldIsSure DEF MainLoop
<1>3. CASE Handle
  BY <1>1, <1>3 DEF Handle, attributeVars
<1>4. CASE \/ CallOne \/ CallNoMore \/ EnqueueFile \/ End
           \/ UnloadDirectory \/ EndDirectoryLoad \/ ForgetFileList
           \/ StateChanged \/ StartFileList \/ StopFileList \/ StopUnwanted \/ StopsDone
           \/ CallReady \/ WakeUp \/ WakeOne \/ WakeNoMore
  BY <1>4 DEF CallOne, CallNoMore, EnqueueFile, End,
              UnloadDirectory, EndDirectoryLoad, ForgetFileList,
              StateChanged, StartFileList, StopFileList, StopUnwanted, StopsDone,
              CallReady, WakeUp, WakeOne, WakeNoMore, attributeVars
<1>5. ASSUME NEW level \in Levels, StartJob(level) \/ FinishHead(level) \/ NextLevel(level)
      PROVE  Kept
  BY <1>5 DEF StartJob, FinishHead, NextLevel, attributeVars
<1>6. CASE MarkOutdated
  BY <1>6 DEF MarkOutdated
<1>7. CASE Reloading
  BY <1>7 DEF Reloading, attributeVars
<1>8. ASSUME NEW level \in Levels, Skip(level) PROVE Kept
  <2>1. AtPhase(level) /\ HasFile(level)
    BY <1>8 DEF Skip
  <2>2. \E l \in Kinds : /\ ~Running(Top.dir, l)
                         /\ outdated' = outdated \ {<< FileTried(level), l >>}
    BY <1>8 DEF Skip, NextJob
  <2>3. Home[FileTried(level)] = Top.dir
    BY <1>0, <2>1, FileTriedHome
  <2>4. QED
    BY <1>0, <2>2, <2>3
<1>9. CASE StartExtensionAtOnce
  <2>. DEFINE g == Head(queue[Top.dir].extension)
  <2>1. outdated' = outdated \ {<< g, "extension_info" >>} /\ ~Running(Top.dir, "extension_info")
    BY <1>9 DEF StartExtensionAtOnce
  <2>2. Home[g] = Top.dir
    BY <1>0, <1>9, ExtensionStack
  <2>. HIDE DEF g
  <2>3. QED
    BY <1>0, <2>1, <2>2
<1>10. CASE AnnounceLoaded
  <2>1. CASE Top.dir \notin loaded
    BY <1>10, <2>1 DEF AnnounceLoaded, attributeVars
  <2>2. ASSUME NEW e, e = Top.dir, e \in loaded
        PROVE  Sure(stack, d, k)'
    <3>1. /\ stack \in Seq(Frames) /\ stack # << >> /\ Top.op = "announce" /\ Top \in Frames
          /\ UNCHANGED << loading, loaded >>
      BY <1>10 DEF AnnounceLoaded, Pending, TypeOK, Top, listVars
    <3>2. e \in Directories /\ Top = Announce(e)
      BY <2>2, <3>1 DEF Frames, Announce
    <3>3. Calls(Below) = {Changed(e), Unload(e)} /\ Calls(stack) = {Top} \cup Calls(Below)
      BY <1>0, <2>2, <3>1, Pops
    <3>4. /\ \A x, y : Unlist(x) \notin {Announce(y), Changed(y), Unload(y)}
          /\ \A x, y, step : Reload(x, step) \notin {Announce(y), Changed(y), Unload(y)}
          /\ \A x, y : EndLoad(x) \notin {Signal, Changed(y), Unload(y)}
      BY DEF Unlist, Reload, EndLoad, Announce, Changed, Unload, Signal
    <3>5. GoesOn(stack, e)
      BY <2>2, <3>2, <3>3, <3>4 DEF AnnouncedInv
    <3>6. Calls(stack') = {Signal, Changed(e), Unload(e)}
      <4>1. Calls(stack') = {Signal, Changed(e)} \cup Calls(Below)
        BY <1>0, <1>10, <2>2, NestedStacks
      <4>2. QED
        BY <3>3, <4>1
    <3>7. << f, k >> \in {Corresponding[e]} \X LoadFills
      BY <1>10, <2>2 DEF AnnounceLoaded
    <3>8. Home[Corresponding[e]] = d
      BY <1>0, <3>7
    <3>9. CASE d = e
      BY <3>6, <3>9, ToldIsSure DEF Told
    <3>10. CASE d # e
      <4>1. e \in loading' /\ EndLoad(e) \notin Calls(stack') /\ Unload(e) \in Calls(stack')
        BY <3>1, <3>4, <3>5, <3>6 DEF GoesOn
      <4>2. QED
        BY <3>2, <3>8, <3>10, <4>1 DEF Sure, EndTells, GoesOn
    <3>11. QED
      BY <3>9, <3>10
  <2>3. QED
    BY <2>1, <2>2
<1>11. QED
  BY <1>2, <1>3, <1>4, <1>5, <1>6, <1>7, <1>8, <1>9, <1>10 DEF Next, Step

\* A job becomes unwanted only where a pass over its directory is sure to come.
LEMMA UnwantedWhy ==
  ASSUME TypeOK, BaseInv, AnnouncedInv(stack), Next,
         NEW d \in Directories, NEW k \in Kinds, ~Unwanted(d, k), Unwanted(d, k)'
  PROVE  Sure(stack, d, k)'
<1>0. Homed /\ Shape(stack)
  BY DEF BaseInv
<1>1. /\ current'[<< d, k >>] # NoFile /\ << d, k >> \notin cancelled' /\ ~Wanted(d, k)'
      /\ current'[<< d, k >>] = current[<< d, k >>] /\ << d, k >> \notin cancelled
  BY <1>0, JobsBegun DEF Unwanted, Running
<1>2. PICK f \in Files : f = current[<< d, k >>] /\ f # NoFile /\ Home[f] = d
  BY <1>0, <1>1, DirectoryAsyncAssumption DEF TypeOK, Homed, Running
<1>3. Lacks(f, k) /\ Asks(active \cup monitors, f, k)
  BY <1>1, <1>2 DEF Unwanted, Running, Wanted
<1>4. ~(Lacks(f, k)' /\ Asks(active' \cup monitors', f, k))
  BY <1>1, <1>2 DEF Wanted, Lacks
<1>5. CASE ~Asks(active' \cup monitors', f, k)
  <2>1. PICK r \in active \cup monitors : r[1] = f /\ k \in RequestKinds(r[2])
    BY <1>3 DEF Asks
  <2>2. r \notin active' \cup monitors'
    BY <1>5, <2>1 DEF Asks
  <2>3. Told(stack', d)
    BY <1>0, <1>2, <2>1, <2>2, RequestsGo
  <2>4. QED
    BY <2>3, ToldIsSure
<1>6. CASE << f, k >> \notin outdated'
  BY <1>1, <1>2, <1>3, <1>6, OutdatedShrinks DEF Lacks
<1>7. CASE k \in NeedsInfo /\ << f, "file_info" >> \in outdated'
  <2>1. << f, "file_info" >> \notin outdated
    BY <1>3, <1>7 DEF Lacks
  <2>2. Told(stack', d)
    BY <1>0, <1>2, <1>7, <2>1, OutdatedGrows
  <2>3. QED
    BY <2>2, ToldIsSure
<1>8. QED
  BY <1>4, <1>5, <1>6, <1>7 DEF Lacks

\* At rest nothing is sure to come.
LEMMA NothingPending ==
  ASSUME LoopInv, Rest, NEW d, NEW k
  PROVE  ~Sure(stack, d, k)
BY DEF LoopInv, Passing, Sure, EndTells, Rest, Calls

LEMMA StopInductive ==
  /\ Init => StopInv
  /\ TypeOK /\ StopInv /\ [Next]_vars => StopInv'
<1>1. ASSUME Init PROVE StopInv
  <2>1. BaseInv
    BY <1>1, BaseInductive
  <2>2. AnnouncedInv(stack)
    BY <1>1 DEF Init, AnnouncedInv
  <2>3. JobInv(stack)
    BY <1>1 DEF Init, JobInv, Unwanted, Running
  <2>4. QED
    BY <2>1, <2>2, <2>3 DEF StopInv
<1>2. ASSUME TypeOK, StopInv, [Next]_vars PROVE StopInv'
  <2>1. BaseInv /\ AnnouncedInv(stack) /\ JobInv(stack)
    BY <1>2 DEF StopInv
  <2>2. BaseInv' /\ AnnouncedInv(stack)'
    BY <1>2, <2>1, BaseInductive, AnnouncedNext
  <2>3. JobInv(stack)'
    <3>1. CASE UNCHANGED vars
      <4>1. UNCHANGED << current, cancelled, outdated, active, monitors, stateChanged, loading, stack >>
        BY <3>1 DEF vars, jobVars, attributeVars, requestVars, listVars, loopVars
      <4>2. QED
        BY <2>1, <4>1 DEF JobInv, Unwanted, Running, Wanted, Lacks, Asks, Sure, EndTells, GoesOn
    <3>2. CASE Next
      <4>1. SUFFICES ASSUME NEW d \in Directories, NEW k \in Kinds, Unwanted(d, k)'
                     PROVE  Sure(stack, d, k)'
        BY DEF JobInv
      <4>2. CASE ~Unwanted(d, k)
        BY <1>2, <2>1, <3>2, <4>1, <4>2, UnwantedWhy
      <4>3. CASE Unwanted(d, k)
        <5>1. Sure(stack, d, k)
          BY <2>1, <4>3 DEF JobInv
        <5>2. ~Rest
          BY <2>1, <5>1, NothingPending DEF BaseInv
        <5>3. Step
          BY <3>2, <5>2 DEF Next, MainLoop, Request, Answer, AnswerCancelled, DeepCountProgress,
                            LoadDone, CallReadyCallbacks
        <5>4. QED
          BY <1>2, <2>1, <4>1, <5>1, <5>3, SureKept
      <4>4. QED
        BY <4>2, <4>3
    <3>3. QED
      BY <1>2, <3>1, <3>2
  <2>4. QED
    BY <2>2, <2>3 DEF StopInv
<1>3. QED
  BY <1>1, <1>2

\* When the main loop waits, no job is in progress that nobody asks for, unless it
\* was told to stop: whatever clients call, and from whatever handler, each change
\* that leaves a job without a purpose brings about a pass that stops it.
THEOREM NoJobIsUnwanted == Spec => []NoUnwantedJob
<1>1. TypeOK /\ StopInv => NoUnwantedJob
  <2>1. SUFFICES ASSUME StopInv, Rest, NEW d \in Directories, NEW k \in Kinds, Running(d, k)
                 PROVE  << d, k >> \in cancelled \/ Wanted(d, k)
    BY DEF NoUnwantedJob, Wanted
  <2>2. ~Sure(stack, d, k)
    BY <2>1, NothingPending DEF StopInv, BaseInv
  <2>3. QED
    BY <2>1, <2>2 DEF StopInv, JobInv, Unwanted
<1>2. QED
  BY TypeCorrect, StopInductive, <1>1, PTL DEF Spec

-----------------------------------------------------------------------------
(* The work queues, where no load hides what its directory's file needs.   *)

\* A file that needs k is on a queue from which that job will be tried.
Queued(f, k) == \E level \in Reaches[LevelOf(k)] : InQueue(queue[Home[f]][level], f)

\* A call is pending that puts f on its work queue.
PutBack(s, f) ==
  \E c \in Calls(s) :
    \/ c.op \in {"outdate", "enqueue"} /\ c.file = f
    \/ /\ c.op = "reload"
       /\ \/ \E i \in DOMAIN Listing[c.dir] : Listing[c.dir][i] = f
          \/ c.step # 3 /\ f = Corresponding[c.dir] /\ Home[f] = c.dir

InHigh(f) == InQueue(queue[Home[f]]["high"], f)

\* How the files on a queue change.
LEMMA QueueAfter ==
  ASSUME TypeOK, NEW f \in Files, NEW d \in Directories, NEW level \in Levels, NEW g \in Files
  PROVE  /\ AddToWorkQueue(f) =>
              (InQueue(queue'[d][level], g) <=>
                 (g = f /\ d = Home[f] /\ level = "high") \/ InQueue(queue[d][level], g))
         /\ RemoveFromWorkQueue(f) =>
              /\ InQueue(queue'[d][level], g) => InQueue(queue[d][level], g)
              /\ g # f /\ InQueue(queue[d][level], g) => InQueue(queue'[d][level], g)
<1>1. /\ Home[f] \in Directories /\ queue \in [Directories -> [Levels -> Seq(Files)]]
      /\ queue[d][level] \in Seq(Files)
  BY DirectoryAsyncAssumption DEF TypeOK
<1>2. ASSUME AddToWorkQueue(f)
      PROVE  InQueue(queue'[d][level], g) <=>
               (g = f /\ d = Home[f] /\ level = "high") \/ InQueue(queue[d][level], g)
  <2>1. queue'[d][level] = IF d = Home[f] /\ level = "high" THEN Enqueue(queue[d][level], f) ELSE queue[d][level]
    BY <1>1, <1>2, LevelsAre DEF AddToWorkQueue
  <2>2. InQueue(Enqueue(queue[d][level], f), g) <=> g = f \/ InQueue(queue[d][level], g)
    BY <1>1, QueueMembers
  <2>3. QED
    BY <2>1, <2>2
<1>3. ASSUME RemoveFromWorkQueue(f)
      PROVE  /\ InQueue(queue'[d][level], g) => InQueue(queue[d][level], g)
             /\ g # f /\ InQueue(queue[d][level], g) => InQueue(queue'[d][level], g)
  <2>1. queue'[d][level] = IF d = Home[f] THEN Dequeue(queue[d][level], f) ELSE queue[d][level]
    BY <1>1, <1>3 DEF RemoveFromWorkQueue
  <2>2. /\ InQueue(Dequeue(queue[d][level], f), g) => InQueue(queue[d][level], g)
        /\ g # f /\ InQueue(queue[d][level], g) => InQueue(Dequeue(queue[d][level], f), g)
    BY <1>1, QueueMembers
  <2>3. QED
    BY <2>1, <2>2
<1>4. QED
  BY <1>2, <1>3

LEMMA OnHigh ==
  ASSUME TypeOK, NEW f \in Files, AddToWorkQueue(f)
  PROVE  InHigh(f)'
BY QueueAfter, LevelsAre, DirectoryAsyncAssumption DEF InHigh

\* A file comes on a queue only with a call of its state machine, and goes to come
\* back, except where a pass moves it on.
FileAdded == \E f \in Files : AddToWorkQueue(f) /\ Changed(Home[f]) \in Calls(stack')
FileRemoved == \E f \in Files : RemoveFromWorkQueue(f) /\ PutBack(stack', f)
QueueStep == UNCHANGED queue \/ FileAdded \/ FileRemoved

LEMMA OutdatePutsBack ==
  ASSUME NEW s, NEW f, NEW ks, Outdate(f, ks) \in Calls(s)
  PROVE  PutBack(s, f)
BY DEF PutBack, Outdate

LEMMA ClientQueue ==
  ASSUME TypeOK, NEW rest, Ready(rest), ClientCall(rest)
  PROVE  QueueStep
<1>0. \A r \in Requests : r[1] \in Files /\ r[2] \in Kinds /\ {r[2]} \in SUBSET Kinds
  BY DirectoryAsyncAssumption
<1>1. ASSUME NEW r \in Requests, MonitorAdd(r[1], r[2], rest) \/ CallWhenReady(r[1], r[2], rest)
      PROVE  QueueStep
  <2>1. AddToWorkQueue(r[1])
    BY <1>1 DEF MonitorAdd, CallWhenReady
  <2>2. Changed(Home[r[1]]) \in Calls(stack')
    BY <1>1, ClientStacks
  <2>3. QED
    BY <1>0, <2>1, <2>2 DEF QueueStep, FileAdded
<1>2. ASSUME NEW r \in Requests, MonitorRemove(r[1], r[2], rest) \/ CancelCallback(r[1], r[2], rest)
      PROVE  QueueStep
  BY <1>2 DEF MonitorRemove, CancelCallback, QueueStep
<1>3. ASSUME NEW r \in Requests, NotifyFilesChanged(r[1], rest)
      PROVE  QueueStep
  <2>1. AddToWorkQueue(r[1])
    BY <1>3 DEF NotifyFilesChanged
  <2>2. Changed(Home[r[1]]) \in Calls(stack')
    BY <1>3, ClientStacks
  <2>3. QED
    BY <1>0, <2>1, <2>2 DEF QueueStep, FileAdded
<1>4. ASSUME NEW r \in Requests, InvalidateAttributes(r[1], {r[2]}, rest)
      PROVE  QueueStep
  <2>1. RemoveFromWorkQueue(r[1])
    BY <1>4 DEF InvalidateAttributes
  <2>2. \E ks : Outdate(r[1], ks) \in Calls(stack')
    BY <1>0, <1>4, ClientStacks
  <2>3. QED
    BY <1>0, <2>1, <2>2, OutdatePutsBack DEF QueueStep, FileRemoved
<1>5. ASSUME NEW d \in Listed, ListMonitorAdd(d, rest) \/ ListMonitorRemove(d, rest) \/ ForceReload(d, rest)
      PROVE  QueueStep
  BY <1>5 DEF ListMonitorAdd, ListMonitorRemove, ForceReload, QueueStep
<1>6. QED
  BY <1>1, <1>2, <1>3, <1>4, <1>5, Zenon DEF ClientCall

LEMMA QueueSteps ==
  ASSUME TypeOK, Homed, Shape(stack), Next, \A level \in Levels : ~FinishHead(level)
  PROVE  QueueStep
<1>0. stack \in Seq(Frames)
  BY DEF TypeOK
<1>1. CASE MainLoop
  <2>1. CASE Request
    BY <2>1, ReadyAtRest, ClientQueue DEF Request
  <2>2. ASSUME NEW e \in Directories, NEW l \in Kinds, Answer(e, l) \/ AnswerCancelled(e, l)
        PROVE  QueueStep
    BY <2>2 DEF Answer, AnswerCancelled, QueueStep
  <2>3. ASSUME NEW e \in Directories, DeepCountProgress(e) \/ LoadDone(e) \/ CallReadyCallbacks(e)
        PROVE  QueueStep
    BY <2>3 DEF DeepCountProgress, LoadDone, CallReadyCallbacks, QueueStep
  <2>4. QED
    BY <1>1, <2>1, <2>2, <2>3 DEF MainLoop
<1>2. CASE Handle
  <2>1. stack # << >> /\ Top.op = "signal"
    BY <1>2 DEF Handle, Pending
  <2>2. Ready(Below)
    BY <1>0, <2>1, Pops
  <2>3. CASE ClientCall(Below)
    BY <2>2, <2>3, ClientQueue
  <2>4. QED
    BY <1>2, <2>3 DEF Handle, QueueStep
<1>3. CASE \/ CallOne \/ CallNoMore \/ End \/ AnnounceLoaded
           \/ UnloadDirectory \/ EndDirectoryLoad \/ ForgetFileList
           \/ StateChanged \/ StartFileList \/ StopFileList \/ StopUnwanted \/ StopsDone
           \/ StartExtensionAtOnce \/ CallReady \/ WakeUp \/ WakeOne \/ WakeNoMore
  BY <1>3 DEF CallOne, CallNoMore, End, AnnounceLoaded,
              UnloadDirectory, EndDirectoryLoad, ForgetFileList,
              StateChanged, StartFileList, StopFileList, StopUnwanted, StopsDone,
              StartExtensionAtOnce, CallReady, WakeUp, WakeOne, WakeNoMore, QueueStep
<1>4. ASSUME NEW level \in Levels, StartJob(level) \/ Skip(level) \/ NextLevel(level)
      PROVE  QueueStep
  BY <1>4 DEF StartJob, Skip, NextLevel, QueueStep
<1>5. CASE EnqueueFile
  <2>1. stack # << >> /\ Top.op = "enqueue" /\ AddToWorkQueue(Top.file) /\ stack' = Below
    BY <1>5 DEF EnqueueFile, Pending
  <2>2. Top.file \in Files /\ Changed(Home[Top.file]) \in Calls(Below)
    BY <1>0, <2>1, TopType, Pops
  <2>3. QED
    BY <2>1, <2>2 DEF QueueStep, FileAdded
<1>6. CASE MarkOutdated
  <2>1. stack # << >> /\ Top.op = "outdate" /\ AddToWorkQueue(Top.file)
    BY <1>6 DEF MarkOutdated, Pending
  <2>2. Top.file \in Files
    BY <1>0, <2>1, TopType
  <2>3. Changed(Home[Top.file]) \in Calls(stack')
    BY <1>6, NestedStacks
  <2>4. QED
    BY <2>1, <2>2, <2>3 DEF QueueStep, FileAdded
<1>7. CASE Reloading
  <2>1. Top.dir \in Directories /\ Top.step \in 1 .. 3
    BY <1>7, ReloadStacks
  <2>2. CASE Top.step = 2
    <3>1. RemoveFromWorkQueue(Corresponding[Top.dir])
      BY <1>7, <2>2 DEF Reloading, InvalidateAttributes
    <3>2. \E ks : Outdate(Corresponding[Top.dir], ks) \in Calls(stack')
      BY <1>7, <2>2, ReloadStacks
    <3>3. Corresponding[Top.dir] \in Files
      BY <2>1, DirectoryAsyncAssumption
    <3>4. QED
      BY <3>1, <3>2, <3>3, OutdatePutsBack DEF QueueStep, FileRemoved
  <2>3. CASE Top.step # 2
    BY <1>7, <2>1, <2>3 DEF Reloading, QueueStep
  <2>4. QED
    BY <2>2, <2>3
<1>8. QED
  BY <1>1, <1>2, <1>3, <1>4, <1>5, <1>6, <1>7 DEF Next, Step

\* A call that puts a file on its queue does so.
LEMMA PutBackKept ==
  ASSUME TypeOK, Homed, Shape(stack), Step, NEW f \in Files, PutBack(stack, f)
  PROVE  PutBack(stack', f) \/ InHigh(f)'
<1>0. stack \in Seq(Frames) /\ stack # << >>
  BY TopDecides DEF TypeOK
<1>1. Calls(stack) = {Top} \cup Calls(Below) /\ Calls(Below) \subseteq Calls(stack')
  BY <1>0, Pops, StackNext
<1>2. CASE PutBack(Below, f)
  BY <1>1, <1>2 DEF PutBack
<1>3. CASE Top.op \in {"outdate", "enqueue"} /\ Top.file = f
  <2>1. AddToWorkQueue(f)
    BY <1>3, TopDecides DEF MarkOutdated, EnqueueFile
  <2>2. QED
    BY <2>1, OnHigh
<1>4. CASE /\ Top.op = "reload"
           /\ \/ \E i \in DOMAIN Listing[Top.dir] : Listing[Top.dir][i] = f
              \/ Top.step # 3 /\ f = Corresponding[Top.dir] /\ Home[f] = Top.dir
  <2>1. Reloading
    BY <1>4, TopDecides
  <2>2. Top.step \in 1 .. 3
    BY <2>1, ReloadStacks
  <2>3. \A d, step : /\ Reload(d, step).op = "reload" /\ Reload(d, step).dir = d
                     /\ Reload(d, step).step = step
    BY DEF Reload
  <2>4. CASE Top.step = 1
    <3>1. Reload(Top.dir, 2) \in Calls(stack')
      BY <2>1, <2>4, ReloadStacks
    <3>2. QED
      BY <1>4, <2>3, <2>4, <3>1 DEF PutBack
  <2>5. CASE Top.step = 2
    <3>1. /\ Reload(Top.dir, 3) \in Calls(stack')
          /\ \E ks : Outdate(Corresponding[Top.dir], ks) \in Calls(stack')
      BY <2>1, <2>5, ReloadStacks
    <3>2. CASE \E i \in DOMAIN Listing[Top.dir] : Listing[Top.dir][i] = f
      BY <2>3, <3>1, <3>2 DEF PutBack
    <3>3. CASE f = Corresponding[Top.dir]
      BY <3>1, <3>3, OutdatePutsBack
    <3>4. QED
      BY <1>4, <3>2, <3>3
  <2>6. CASE Top.step = 3
    <3>1. PICK i \in DOMAIN Listing[Top.dir] : Listing[Top.dir][i] = f
      BY <1>4, <2>6
    <3>2. Enqueueing(f) \in Calls(stack')
      BY <2>1, <2>6, <3>1, ReloadStacks
    <3>3. QED
      BY <3>2 DEF PutBack, Enqueueing
  <2>7. QED
    BY <2>2, <2>4, <2>5, <2>6
<1>5. PutBack(Below, f) \/ \/ Top.op \in {"outdate", "enqueue"} /\ Top.file = f
                           \/ /\ Top.op = "reload"
                              /\ \/ \E i \in DOMAIN Listing[Top.dir] : Listing[Top.dir][i] = f
                                 \/ Top.step # 3 /\ f = Corresponding[Top.dir] /\ Home[f] = Top.dir
  BY <1>1 DEF PutBack
<1>6. QED
  BY <1>2, <1>3, <1>4, <1>5

\* Either no directory is loaded, or what a load finds out is not asked for.
LoadsApart == Listed = {} \/ LoadFills \cap Kinds = {}
LoadlessInv == Listed = {} => listWanted = {} /\ loading = {}

\* The file whose info is being read stays on its queue: when the info is there,
\* the jobs that are read after it are tried.
InfoInv(s) ==
  \A d \in Directories, f \in Files :
    "file_info" \in Kinds /\ current[<< d, "file_info" >>] = f => InHigh(f) \/ PutBack(s, f)

LEMMA LoadlessNext ==
  ASSUME TypeOK, LoadlessInv, [Next]_vars
  PROVE  LoadlessInv'
<1>1. SUFFICES ASSUME Listed = {}, listWanted = {}, loading = {}
               PROVE  listWanted' = {} /\ loading' = {}
  BY DEF LoadlessInv
<1>2. ASSUME NEW rest, ClientCall(rest) PROVE listWanted' = {} /\ loading' = {}
  BY <1>1, <1>2 DEF ClientCall, MonitorAdd, MonitorRemove, CallWhenReady, CancelCallback,
                    InvalidateAttributes, NotifyFilesChanged, listVars
<1>3. CASE MainLoop
  BY <1>1, <1>2, <1>3 DEF MainLoop, Request, Answer, AnswerCancelled, DeepCountProgress, LoadDone,
                          CallReadyCallbacks, listVars
<1>4. CASE Handle
  BY <1>1, <1>2, <1>4 DEF Handle, listVars
<1>5. CASE \/ CallOne \/ CallNoMore \/ EnqueueFile \/ End \/ MarkOutdated \/ AnnounceLoaded
           \/ UnloadDirectory \/ EndDirectoryLoad \/ ForgetFileList \/ Reloading
           \/ StateChanged \/ StartFileList \/ StopFileList \/ StopUnwanted \/ StopsDone
           \/ StartExtensionAtOnce \/ CallReady \/ WakeUp \/ WakeOne \/ WakeNoMore
  BY <1>1, <1>5 DEF CallOne, CallNoMore, EnqueueFile, End, MarkOutdated, AnnounceLoaded,
              UnloadDirectory, EndDirectoryLoad, ForgetFileList, Reloading,
              StateChanged, StartFileList, StopFileList, StopUnwanted, StopsDone,
              StartExtensionAtOnce, CallReady, WakeUp, WakeOne, WakeNoMore, listVars
<1>6. ASSUME NEW level \in Levels, StartJob(level) \/ Skip(level) \/ FinishHead(level) \/ NextLevel(level)
      PROVE  listWanted' = {} /\ loading' = {}
  BY <1>1, <1>6 DEF StartJob, Skip, FinishHead, NextLevel, listVars
<1>7. CASE UNCHANGED vars
  BY <1>1, <1>7 DEF vars, listVars
<1>8. QED
  BY <1>3, <1>4, <1>5, <1>6, <1>7 DEF Next, Step

\* A new request puts its file on the queue.
LEMMA RequestsQueued ==
  ASSUME TypeOK, Next, NEW r \in active' \cup monitors', r \notin active \cup monitors
  PROVE  r[1] \in Files /\ AddToWorkQueue(r[1])
<1>. DEFINE Old == r \in active \cup monitors
<1>0. \A q \in Requests : q[1] \in Files
  BY DirectoryAsyncAssumption
<1>1. ASSUME NEW rest, ClientCall(rest), ~Old PROVE r[1] \in Files /\ AddToWorkQueue(r[1])
  <2>1. ASSUME NEW q \in Requests, MonitorAdd(q[1], q[2], rest) \/ CallWhenReady(q[1], q[2], rest), ~Old
        PROVE  r[1] \in Files /\ AddToWorkQueue(r[1])
    <3>1. r = << q[1], q[2] >> /\ AddToWorkQueue(q[1])
      BY <2>1 DEF MonitorAdd, CallWhenReady
    <3>2. r[1] = q[1]
      BY <3>1
    <3>3. QED
      BY <1>0, <3>1, <3>2
  <2>2. ASSUME NEW q \in Requests, MonitorRemove(q[1], q[2], rest) \/ CancelCallback(q[1], q[2], rest)
        PROVE  Old
    BY <2>2 DEF MonitorRemove, CancelCallback
  <2>3. ASSUME UNCHANGED requestVars PROVE Old
    BY <2>3 DEF requestVars
  <2>4. ASSUME NEW d \in Listed, ListMonitorAdd(d, rest) \/ ListMonitorRemove(d, rest) \/ ForceReload(d, rest)
        PROVE  Old
    BY <2>4 DEF ListMonitorAdd, ListMonitorRemove, ForceReload, requestVars
  <2>5. ASSUME NEW q \in Requests, NotifyFilesChanged(q[1], rest) PROVE Old
    BY <2>5 DEF NotifyFilesChanged, requestVars
  <2>6. QED
    BY <1>1, <2>1, <2>2, <2>3, <2>4, <2>5, Zenon DEF ClientCall
<1>2. CASE MainLoop
  <2>1. CASE Request
    BY <1>1, <2>1 DEF Request
  <2>2. ASSUME NEW d \in Directories, NEW k \in Kinds, Answer(d, k) \/ AnswerCancelled(d, k)
        PROVE  Old
    BY <2>2 DEF Answer, AnswerCancelled, requestVars
  <2>3. ASSUME NEW d \in Directories, DeepCountProgress(d) \/ LoadDone(d) \/ CallReadyCallbacks(d)
        PROVE  Old
    BY <2>3 DEF DeepCountProgress, LoadDone, CallReadyCallbacks, requestVars
  <2>4. QED
    BY <1>2, <2>1, <2>2, <2>3 DEF MainLoop
<1>3. CASE Handle
  BY <1>1, <1>3 DEF Handle, requestVars
<1>4. CASE \/ CallOne \/ CallNoMore \/ EnqueueFile \/ End \/ MarkOutdated \/ AnnounceLoaded
           \/ UnloadDirectory \/ EndDirectoryLoad \/ ForgetFileList \/ Reloading
           \/ StateChanged \/ StartFileList \/ StopFileList \/ StopUnwanted \/ StopsDone
           \/ StartExtensionAtOnce \/ CallReady \/ WakeUp \/ WakeOne \/ WakeNoMore
  BY <1>4 DEF CallOne, CallNoMore, EnqueueFile, End, MarkOutdated, AnnounceLoaded,
              UnloadDirectory, EndDirectoryLoad, ForgetFileList, Reloading,
              StateChanged, StartFileList, StopFileList, StopUnwanted, StopsDone,
              StartExtensionAtOnce, CallReady, WakeUp, WakeOne, WakeNoMore, requestVars
<1>5. ASSUME NEW level \in Levels, StartJob(level) \/ Skip(level) \/ FinishHead(level) \/ NextLevel(level)
      PROVE  Old
  BY <1>5 DEF StartJob, Skip, FinishHead, NextLevel, requestVars
<1>6. QED
  BY <1>2, <1>3, <1>4, <1>5 DEF Next, Step

\* So does what puts an attribute out of date, at once or by a pending call.
LEMMA OutdatedQueued ==
  ASSUME TypeOK, Homed, Shape(stack), Next,
         NEW f \in Files, NEW k, << f, k >> \in outdated', << f, k >> \notin outdated
  PROVE  InHigh(f)' \/ PutBack(stack', f)
<1>. DEFINE Old == << f, k >> \notin outdated'
<1>1. ASSUME NEW rest, ClientCall(rest), ~Old PROVE InHigh(f)'
  <2>1. ASSUME NEW q \in Requests, \/ MonitorAdd(q[1], q[2], rest) \/ MonitorRemove(q[1], q[2], rest)
                                   \/ CallWhenReady(q[1], q[2], rest) \/ CancelCallback(q[1], q[2], rest)
        PROVE  Old
    BY <2>1 DEF MonitorAdd, MonitorRemove, CallWhenReady, CancelCallback, attributeVars
  <2>2. ASSUME UNCHANGED attributeVars PROVE Old
    BY <2>2 DEF attributeVars
  <2>3. ASSUME NEW d \in Listed, ListMonitorAdd(d, rest) \/ ListMonitorRemove(d, rest) \/ ForceReload(d, rest)
        PROVE  Old
    BY <2>3 DEF ListMonitorAdd, ListMonitorRemove, ForceReload, attributeVars
  <2>4. ASSUME NEW q \in Requests, NotifyFilesChanged(q[1], rest), ~Old
        PROVE  InHigh(f)'
    <3>1. << f, k >> \in {q[1]} \X NotifiedKinds /\ AddToWorkQueue(q[1])
      BY <2>4 DEF NotifyFilesChanged
    <3>2. f = q[1]
      BY <3>1
    <3>3. QED
      BY <3>1, <3>2, OnHigh
  <2>5. QED
    BY <1>1, <2>1, <2>2, <2>3, <2>4, Zenon DEF ClientCall
<1>2. CASE MainLoop
  <2>1. CASE Request
    BY <1>1, <2>1 DEF Request
  <2>2. ASSUME NEW d \in Directories, NEW l \in Kinds, Answer(d, l) \/ AnswerCancelled(d, l)
        PROVE  Old
    BY <2>2 DEF Answer, AnswerCancelled, attributeVars
  <2>3. ASSUME NEW d \in Directories, DeepCountProgress(d) \/ LoadDone(d) \/ CallReadyCallbacks(d)
        PROVE  Old
    BY <2>3 DEF DeepCountProgress, LoadDone, CallReadyCallbacks, attributeVars
  <2>4. QED
    BY <1>2, <2>1, <2>2, <2>3 DEF MainLoop
<1>3. CASE Handle
  BY <1>1, <1>3 DEF Handle, attributeVars
<1>4. CASE \/ CallOne \/ CallNoMore \/ EnqueueFile \/ End \/ AnnounceLoaded
           \/ UnloadDirectory \/ EndDirectoryLoad \/ ForgetFileList
           \/ StateChanged \/ StartFileList \/ StopFileList \/ StopUnwanted \/ StopsDone
           \/ StartExtensionAtOnce \/ CallReady \/ WakeUp \/ WakeOne \/ WakeNoMore
  BY <1>4 DEF CallOne, CallNoMore, EnqueueFile, End, AnnounceLoaded,
              UnloadDirectory, EndDirectoryLoad, ForgetFileList,
              StateChanged, StartFileList, StopFileList, StopUnwanted, StopsDone,
              StartExtensionAtOnce, CallReady, WakeUp, WakeOne, WakeNoMore, attributeVars
<1>5. ASSUME NEW level \in Levels, StartJob(level) \/ Skip(level) \/ FinishHead(level) \/ NextLevel(level)
      PROVE  Old
  BY <1>5 DEF StartJob, Skip, FinishHead, NextLevel, attributeVars
<1>6. CASE MarkOutdated
  <2>1. << f, k >> \in {Top.file} \X (Top.kinds \ {"filesystem_info"}) /\ AddToWorkQueue(Top.file)
    BY <1>6 DEF MarkOutdated
  <2>2. f = Top.file
    BY <2>1
  <2>3. QED
    BY <2>1, <2>2, OnHigh
<1>7. CASE Reloading
  <2>1. Top.dir \in Directories /\ Top.step \in 1 .. 3
    BY <1>7, ReloadStacks
  <2>2. CASE Top.step = 1
    <3>1. << f, k >> \in ReloadedFiles(Top.dir) \X ReloadedKinds
      BY <1>7, <2>2 DEF Reloading
    <3>2. f \in ReloadedFiles(Top.dir)
      BY <3>1
    <3>3. /\ Reload(Top.dir, 2) \in Calls(stack') /\ Reload(Top.dir, 2).op = "reload"
          /\ Reload(Top.dir, 2).dir = Top.dir /\ Reload(Top.dir, 2).step = 2
      BY <1>7, <2>2, ReloadStacks DEF Reload
    <3>4. QED
      BY <3>2, <3>3 DEF PutBack, ReloadedFiles
  <2>3. CASE Top.step # 1
    BY <1>7, <2>1, <2>3 DEF Reloading, attributeVars
  <2>4. QED
    BY <2>2, <2>3
<1>8. QED
  BY <1>2, <1>3, <1>4, <1>5, <1>6, <1>7 DEF Next, Step

\* The file info comes only as the answer to the job that reads it.
LEMMA InfoFound ==
  ASSUME TypeOK, Next, InfoInv(stack), NEW f \in Files,
         << f, "file_info" >> \in outdated, << f, "file_info" >> \notin outdated'
  PROVE  InHigh(f)'
<1>. DEFINE Kept == << f, "file_info" >> \in outdated'
<1>1. ASSUME NEW rest, ClientCall(rest) PROVE Kept
  BY <1>1 DEF ClientCall, MonitorAdd, MonitorRemove, CallWhenReady, CancelCallback, ListMonitorAdd,
              ListMonitorRemove, ForceReload, NotifyFilesChanged, attributeVars
<1>2. CASE MainLoop
  <2>1. CASE Request
    BY <1>1, <2>1 DEF Request
  <2>2. ASSUME NEW e \in Directories, NEW l \in Kinds, Answer(e, l), ~Kept
        PROVE  InHigh(f)'
    <3>1. outdated' = outdated \ {<< current[<< e, l >>], l >>} /\ stack = << >> /\ UNCHANGED queue
      BY <2>2 DEF Answer, Rest
    <3>2. f = current[<< e, l >>] /\ l = "file_info"
      BY <2>2, <3>1
    <3>3. ~PutBack(stack, f)
      BY <3>1 DEF PutBack, Calls
    <3>4. InHigh(f)
      BY <3>2, <3>3 DEF InfoInv
    <3>5. QED
      BY <3>1, <3>4 DEF InHigh
  <2>3. ASSUME NEW e \in Directories, NEW l \in Kinds, AnswerCancelled(e, l) PROVE Kept
    BY <2>3 DEF AnswerCancelled, attributeVars
  <2>4. ASSUME NEW e \in Directories, DeepCountProgress(e) \/ LoadDone(e) \/ CallReadyCallbacks(e)
        PROVE  Kept
    BY <2>4 DEF DeepCountProgress, LoadDone, CallReadyCallbacks, attributeVars
  <2>5. QED
    BY <1>2, <2>1, <2>2, <2>3, <2>4 DEF MainLoop
<1>3. CASE Handle
  BY <1>1, <1>3 DEF Handle, attributeVars
<1>4. CASE \/ CallOne \/ CallNoMore \/ EnqueueFile \/ End
           \/ UnloadDirectory \/ EndDirectoryLoad \/ ForgetFileList
           \/ StateChanged \/ StartFileList \/ StopFileList \/ StopUnwanted \/ StopsDone
           \/ CallReady \/ WakeUp \/ WakeOne \/ WakeNoMore
  BY <1>4 DEF CallOne, CallNoMore, EnqueueFile, End,
              UnloadDirectory, EndDirectoryLoad, ForgetFileList,
              StateChanged, StartFileList, StopFileList, StopUnwanted, StopsDone,
              CallReady, WakeUp, WakeOne, WakeNoMore, attributeVars
<1>5. ASSUME NEW level \in Levels, StartJob(level) \/ FinishHead(level) \/ NextLevel(level)
      PROVE  Kept
  BY <1>5 DEF StartJob, FinishHead, NextLevel, attributeVars
<1>6. CASE MarkOutdated
  BY <1>6 DEF MarkOutdated
<1>7. CASE Reloading
  BY <1>7 DEF Reloading, attributeVars
<1>8. ASSUME NEW level \in Levels, Skip(level) PROVE Kept
  <2>1. \E l \in Kinds : /\ << FileTried(level), l >> \in AtOnce
                         /\ outdated' = outdated \ {<< FileTried(level), l >>}
    BY <1>8 DEF Skip, NextJob
  <2>2. JobOf["file_info"].skips = "never"
    BY DEF JobOf, FileInfoJob
  <2>3. \A g : << g, "file_info" >> \notin AtOnce
    <3>1. ASSUME NEW g, << g, "file_info" >> \in AtOnce PROVE FALSE
      <4>. DEFINE r == << g, "file_info" >>
      <4>1. r[2] = "file_info"
        OBVIOUS
      <4>2. JobOf[r[2]].skips # "never"
        BY <3>1, DirectoryAsyncAssumption
      <4>3. QED
        BY <2>2, <4>1, <4>2
    <3>2. QED
      BY <3>1
  <2>4. QED
    BY <2>1, <2>3
<1>9. CASE StartExtensionAtOnce
  BY <1>9 DEF StartExtensionAtOnce
<1>10. CASE AnnounceLoaded
  BY <1>10 DEF AnnounceLoaded, LoadFills, attributeVars
<1>11. QED
  BY <1>2, <1>3, <1>4, <1>5, <1>6, <1>7, <1>8, <1>9, <1>10 DEF Next, Step

\* Only a load that ends takes its mark off the directory's file.
LEMMA MarksStay ==
  ASSUME Next, loading = {}
  PROVE  loadingFlag \subseteq loadingFlag'
<1>1. ASSUME NEW rest, ClientCall(rest) PROVE UNCHANGED listVars
  BY <1>1 DEF ClientCall, MonitorAdd, MonitorRemove, CallWhenReady, CancelCallback, ListMonitorAdd,
              ListMonitorRemove, ForceReload, InvalidateAttributes, NotifyFilesChanged
<1>2. CASE MainLoop
  BY <1>1, <1>2 DEF MainLoop, Request, Answer, AnswerCancelled, DeepCountProgress, LoadDone,
                    CallReadyCallbacks, listVars
<1>3. CASE Handle
  BY <1>1, <1>3 DEF Handle, listVars
<1>4. CASE \/ CallOne \/ CallNoMore \/ EnqueueFile \/ End \/ MarkOutdated \/ AnnounceLoaded
           \/ UnloadDirectory \/ EndDirectoryLoad \/ ForgetFileList \/ Reloading
           \/ StateChanged \/ StartFileList \/ StopFileList \/ StopUnwanted \/ StopsDone
           \/ StartExtensionAtOnce \/ CallReady \/ WakeUp \/ WakeOne \/ WakeNoMore
  BY <1>4 DEF CallOne, CallNoMore, EnqueueFile, End, MarkOutdated, AnnounceLoaded,
              UnloadDirectory, EndDirectoryLoad, ForgetFileList, Reloading,
              StateChanged, StartFileList, StopFileList, StopUnwanted, StopsDone,
              StartExtensionAtOnce, CallReady, WakeUp, WakeOne, WakeNoMore, listVars
<1>5. ASSUME NEW level \in Levels, StartJob(level) \/ Skip(level) \/ FinishHead(level) \/ NextLevel(level)
      PROVE  loadingFlag' = loadingFlag
  BY <1>5 DEF StartJob, Skip, FinishHead, NextLevel, listVars
<1>6. QED
  BY <1>2, <1>3, <1>4, <1>5 DEF Next, Step

\* A need that arises puts its file on the queue.
LEMMA NeedyWhy ==
  ASSUME LoadsApart, TypeOK, Homed, Shape(stack), LoadlessInv, InfoInv(stack), Next,
         NEW f \in Files, NEW k \in Kinds, ~Needy(f, k), Needy(f, k)'
  PROVE  InHigh(f)' \/ PutBack(stack', f)
<1>1. /\ << f, k >> \in outdated' /\ (k \in NeedsInfo => << f, "file_info" >> \notin outdated')
      /\ k \in LoadFills => f \notin loadingFlag'
      /\ \E r \in active' \cup monitors' : r[1] = f /\ k \in RequestKinds(r[2])
  BY DEF Needy, Lacks, Asks
<1>2. CASE << f, k >> \notin outdated
  BY <1>1, <1>2, OutdatedQueued
<1>3. CASE k \in NeedsInfo /\ << f, "file_info" >> \in outdated
  BY <1>1, <1>3, InfoFound
<1>4. CASE k \in LoadFills /\ f \in loadingFlag
  <2>1. loading = {}
    BY <1>4 DEF LoadsApart, LoadlessInv
  <2>2. QED
    BY <1>1, <1>4, <2>1, MarksStay
<1>5. CASE \A r \in active \cup monitors : ~(r[1] = f /\ k \in RequestKinds(r[2]))
  <2>1. PICK r \in active' \cup monitors' : r[1] = f /\ k \in RequestKinds(r[2])
    BY <1>1
  <2>2. r \notin active \cup monitors
    BY <1>5, <2>1
  <2>3. AddToWorkQueue(f)
    BY <2>1, <2>2, RequestsQueued
  <2>4. QED
    BY <2>3, OnHigh
<1>6. QED
  BY <1>2, <1>3, <1>4, <1>5 DEF Needy, Lacks, Asks

\* The queues a pass has emptied before it comes to a level, and the jobs of the
\* level that it has tried for the head of its queue and found nothing to do.
PassInv ==
  Pending("service") /\ Top.at \in Levels /\ Top.io = NoFile =>
    /\ Top.i \in Nat \ {0}
    /\ \A level \in Reaches[Top.at] \ {Top.at} : queue[Top.dir][level] = << >>
    /\ \A j \in DOMAIN StartOrder[Top.at] :
         j < Top.i /\ StartOrder[Top.at][j] \in Kinds =>
           /\ queue[Top.dir][Top.at] # << >>
           /\ ~Running(Top.dir, StartOrder[Top.at][j])
           /\ ~Needy(Head(queue[Top.dir][Top.at]), StartOrder[Top.at][j])

LEMMA StartPlaces ==
  /\ \A level \in Levels : \E n \in Nat : DOMAIN StartOrder[level] = 1 .. n
  /\ \A k \in Kinds : LevelOf(k) \in Levels /\ \E j \in DOMAIN StartOrder[LevelOf(k)] : StartOrder[LevelOf(k)][j] = k
<1>1. /\ DOMAIN StartOrder["high"] = 1 .. 2 /\ DOMAIN StartOrder["low"] = 1 .. 7
      /\ DOMAIN StartOrder["extension"] = 1 .. 1
  BY DEF StartOrder
<1>2. \A level \in Levels : \E n \in Nat : DOMAIN StartOrder[level] = 1 .. n
  BY <1>1, LevelsAre
<1>3. AllKinds = {"file_info", "directory_count", "deep_count", "mime_list",
                  "top_left", "link_info", "extension_info", "mount", "thumbnail", "filesystem_info"}
  BY DEF AllKinds, StopOrder
<1>4. /\ StartOrder["high"][1] = "file_info" /\ StartOrder["high"][2] = "link_info"
      /\ StartOrder["low"][1] = "mount" /\ StartOrder["low"][2] = "directory_count"
      /\ StartOrder["low"][3] = "deep_count" /\ StartOrder["low"][4] = "mime_list"
      /\ StartOrder["low"][5] = "top_left" /\ StartOrder["low"][6] = "thumbnail"
      /\ StartOrder["low"][7] = "filesystem_info" /\ StartOrder["extension"][1] = "extension_info"
  BY DEF StartOrder
<1>5. ASSUME NEW k \in AllKinds
      PROVE  \E level \in Levels : \E j \in DOMAIN StartOrder[level] : StartOrder[level][j] = k
  BY <1>1, <1>3, <1>4, LevelsAre
<1>6. ASSUME NEW k \in Kinds
      PROVE  LevelOf(k) \in Levels /\ \E j \in DOMAIN StartOrder[LevelOf(k)] : StartOrder[LevelOf(k)][j] = k
  <2>1. k \in AllKinds
    BY DirectoryAsyncAssumption
  <2>2. \E level \in Levels : \E j \in DOMAIN StartOrder[level] : StartOrder[level][j] = k
    BY <1>5, <2>1
  <2>3. QED
    BY <2>2 DEF LevelOf
<1>7. QED
  BY <1>2, <1>6

\* The head of a queue is moved on when none of the jobs of the level is due.
LEMMA HeadDone ==
  ASSUME TypeOK, PassInv, NEW level \in Levels, FinishHead(level), Top.io = NoFile,
         NEW k \in Kinds, LevelOf(k) = level
  PROVE  ~Running(Top.dir, k) /\ ~Needy(Head(queue[Top.dir][level]), k)
<1>1. /\ Pending("service") /\ Top.at = level /\ NextJob(StartOrder[level], Top.i) = {}
  BY DEF FinishHead, AtPhase
<1>2. PICK n \in Nat : DOMAIN StartOrder[level] = 1 .. n
  BY StartPlaces
<1>3. PICK p \in 1 .. n : StartOrder[level][p] = k
  BY <1>2, StartPlaces
<1>4. Top.i \in Nat \ {0}
  BY <1>1 DEF PassInv
<1>5. p < Top.i
  <2>1. ASSUME p >= Top.i PROVE FALSE
    <3>1. p \in Top.i .. n
      BY <1>4, <2>1
    <3>2. QED
      BY <1>1, <1>2, <1>3, <1>4, <3>1, NextExists
  <2>2. QED
    BY <1>4, <2>1
<1>6. QED
  BY <1>1, <1>2, <1>3, <1>5 DEF PassInv

LEMMA Heads ==
  ASSUME NEW s \in Seq(Frames), NEW u \in Frames, NEW v \in Frames, NEW w \in Frames
  PROVE  /\ << u >> \o s # << >> /\ Head(<< u >> \o s) = u
         /\ << u, v >> \o s # << >> /\ Head(<< u, v >> \o s) = u
         /\ << u, v, w >> \o s # << >> /\ Head(<< u, v, w >> \o s) = u
OBVIOUS

\* What a move of the head leaves on the queues.
LEMMA HeadMoved ==
  ASSUME TypeOK, Homed, Shape(stack), PassInv, NEW level \in Levels, FinishHead(level), Top.io = NoFile
  PROVE  LET d == Top.dir
             g == Head(queue[d][level])
         IN  /\ d \in Directories /\ g \in Files /\ Home[g] = d
             /\ \A e \in Directories, l \in Levels :
                  (e # d \/ (l # level /\ << level, l >> \notin {<< "high", "low" >>, << "low", "extension" >>}))
                    => queue'[e][l] = queue[e][l]
             /\ queue'[d][level] = Dequeue(queue[d][level], g)
             /\ level = "high" => queue'[d]["low"] = Enqueue(queue[d]["low"], g)
             /\ level = "low" => queue'[d]["extension"] = Enqueue(queue[d]["extension"], g)
             /\ level = "low" => queue[d]["high"] = << >>
             /\ level = "extension" => queue[d]["high"] = << >> /\ queue[d]["low"] = << >>
<1>. DEFINE d == Top.dir
            g == FileTried(level)
<1>1. AtPhase(level) /\ HasFile(level) /\ Top.at = level /\ Pending("service")
  BY DEF FinishHead, AtPhase
<1>2. g \in Files /\ Home[g] = d /\ d \in Directories /\ g = Head(queue[d][level])
  BY <1>1, FileTriedHome DEF FileTried
<1>3. queue' = [queue EXCEPT ![d] =
                      [l \in Levels |->
                         CASE l = level -> Dequeue(queue[d][l], g)
                           [] << level, l >> \in {<< "high", "low" >>, << "low", "extension" >>}
                                -> Enqueue(queue[d][l], g)
                           [] OTHER ->
                                IF level = "extension" THEN Dequeue(queue[d][l], g) ELSE queue[d][l]]]
  BY DEF FinishHead
<1>. HIDE DEF g, d
<1>4. queue \in [Directories -> [Levels -> Seq(Files)]]
  BY DEF TypeOK
<1>5. /\ level = "low" => queue[d]["high"] = << >>
      /\ level = "extension" => queue[d]["high"] = << >> /\ queue[d]["low"] = << >>
  <2>1. \A l \in Reaches[level] \ {level} : queue[d][l] = << >>
    BY <1>1 DEF PassInv, d
  <2>2. /\ level = "low" => "high" \in Reaches[level] \ {level}
        /\ level = "extension" => {"high", "low"} \subseteq Reaches[level] \ {level}
    BY LevelsAre DEF Reaches
  <2>3. QED
    BY <2>1, <2>2
<1>6. \A e \in Directories : e # d => queue'[e] = queue[e]
  BY <1>3, <1>4
<1>7. queue'[d] = [l \in Levels |->
                         CASE l = level -> Dequeue(queue[d][l], g)
                           [] << level, l >> \in {<< "high", "low" >>, << "low", "extension" >>}
                                -> Enqueue(queue[d][l], g)
                           [] OTHER ->
                                IF level = "extension" THEN Dequeue(queue[d][l], g) ELSE queue[d][l]]
  BY <1>2, <1>3, <1>4
<1>8. queue'[d][level] = Dequeue(queue[d][level], g)
  BY <1>7
<1>9. /\ level = "high" => queue'[d]["low"] = Enqueue(queue[d]["low"], g)
      /\ level = "low" => queue'[d]["extension"] = Enqueue(queue[d]["extension"], g)
  BY <1>7, LevelsAre
<1>10. ASSUME NEW l \in Levels, l # level, << level, l >> \notin {<< "high", "low" >>, << "low", "extension" >>}
       PROVE  queue'[d][l] = queue[d][l]
  <2>1. queue'[d][l] = IF level = "extension" THEN Dequeue(queue[d][l], g) ELSE queue[d][l]
    BY <1>7, <1>10
  <2>2. CASE level = "extension"
    <3>1. queue[d][l] = << >>
      BY <1>5, <1>10, <2>2, LevelsAre
    <3>2. Dequeue(<< >>, g) = << >>
      BY DEF Dequeue, InQueue
    <3>3. QED
      BY <2>1, <3>1, <3>2
  <2>3. QED
    BY <2>1, <2>2
<1>11. QED
  BY <1>2, <1>5, <1>6, <1>8, <1>9, <1>10 DEF d

\* No pass on top that is between the files of a level.
Apart(s) == s # << >> /\ Head(s).op = "service" => ~(Head(s).at \in Levels /\ Head(s).io = NoFile)

LEMMA ApartIs ==
  /\ \A s : Ready(s) => Apart(s)
  /\ Apart(stack') => PassInv'
<1>1. ASSUME NEW s, Ready(s) PROVE Apart(s)
  <2>1. s # << >> => Interrupted(Head(s))
    BY <1>1 DEF Ready
  <2>2. "stop" \notin Levels
    BY LevelsAre
  <2>3. QED
    BY <2>1, <2>2 DEF Interrupted, Apart
<1>2. Apart(stack') => PassInv'
  BY DEF Apart, PassInv, Pending, Top
<1>3. QED
  BY <1>1, <1>2

LEMMA ServiceHead ==
  ASSUME TypeOK, Pending("service"), NEW at \in Phases, NEW i \in Nat, NEW io \in Files \cup {NoFile},
         GoTo(at, i, io)
  PROVE  /\ stack' # << >> /\ Top' = ServiceAt(Top.dir, at, i, io)
         /\ Top'.op = "service" /\ Top'.dir = Top.dir /\ Top'.at = at /\ Top'.i = i /\ Top'.io = io
<1>. DEFINE x == ServiceAt(Top.dir, at, i, io)
<1>1. stack \in Seq(Frames) /\ stack # << >> /\ Top.op = "service"
  BY DEF TypeOK, Pending
<1>2. Top.dir \in Directories /\ Below \in Seq(Frames)
  BY <1>1, TopType
<1>3. x \in Frames
  BY <1>2, FramesType
<1>4. x.op = "service" /\ x.dir = Top.dir /\ x.at = at /\ x.i = i /\ x.io = io
  BY DEF ServiceAt
<1>5. stack' = << x >> \o Below
  BY DEF GoTo
<1>. HIDE DEF x
<1>6. stack' # << >> /\ Top' = x
  BY <1>2, <1>3, <1>5, Heads DEF Top
<1>7. QED
  BY <1>4, <1>6 DEF x

\* What an empty queue has been through holds along the pass.
LEMMA PassNext ==
  ASSUME TypeOK, BaseInv, PassInv, [Next]_vars
  PROVE  PassInv'
<1>0. Homed /\ Shape(stack) /\ stack \in Seq(Frames) /\ queue \in [Directories -> [Levels -> Seq(Files)]]
  BY DEF BaseInv, TypeOK
<1>1. CASE UNCHANGED vars
  <2>1. UNCHANGED << stack, current, queue, outdated, loadingFlag, active, monitors >>
    BY <1>1 DEF vars, jobVars, attributeVars, requestVars, listVars
  <2>2. QED
    BY <2>1 DEF PassInv, Pending, Top, Running, Needy, Lacks, Asks
<1>2. CASE MainLoop
  BY <1>2, EventsStack, ApartIs
<1>3. CASE Handle
  <2>1. stack # << >> /\ Top.op = "signal"
    BY <1>3 DEF Handle, Pending
  <2>2. Ready(Below)
    BY <1>0, <2>1, Pops
  <2>3. Ready(stack')
    BY <1>3, <2>2, ClientCallStack DEF Handle
  <2>4. QED
    BY <2>3, ApartIs
<1>4. CASE \/ CallOne \/ CallNoMore \/ EnqueueFile \/ End \/ MarkOutdated \/ AnnounceLoaded
           \/ UnloadDirectory \/ EndDirectoryLoad \/ ForgetFileList \/ WakeUp \/ WakeOne \/ WakeNoMore
  <2>1. Ready(stack')
    BY <1>0, <1>4, NestedStacks
  <2>2. QED
    BY <2>1, ApartIs
<1>5. CASE Reloading
  BY <1>0, <1>5, ReloadStacks, ApartIs
<1>6. ASSUME NEW at \in {"list", "stop", "ready"}, NEW i \in Nat, NEW io \in Files \cup {NoFile},
             Pending("service"), GoTo(at, i, io)
      PROVE  PassInv'
  <2>1. at \in Phases /\ at \notin Levels
    BY LevelsAre DEF Phases
  <2>2. Apart(stack')
    BY <1>6, <2>1, ServiceHead DEF Apart, Top
  <2>3. QED
    BY <2>2, ApartIs
<1>7. CASE StateChanged
  <2>1. stack # << >> /\ Top.op = "changed" /\ Top.dir \in Directories
    BY <1>0, <1>7, ServiceStacks
  <2>2. CASE stack' = Below
    BY <1>0, <2>1, <2>2, Pops, ApartIs
  <2>3. CASE GoTo("list", 1, NoFile)
    <3>. DEFINE x == ServiceAt(Top.dir, "list", 1, NoFile)
    <3>1. stack' = << x >> \o Below /\ Below \in Seq(Frames)
      BY <1>0, <2>1, <2>3, TopType DEF GoTo
    <3>2. x.op = "service" /\ x.at = "list"
      BY DEF ServiceAt
    <3>3. x \in Frames
      <4>1. \A at \in Phases, i \in Nat : ServiceAt(Top.dir, at, i, NoFile) \in Frames
        BY <2>1, FramesType
      <4>2. "list" \in Phases /\ 1 \in Nat
        BY DEF Phases
      <4>3. QED
        BY <4>1, <4>2
    <3>. HIDE DEF x
    <3>4. Apart(stack')
      BY <3>1, <3>2, <3>3, Heads, LevelsAre DEF Apart
    <3>5. QED
      BY <3>4, ApartIs
  <2>4. QED
    BY <1>7, <2>2, <2>3 DEF StateChanged
<1>8. 1 \in Nat /\ NoFile \in Files \cup {NoFile} /\ \A i \in DOMAIN StopOrder : i + 1 \in Nat
  BY StopPlaces
<1>9. CASE StartFileList \/ StopUnwanted
  <2>1. Pending("service") /\ \E i \in Nat : GoTo("stop", i, NoFile)
    BY <1>8, <1>9 DEF StartFileList, StopUnwanted, NextJob, AtPhase
  <2>2. QED
    BY <1>6, <1>8, <2>1
<1>10. CASE StopFileList
  <2>. DEFINE x == ServiceAt(Top.dir, "stop", 1, NoFile)
              u == Unload(Top.dir)
              v == Unlist(Top.dir)
  <2>1. stack # << >> /\ Top.op = "service" /\ (stack' = << x >> \o Below \/ stack' = << u, v >> \o (<< x >> \o Below))
    BY <1>10 DEF StopFileList, AtPhase, Pending
  <2>2. Top.dir \in Directories /\ Below \in Seq(Frames)
    BY <1>0, <2>1, TopType
  <2>3. CASE stack' = << x >> \o Below
    BY <1>6, <1>8, <2>1, <2>3 DEF GoTo, Pending
  <2>4. CASE stack' = << u, v >> \o (<< x >> \o Below)
    <3>1. u \in Frames /\ v \in Frames /\ u.op = "unload"
      BY <2>2, FramesType DEF Unload
    <3>2. x \in Frames
      <4>1. \A at \in Phases, i \in Nat : ServiceAt(Top.dir, at, i, NoFile) \in Frames
        BY <2>2, FramesType
      <4>2. "stop" \in Phases
        BY DEF Phases
      <4>3. QED
        BY <1>8, <4>1, <4>2
    <3>. HIDE DEF x, u, v
    <3>3. << x >> \o Below \in Seq(Frames)
      BY <2>2, <3>2
    <3>4. Head(stack') = u
      BY <2>4, <3>1, <3>3, Heads
    <3>5. Apart(stack')
      BY <3>1, <3>4 DEF Apart
    <3>6. QED
      BY <3>5, ApartIs
  <2>5. QED
    BY <2>1, <2>3, <2>4
<1>11. CASE StopsDone
  <2>1. Pending("service") /\ GoTo("high", 1, NoFile) /\ "high" \in Phases
    BY <1>11, LevelsAre DEF StopsDone, AtPhase, Phases
  <2>2. Top'.at = "high" /\ Top'.i = 1
    BY <1>8, <2>1, ServiceHead
  <2>3. Reaches["high"] \ {"high"} = {} /\ DOMAIN StartOrder["high"] = 1 .. 2
    BY DEF Reaches, StartOrder
  <2>4. \A j \in 1 .. 2 : ~(j < 1)
    OBVIOUS
  <2>5. QED
    BY <2>2, <2>3, <2>4 DEF PassInv
<1>12. CASE CallReady
  <2>1. Pending("service") /\ (GoTo("list", 1, NoFile) \/ stack' = << Wake >> \o Below)
    BY <1>12 DEF CallReady, AtPhase
  <2>2. CASE stack' = << Wake >> \o Below
    <3>1. Below \in Seq(Frames) /\ Wake \in Frames /\ Wake.op = "wake"
      BY <1>0, <2>1, TopType, FramesType DEF Pending, Wake
    <3>2. Head(stack') = Wake
      BY <2>2, <3>1, Heads
    <3>3. Apart(stack')
      BY <3>1, <3>2 DEF Apart
    <3>4. QED
      BY <3>3, ApartIs
  <2>3. QED
    BY <1>6, <1>8, <2>1, <2>2
<1>13. CASE StartExtensionAtOnce
  <2>. DEFINE x == ServiceAt(Top.dir, "extension", 2, Head(queue[Top.dir].extension))
              y == EndJob(Top.dir, "extension_info")
  <2>1. /\ stack' = << Signal, y, x >> \o Below /\ AtPhase("extension") /\ "extension_info" \in Kinds
        /\ Head(queue[Top.dir].extension) \in Files
    BY <1>0, <1>13, ExtensionStack DEF StartExtensionAtOnce
  <2>2. Top.dir \in Directories /\ Below \in Seq(Frames)
    BY <1>0, <2>1, TopType DEF AtPhase, Pending
  <2>3. Signal \in Frames /\ y \in Frames /\ Signal.op = "signal"
    BY <2>1, <2>2, FramesType DEF Signal
  <2>4. x \in Frames
    <3>1. \A at \in Phases, i \in Nat, f \in Files : ServiceAt(Top.dir, at, i, f) \in Frames
      BY <2>2, FramesType
    <3>2. "extension" \in Phases /\ 2 \in Nat
      BY LevelsAre DEF Phases
    <3>3. QED
      BY <2>1, <3>1, <3>2
  <2>. HIDE DEF x, y
  <2>5. Head(stack') = Signal
    BY <2>1, <2>2, <2>3, <2>4, Heads
  <2>6. Apart(stack')
    BY <2>3, <2>5 DEF Apart
  <2>7. QED
    BY <2>6, ApartIs
<1>14. ASSUME NEW level \in Levels PROVE level \in Phases /\ \A j \in DOMAIN StartOrder[level] : j \in Nat /\ j + 1 \in Nat \ {0}
  BY StartPlaces DEF Phases
<1>15. ASSUME NEW level \in Levels, Skip(level) PROVE PassInv'
  <2>1. AtPhase(level) /\ HasFile(level)
    BY <1>15 DEF Skip
  <2>2. FileTried(level) \in Files /\ Top.dir \in Directories /\ FileTried(level) # NoFile
    BY <1>0, <2>1, FileTriedHome, DirectoryAsyncAssumption
  <2>3. PICK j \in DOMAIN StartOrder[level] :
          LET x == ServiceAt(Top.dir, level, j + 1, FileTried(level))
          IN  stack' = << x >> \o Below \/ stack' = << Signal, x >> \o Below
    BY <1>15 DEF Skip, NextJob
  <2>. DEFINE x == ServiceAt(Top.dir, level, j + 1, FileTried(level))
  <2>4. x \in Frames /\ Signal \in Frames /\ Signal.op = "signal"
    BY <1>14, <2>2, FramesType DEF Signal
  <2>5. x.io # NoFile
    BY <2>2 DEF ServiceAt
  <2>6. Below \in Seq(Frames)
    BY <1>0, <2>1, TopType DEF AtPhase, Pending
  <2>. HIDE DEF x
  <2>7. Head(stack') \in {x, Signal}
    BY <2>3, <2>4, <2>6, Heads DEF x
  <2>8. Apart(stack')
    BY <2>4, <2>5, <2>7 DEF Apart
  <2>9. QED
    BY <2>8, ApartIs
<1>16. ASSUME NEW level \in Levels, StartJob(level) PROVE PassInv'
  <2>1. AtPhase(level) /\ HasFile(level) /\ Pending("service") /\ Top.at = level
    BY <1>16 DEF StartJob, AtPhase
  <2>2. FileTried(level) \in Files /\ Top.dir \in Directories /\ FileTried(level) # NoFile
    BY <1>0, <2>1, FileTriedHome, DirectoryAsyncAssumption
  <2>3. PICK j \in NextJob(StartOrder[level], Top.i) :
          LET k == StartOrder[level][j]
              f == FileTried(level)
          IN  /\ GoTo(level, j + 1, IF Top.io # NoFile \/ Running(Top.dir, k) \/ Needy(f, k) THEN f ELSE NoFile)
              /\ (~Running(Top.dir, k) /\ Needy(f, k)) \/ UNCHANGED << slotVars, jobVars >>
    BY <1>16, Zenon DEF StartJob
  <2>. DEFINE k == StartOrder[level][j]
              f == FileTried(level)
              io == IF Top.io # NoFile \/ Running(Top.dir, k) \/ Needy(f, k) THEN f ELSE NoFile
  <2>4. UNCHANGED << queue, outdated, active, monitors, loadingFlag >>
    BY <1>16 DEF StartJob, attributeVars, requestVars, listVars
  <2>5. j \in DOMAIN StartOrder[level] /\ j \in Nat /\ j + 1 \in Nat \ {0} /\ level \in Phases
        /\ j >= Top.i /\ \A m \in Top.i .. j - 1 : StartOrder[level][m] \notin Kinds
    BY <1>14 DEF NextJob
  <2>6. io \in Files \cup {NoFile} /\ GoTo(level, j + 1, io)
    BY <2>2, <2>3
  <2>. HIDE DEF io
  <2>7. /\ Top'.dir = Top.dir /\ Top'.at = level /\ Top'.i = j + 1 /\ Top'.io = io /\ Top'.op = "service"
    BY <2>1, <2>5, <2>6, ServiceHead
  <2>8. CASE io # NoFile
    BY <2>7, <2>8 DEF PassInv
  <2>9. CASE io = NoFile
    <3>1. Top.io = NoFile /\ ~Running(Top.dir, k) /\ ~Needy(f, k)
      BY <2>2, <2>9 DEF io
    <3>2. f = Head(queue[Top.dir][level]) /\ queue[Top.dir][level] # << >>
      BY <2>1, <3>1 DEF FileTried, HasFile
    <3>3. UNCHANGED current
      BY <2>3, <3>1 DEF jobVars
    <3>4. /\ \A l \in Reaches[level] \ {level} : queue[Top.dir][l] = << >>
          /\ \A m \in DOMAIN StartOrder[level] :
               m < Top.i /\ StartOrder[level][m] \in Kinds =>
                 /\ ~Running(Top.dir, StartOrder[level][m])
                 /\ ~Needy(Head(queue[Top.dir][level]), StartOrder[level][m])
          /\ Top.i \in Nat
      BY <2>1, <3>1 DEF PassInv
    <3>5. ASSUME NEW m \in DOMAIN StartOrder[level], m < j + 1, StartOrder[level][m] \in Kinds
          PROVE  /\ ~Running(Top.dir, StartOrder[level][m])
                 /\ ~Needy(Head(queue[Top.dir][level]), StartOrder[level][m])
      <4>1. m \in Nat
        BY <1>14
      <4>2. CASE m < Top.i
        BY <3>4, <3>5, <4>2
      <4>3. CASE m = j
        BY <3>1, <3>2, <4>3
      <4>4. CASE m \in Top.i .. j - 1
        BY <2>5, <3>5, <4>4
      <4>5. QED
        BY <2>5, <3>4, <3>5, <4>1, <4>2, <4>3, <4>4
    <3>. HIDE DEF f, k
    <3>6. PICK d \in Directories, g \in Files : d = Top.dir /\ g = Head(queue[d][level])
      BY <2>2, <3>2 DEF f
    <3>7. ASSUME NEW m \in DOMAIN StartOrder[level], m < j + 1, StartOrder[level][m] \in Kinds
          PROVE  current'[<< d, StartOrder[level][m] >>] = NoFile /\ ~Needy(g, StartOrder[level][m])'
      <4>1. \A l : Needy(g, l)' <=> Needy(g, l)
        BY <2>4 DEF Needy, Lacks, Asks
      <4>2. QED
        BY <3>3, <3>5, <3>6, <3>7, <4>1 DEF Running
    <3>8. /\ Top'.dir = d /\ g = Head(queue'[d][level]) /\ queue'[d][level] # << >>
          /\ \A l \in Reaches[level] \ {level} : queue'[d][l] = << >>
      BY <2>4, <2>7, <3>2, <3>4, <3>6
    <3>9. QED
      BY <2>5, <2>7, <3>7, <3>8 DEF PassInv, Running
  <2>10. QED
    BY <2>8, <2>9
<1>17. ASSUME NEW level \in Levels, FinishHead(level) PROVE PassInv'
  <2>1. Pending("service") /\ Top.at = level
    BY <1>17 DEF FinishHead, AtPhase
  <2>2. CASE Top.io # NoFile
    <3>1. GoTo("ready", 1, NoFile)
      BY <1>17, <2>2 DEF FinishHead
    <3>2. QED
      BY <1>6, <1>8, <2>1, <3>1
  <2>3. CASE Top.io = NoFile
    <3>1. GoTo(level, 1, NoFile)
      BY <1>17, <2>3 DEF FinishHead
    <3>2. Top'.dir = Top.dir /\ Top'.at = level /\ Top'.i = 1 /\ Top.dir \in Directories
      BY <1>0, <1>8, <1>14, <1>17, <2>1, <2>3, <3>1, ServiceHead, HeadMoved
    <3>3. ASSUME NEW l \in Reaches[level] \ {level} PROVE queue'[Top.dir][l] = << >>
      <4>1. l \in Levels /\ l # level /\ << level, l >> \notin {<< "high", "low" >>, << "low", "extension" >>}
        BY LevelsAre DEF Reaches
      <4>2. queue[Top.dir][l] = << >>
        BY <2>1, <2>3, <3>3 DEF PassInv
      <4>3. QED
        BY <1>0, <1>17, <2>3, <3>2, <4>1, <4>2, HeadMoved
    <3>4. \A j \in DOMAIN StartOrder[level] : ~(j < 1)
      BY StartPlaces
    <3>5. QED
      BY <1>8, <3>2, <3>3, <3>4 DEF PassInv
  <2>4. QED
    BY <2>2, <2>3
<1>18. ASSUME NEW level \in Levels, NextLevel(level) PROVE PassInv'
  <2>. DEFINE at == CASE level = "high" -> "low" [] level = "low" -> "extension" [] OTHER -> "ready"
  <2>1. /\ Pending("service") /\ Top.at = level /\ Top.io = NoFile /\ queue[Top.dir][level] = << >>
        /\ GoTo(at, 1, NoFile) /\ UNCHANGED queue
    BY <1>18 DEF NextLevel, AtPhase, HasFile
  <2>2. at \in Phases /\ (level = "high" => at = "low") /\ (level = "low" => at = "extension")
        /\ (level = "extension" => at = "ready")
    BY LevelsAre DEF Phases
  <2>. HIDE DEF at
  <2>3. Top'.dir = Top.dir /\ Top'.at = at /\ Top'.i = 1
    BY <1>8, <2>1, <2>2, ServiceHead
  <2>4. CASE at = "ready"
    BY <1>6, <1>8, <2>1, <2>4
  <2>5. CASE at # "ready"
    <3>1. \A l \in Reaches[level] \ {level} : queue[Top.dir][l] = << >>
      BY <2>1 DEF PassInv
    <3>2. ASSUME NEW l \in Reaches[at] \ {at} PROVE l \in Reaches[level]
      BY <2>2, <2>5, LevelsAre DEF Reaches
    <3>3. \A l \in Reaches[at] \ {at} : queue'[Top.dir][l] = << >>
      BY <2>1, <3>1, <3>2
    <3>4. at \in Levels
      BY <2>2, <2>5, LevelsAre
    <3>5. \A j \in DOMAIN StartOrder[at] : ~(j < 1)
      BY <3>4, StartPlaces
    <3>6. QED
      BY <1>8, <2>3, <3>3, <3>5 DEF PassInv
  <2>6. QED
    BY <2>4, <2>5
<1>19. QED
  BY <1>1, <1>2, <1>3, <1>4, <1>5, <1>7, <1>9, <1>10, <1>11, <1>12, <1>13, <1>15, <1>16, <1>17, <1>18 DEF Next, Step

\* A file that needs a job is on a queue from which it is tried, or comes there.
NeedsInv(s) == \A f \in Files, k \in Kinds : Needy(f, k) => Queued(f, k) \/ PutBack(s, f)

LEMMA HighQueued ==
  ASSUME NEW f \in Files, NEW k \in Kinds
  PROVE  (InHigh(f) => Queued(f, k)) /\ (InHigh(f)' => Queued(f, k)')
<1>1. "high" \in Reaches[LevelOf(k)]
  BY StartPlaces, LevelsAre DEF Reaches
<1>2. QED
  BY <1>1 DEF InHigh, Queued

LEMMA InfoPlace ==
  /\ "file_info" \in Kinds => LevelOf("file_info") = "high"
  /\ \A level \in Levels : \A j \in DOMAIN StartOrder[level] :
       StartOrder[level][j] = "file_info" => level = "high" /\ j = 1
<1>1. /\ DOMAIN StartOrder["high"] = 1 .. 2 /\ DOMAIN StartOrder["low"] = 1 .. 7
      /\ DOMAIN StartOrder["extension"] = 1 .. 1
  BY DEF StartOrder
<1>2. /\ StartOrder["high"][2] # "file_info" /\ StartOrder["extension"][1] # "file_info"
      /\ StartOrder["low"][1] # "file_info" /\ StartOrder["low"][2] # "file_info"
      /\ StartOrder["low"][3] # "file_info" /\ StartOrder["low"][4] # "file_info"
      /\ StartOrder["low"][5] # "file_info" /\ StartOrder["low"][6] # "file_info"
      /\ StartOrder["low"][7] # "file_info"
  BY DEF StartOrder
<1>3. \A level \in Levels : \A j \in DOMAIN StartOrder[level] :
        StartOrder[level][j] = "file_info" => level = "high" /\ j = 1
  BY <1>1, <1>2, LevelsAre
<1>4. "file_info" \in Kinds => LevelOf("file_info") = "high"
  BY <1>3, StartPlaces
<1>5. QED
  BY <1>3, <1>4

\* A file leaves a queue to come back, or because a pass has done with it.
LEMMA OnQueueStays ==
  ASSUME TypeOK, BaseInv, PassInv, Next, NEW f \in Files, NEW l \in Levels, InQueue(queue[Home[f]][l], f)
  PROVE  \/ InQueue(queue'[Home[f]][l], f)
         \/ PutBack(stack', f)
         \/ /\ FinishHead(l) /\ Top.io = NoFile /\ Home[f] = Top.dir
            /\ f = Head(queue[Top.dir][l])
<1>0. Homed /\ Shape(stack) /\ Home[f] \in Directories
  BY DirectoryAsyncAssumption DEF BaseInv
<1>1. CASE \A level \in Levels : ~FinishHead(level)
  <2>1. CASE UNCHANGED queue
    BY <2>1
  <2>2. CASE FileAdded
    BY <1>0, <2>2, QueueAfter DEF FileAdded
  <2>3. CASE FileRemoved
    <3>1. PICK g \in Files : RemoveFromWorkQueue(g) /\ PutBack(stack', g)
      BY <2>3 DEF FileRemoved
    <3>2. CASE g = f
      BY <3>1, <3>2
    <3>3. CASE g # f
      BY <1>0, <3>1, <3>3, QueueAfter
    <3>4. QED
      BY <3>2, <3>3
  <2>4. QED
    BY <1>0, <1>1, <2>1, <2>2, <2>3, QueueSteps DEF QueueStep
<1>2. ASSUME NEW level \in Levels, FinishHead(level)
      PROVE  \/ InQueue(queue'[Home[f]][l], f)
             \/ /\ FinishHead(l) /\ Top.io = NoFile /\ Home[f] = Top.dir
                /\ f = Head(queue[Top.dir][l])
  <2>1. CASE Top.io # NoFile
    BY <1>2, <2>1 DEF FinishHead
  <2>2. CASE Top.io = NoFile
    <3>1. PICK d \in Directories, g \in Files : d = Top.dir /\ g = Head(queue[d][level])
      BY <1>0, <1>2, <2>2, HeadMoved
    <3>2. /\ \A e \in Directories, m \in Levels :
               (e # d \/ (m # level /\ << level, m >> \notin {<< "high", "low" >>, << "low", "extension" >>}))
                 => queue'[e][m] = queue[e][m]
          /\ queue'[d][level] = Dequeue(queue[d][level], g)
          /\ level = "high" => queue'[d]["low"] = Enqueue(queue[d]["low"], g)
          /\ level = "low" => queue'[d]["extension"] = Enqueue(queue[d]["extension"], g)
      BY <1>0, <1>2, <2>2, <3>1, HeadMoved
    <3>3. queue[Home[f]][l] \in Seq(Files)
      BY <1>0 DEF TypeOK
    <3>4. /\ InQueue(Enqueue(queue[Home[f]][l], g), f)
          /\ g # f => InQueue(Dequeue(queue[Home[f]][l], g), f)
      BY <3>3, QueueMembers
    <3>5. CASE Home[f] # d \/ (l # level /\ << level, l >> \notin {<< "high", "low" >>, << "low", "extension" >>})
      BY <1>0, <3>2, <3>5
    <3>6. CASE Home[f] = d /\ l # level /\ << level, l >> \in {<< "high", "low" >>, << "low", "extension" >>}
      BY <3>2, <3>4, <3>6
    <3>7. CASE Home[f] = d /\ l = level
      BY <1>2, <2>2, <3>1, <3>2, <3>4, <3>7
    <3>8. QED
      BY <3>5, <3>6, <3>7
  <2>3. QED
    BY <2>1, <2>2
<1>3. QED
  BY <1>1, <1>2

LEMMA NeedsNext ==
  ASSUME LoadsApart, TypeOK, BaseInv, PassInv, LoadlessInv, InfoInv(stack), NeedsInv(stack), [Next]_vars
  PROVE  NeedsInv(stack)'
<1>0. Homed /\ Shape(stack)
  BY DEF BaseInv
<1>1. CASE UNCHANGED vars
  <2>1. UNCHANGED << stack, queue, outdated, loadingFlag, active, monitors >>
    BY <1>1 DEF vars, attributeVars, requestVars, listVars
  <2>2. QED
    BY <2>1 DEF NeedsInv, Needy, Lacks, Asks, Queued, PutBack
<1>2. CASE Next
  <2>1. SUFFICES ASSUME NEW f \in Files, NEW k \in Kinds, Needy(f, k)'
                 PROVE  Queued(f, k)' \/ PutBack(stack', f)
    BY DEF NeedsInv, PutBack
  <2>2. CASE ~Needy(f, k)
    BY <1>0, <1>2, <2>1, <2>2, NeedyWhy, HighQueued
  <2>3. CASE Needy(f, k) /\ PutBack(stack, f)
    <3>1. ~Rest
      BY <2>3 DEF PutBack, Rest, Calls
    <3>2. Step
      BY <1>2, <3>1 DEF Next, MainLoop, Request, Answer, AnswerCancelled, DeepCountProgress,
                        LoadDone, CallReadyCallbacks
    <3>3. QED
      BY <1>0, <2>3, <3>2, PutBackKept, HighQueued
  <2>4. CASE Needy(f, k) /\ Queued(f, k)
    <3>0. LevelOf(k) \in Levels /\ Reaches[LevelOf(k)] \subseteq Levels
      BY StartPlaces, LevelsAre DEF Reaches
    <3>1. PICK l \in Reaches[LevelOf(k)] : l \in Levels /\ InQueue(queue[Home[f]][l], f)
      BY <2>4, <3>0 DEF Queued
    <3>2. CASE InQueue(queue'[Home[f]][l], f)
      BY <3>2 DEF Queued
    <3>3. CASE FinishHead(l) /\ Top.io = NoFile /\ Home[f] = Top.dir /\ f = Head(queue[Top.dir][l])
      <4>1. LevelOf(k) # l
        BY <2>4, <3>1, <3>3, HeadDone
      <4>2. \/ l = "high" /\ "low" \in Reaches[LevelOf(k)]
            \/ l = "low" /\ "extension" \in Reaches[LevelOf(k)]
        BY <3>0, <3>1, <4>1, LevelsAre DEF Reaches
      <4>3. \E m \in Reaches[LevelOf(k)] : m \in Levels /\ queue'[Home[f]][m] = Enqueue(queue[Home[f]][m], f)
        BY <1>0, <3>1, <3>3, <4>2, HeadMoved, LevelsAre
      <4>4. \A m \in Levels : queue[Home[f]][m] \in Seq(Files)
        BY DirectoryAsyncAssumption DEF TypeOK
      <4>5. QED
        BY <4>3, <4>4, QueueMembers DEF Queued
    <3>4. QED
      BY <1>2, <3>1, <3>2, <3>3, OnQueueStays
  <2>5. QED
    BY <2>2, <2>3, <2>4 DEF NeedsInv
<1>3. QED
  BY <1>1, <1>2

LEMMA InfoNext ==
  ASSUME TypeOK, BaseInv, PassInv, InfoInv(stack), [Next]_vars
  PROVE  InfoInv(stack)'
<1>0. Homed /\ Shape(stack)
  BY DEF BaseInv
<1>1. CASE UNCHANGED vars
  <2>1. UNCHANGED << stack, queue, current >>
    BY <1>1 DEF vars, jobVars
  <2>2. QED
    BY <2>1 DEF InfoInv, InHigh, PutBack
<1>2. CASE Next
  <2>1. SUFFICES ASSUME NEW d \in Directories, NEW f \in Files, "file_info" \in Kinds,
                        current'[<< d, "file_info" >>] = f
                 PROVE  InHigh(f)' \/ PutBack(stack', f)
    BY DEF InfoInv, PutBack
  <2>2. f # NoFile /\ "high" \in Levels
    BY DirectoryAsyncAssumption, LevelsAre
  <2>3. CASE current[<< d, "file_info" >>] = f /\ PutBack(stack, f)
    <3>1. ~Rest
      BY <2>3 DEF PutBack, Rest, Calls
    <3>2. Step
      BY <1>2, <3>1 DEF Next, MainLoop, Request, Answer, AnswerCancelled, DeepCountProgress,
                        LoadDone, CallReadyCallbacks
    <3>3. QED
      BY <1>0, <2>3, <3>2, PutBackKept
  <2>4. CASE current[<< d, "file_info" >>] = f /\ InHigh(f)
    <3>1. InQueue(queue[Home[f]]["high"], f)
      BY <2>4 DEF InHigh
    <3>2. Home[f] = d /\ Running(d, "file_info")
      BY <1>0, <2>1, <2>2, <2>4 DEF Homed, Running
    <3>3. ASSUME FinishHead("high"), Top.io = NoFile, Home[f] = Top.dir PROVE FALSE
      <4>1. ~Running(Top.dir, "file_info")
        BY <2>1, <2>2, <3>3, HeadDone, InfoPlace
      <4>2. QED
        BY <3>2, <3>3, <4>1
    <3>4. InQueue(queue'[Home[f]]["high"], f) \/ PutBack(stack', f)
      BY <1>2, <2>2, <3>1, <3>3, OnQueueStays
    <3>5. QED
      BY <3>4 DEF InHigh
  <2>5. CASE current[<< d, "file_info" >>] # f
    <3>1. PICK level \in Levels : StartJob(level)
      <4>1. ASSUME \A level \in Levels : ~StartJob(level) PROVE FALSE
        <5>1. JobStays(<< d, "file_info" >>)
          BY <1>0, <1>2, <2>1, <4>1, JobsStay
        <5>2. QED
          BY <2>1, <2>2, <2>5, <5>1 DEF JobStays
      <4>2. QED
        BY <4>1
    <3>2. PICK j \in NextJob(StartOrder[level], Top.i) :
            \/ UNCHANGED jobVars
            \/ current' = [current EXCEPT ![<< Top.dir, StartOrder[level][j] >>] = FileTried(level)]
      BY <3>1, Zenon DEF StartJob
    <3>3. AtPhase(level) /\ HasFile(level) /\ UNCHANGED queue
      BY <3>1 DEF StartJob
    <3>4. current' = [current EXCEPT ![<< Top.dir, StartOrder[level][j] >>] = FileTried(level)]
      BY <2>1, <2>5, <3>2 DEF jobVars
    <3>5. << d, "file_info" >> = << Top.dir, StartOrder[level][j] >> /\ f = FileTried(level)
      BY <2>1, <2>5, <3>4 DEF TypeOK
    <3>6. level = "high" /\ j = 1 /\ d = Top.dir
      BY <3>5, InfoPlace DEF NextJob
    <3>7. stack \in Seq(Frames) /\ stack # << >> /\ Top.op = "service"
      BY <3>3 DEF TypeOK, AtPhase, Pending
    <3>8. Top.io = NoFile
      <4>1. Top.i \in Nat /\ j >= Top.i /\ IsPass(Top)
        BY <1>0, <3>7, TopType, Pops DEF NextJob
      <4>2. ~(Top.i > 1)
        BY <3>6, <4>1
      <4>3. QED
        BY <3>7, <4>1, <4>2 DEF IsPass
    <3>9. queue[d]["high"] \in Seq(Files) /\ queue[d]["high"] # << >> /\ f = Head(queue[d]["high"]) /\ Home[f] = d
      BY <1>0, <2>2, <3>3, <3>5, <3>6, <3>8, FileTriedHome DEF FileTried, HasFile, TypeOK
    <3>10. InQueue(queue[d]["high"], f)
      <4>1. \A q \in Seq(Files) : q # << >> => 1 \in DOMAIN q /\ q[1] = Head(q)
        OBVIOUS
      <4>2. QED
        BY <3>9, <4>1 DEF InQueue
    <3>11. QED
      BY <3>3, <3>9, <3>10 DEF InHigh
  <2>6. QED
    BY <2>1, <2>3, <2>4, <2>5 DEF InfoInv
<1>3. QED
  BY <1>1, <1>2

\* What brings the state machine of d back to its queues: a slot it waits for, a
\* round it is asked for, a job whose end calls it, a call of it, or the pass in
\* progress, while that has started nothing for the file it is at.
Open(c, d) ==
  c.op = "service" /\ c.dir = d /\ (c.at \in {"list", "stop"} \/ (c.at \in Levels /\ c.io = NoFile))
Served(s, d) ==
  \/ d \in waiting \cup stateChanged
  \/ \E k \in Kinds : Running(d, k)
  \/ Changed(d) \in Calls(s)
  \/ \E c \in Calls(s) : Open(c, d)

\* Files on a queue are not forgotten.
Filled(d) == \E level \in Levels : queue[d][level] # << >>
QueueInv(s) == \A d \in Directories : Filled(d) => Served(s, d)

LEMMA ServedBy ==
  ASSUME NEW d,
         \/ d \in waiting' \/ d \in stateChanged' \/ Changed(d) \in Calls(stack')
         \/ \E k \in Kinds : current'[<< d, k >>] # NoFile
         \/ \E i, io : \/ ServiceAt(d, "list", i, io) \in Calls(stack')
                       \/ ServiceAt(d, "stop", i, io) \in Calls(stack')
         \/ \E level \in Levels : \E i : ServiceAt(d, level, i, NoFile) \in Calls(stack')
  PROVE  Served(stack, d)'
<1>1. /\ \A i, io : Open(ServiceAt(d, "list", i, io), d) /\ Open(ServiceAt(d, "stop", i, io), d)
      /\ \A level \in Levels : \A i : Open(ServiceAt(d, level, i, NoFile), d)
  BY DEF Open, ServiceAt
<1>2. QED
  BY <1>1 DEF Served, Running

\* A queue that was empty is filled only with a call of the state machine.
LEMMA QueueFilled ==
  ASSUME TypeOK, BaseInv, PassInv, Next, NEW d \in Directories, ~Filled(d), Filled(d)'
  PROVE  Changed(d) \in Calls(stack')
<1>0. /\ Homed /\ Shape(stack) /\ queue \in [Directories -> [Levels -> Seq(Files)]]
      /\ Home \in [Files -> Directories]
  BY DirectoryAsyncAssumption DEF BaseInv, TypeOK
<1>1. \A level \in Levels : queue[d][level] = << >>
  BY DEF Filled
<1>2. PICK level \in Levels : queue'[d][level] # << >>
  BY DEF Filled
<1>3. CASE \A l \in Levels : ~FinishHead(l)
  <2>1. CASE UNCHANGED queue
    BY <1>1, <1>2, <2>1
  <2>2. ASSUME NEW f \in Files, AddToWorkQueue(f), Changed(Home[f]) \in Calls(stack')
        PROVE  Changed(d) \in Calls(stack')
    <3>1. Home[f] # d => queue'[d] = queue[d]
      BY <1>0, <2>2 DEF AddToWorkQueue
    <3>2. QED
      BY <1>1, <1>2, <2>2, <3>1
  <2>3. ASSUME NEW f \in Files, RemoveFromWorkQueue(f)
        PROVE  FALSE
    <3>1. queue'[d][level] = IF d = Home[f] THEN Dequeue(queue[d][level], f) ELSE queue[d][level]
      BY <1>0, <2>3 DEF RemoveFromWorkQueue
    <3>2. Dequeue(<< >>, f) = << >>
      BY DEF Dequeue, InQueue
    <3>3. QED
      BY <1>1, <1>2, <3>1, <3>2
  <2>4. QED
    BY <1>0, <1>3, <2>1, <2>2, <2>3, QueueSteps DEF QueueStep, FileAdded, FileRemoved
<1>4. ASSUME NEW l \in Levels, FinishHead(l)
      PROVE  FALSE
  <2>1. CASE Top.io # NoFile
    BY <1>1, <1>2, <1>4, <2>1 DEF FinishHead
  <2>2. CASE Top.io = NoFile
    <3>1. queue[Top.dir][l] # << >>
      BY <1>4, <2>2 DEF FinishHead, HasFile
    <3>2. d # Top.dir
      BY <1>1, <3>1
    <3>3. queue'[d][level] = queue[d][level]
      BY <1>0, <1>4, <2>2, <3>2, HeadMoved
    <3>4. QED
      BY <1>1, <1>2, <3>3
  <2>3. QED
    BY <2>1, <2>2
<1>5. QED
  BY <1>3, <1>4

\* A directory stops waiting for a slot where its state machine is called.
LEMMA WaitingKept ==
  ASSUME TypeOK, Homed, Shape(stack), Next, NEW d \in waiting
  PROVE  d \in waiting' \/ Changed(d) \in Calls(stack')
<1>1. ASSUME NEW rest, ClientCall(rest) PROVE waiting' = waiting
  <2>1. ASSUME NEW q \in Requests,
               \/ MonitorAdd(q[1], q[2], rest) \/ MonitorRemove(q[1], q[2], rest)
               \/ CallWhenReady(q[1], q[2], rest) \/ CancelCallback(q[1], q[2], rest)
               \/ NotifyFilesChanged(q[1], rest) \/ InvalidateAttributes(q[1], {q[2]}, rest)
        PROVE  waiting' = waiting
    BY <2>1 DEF MonitorAdd, MonitorRemove, CallWhenReady, CancelCallback, NotifyFilesChanged,
                InvalidateAttributes, slotVars
  <2>2. ASSUME NEW e \in Listed, \/ ListMonitorAdd(e, rest) \/ ListMonitorRemove(e, rest)
                                 \/ ForceReload(e, rest)
        PROVE  waiting' = waiting
    BY <2>2 DEF ListMonitorAdd, ListMonitorRemove, ForceReload, slotVars
  <2>3. QED
    BY <1>1, <2>1, <2>2, Zenon DEF ClientCall
<1>2. CASE MainLoop
  <2>1. ASSUME NEW e \in Directories,
               \/ \E l \in Kinds : Answer(e, l) \/ AnswerCancelled(e, l)
               \/ DeepCountProgress(e) \/ LoadDone(e) \/ CallReadyCallbacks(e)
        PROVE  waiting' = waiting
    BY <2>1 DEF Answer, AnswerCancelled, DeepCountProgress, LoadDone, CallReadyCallbacks, slotVars
  <2>2. QED
    BY <1>1, <1>2, <2>1 DEF MainLoop, Request
<1>3. CASE Handle
  BY <1>1, <1>3 DEF Handle, slotVars
<1>4. CASE \/ CallOne \/ CallNoMore \/ EnqueueFile \/ End \/ MarkOutdated \/ AnnounceLoaded
           \/ UnloadDirectory \/ EndDirectoryLoad \/ ForgetFileList
           \/ StateChanged \/ StopFileList \/ StopUnwanted \/ StopsDone
           \/ StartExtensionAtOnce \/ CallReady \/ WakeUp \/ WakeNoMore
  BY <1>4 DEF CallOne, CallNoMore, EnqueueFile, End, MarkOutdated, AnnounceLoaded,
              UnloadDirectory, EndDirectoryLoad, ForgetFileList, StateChanged, StopFileList,
              StopUnwanted, StopsDone, StartExtensionAtOnce, TakeSlot, CallReady, WakeUp, WakeNoMore, slotVars
<1>5. CASE Reloading
  BY <1>5 DEF Reloading, InvalidateAttributes, slotVars
<1>6. ASSUME NEW level \in Levels, StartJob(level) \/ Skip(level) \/ FinishHead(level) \/ NextLevel(level)
      PROVE  waiting \subseteq waiting'
  BY <1>6 DEF StartJob, Skip, FinishHead, NextLevel, NoSlot, TakeSlot, slotVars
<1>7. CASE StartFileList
  BY <1>7 DEF StartFileList, NoSlot, TakeSlot, slotVars
<1>8. CASE WakeOne
  <2>1. PICK e \in waiting : Calls(stack') = {Changed(e)} \cup Calls(stack) /\ waiting' = waiting \ {e}
    BY <1>8, NestedStacks
  <2>2. QED
    BY <2>1
<1>9. QED
  BY <1>2, <1>3, <1>4, <1>5, <1>6, <1>7, <1>8 DEF Next, Step

\* Only the jobs that are to be cancelled, or that are cleared, go.
LEMMA CancelledOf ==
  ASSUME NEW cancels, NEW invalid, CancelJobs(cancels, invalid), NEW job \in Directories \X Kinds,
         current[job] # NoFile, current'[job] = NoFile
  PROVE  job \in cancels
BY DEF CancelJobs

LEMMA ClearedOf ==
  ASSUME TypeOK, NEW e, NEW l, NEW job \in Directories \X Kinds,
         \/ UNCHANGED current
         \/ current' = [current EXCEPT ![<< e, l >>] = NoFile],
         current[job] # NoFile, current'[job] = NoFile
  PROVE  job = << e, l >>
BY DEF TypeOK

\* Where a client's call ends a job, it calls the state machine.
LEMMA ClientEndsJobs ==
  ASSUME TypeOK, NEW rest, Ready(rest), ClientCall(rest), NEW d \in Directories, NEW k \in Kinds,
         current[<< d, k >>] # NoFile, current'[<< d, k >>] = NoFile
  PROVE  Changed(d) \in Calls(stack')
<1>0. \A q \in Requests : q[1] \in Files /\ q[2] \in Kinds /\ {q[2]} \in SUBSET Kinds
  BY DirectoryAsyncAssumption
<1>1. ASSUME NEW q \in Requests,
             \/ MonitorAdd(q[1], q[2], rest) \/ MonitorRemove(q[1], q[2], rest)
             \/ CallWhenReady(q[1], q[2], rest) \/ CancelCallback(q[1], q[2], rest)
             \/ NotifyFilesChanged(q[1], rest)
      PROVE  FALSE
  BY <1>1 DEF MonitorAdd, MonitorRemove, CallWhenReady, CancelCallback, NotifyFilesChanged, jobVars
<1>2. ASSUME NEW e \in Listed, ListMonitorAdd(e, rest) \/ ListMonitorRemove(e, rest)
      PROVE  FALSE
  BY <1>2 DEF ListMonitorAdd, ListMonitorRemove, jobVars
<1>3. ASSUME NEW e \in Listed, ForceReload(e, rest) PROVE Changed(d) \in Calls(stack')
  <2>1. CancelJobs({job \in {e} \X ReloadedKinds : current[job] # NoFile},
                   {job \in {e} \X ReloadedKinds : current[job] # NoFile})
    BY <1>3 DEF ForceReload
  <2>2. << d, k >> \in {job \in {e} \X ReloadedKinds : current[job] # NoFile}
    BY <2>1, CancelledOf
  <2>3. d = e
    BY <2>2
  <2>4. QED
    BY <1>3, <2>3, ClientStacks
<1>4. ASSUME NEW q \in Requests, InvalidateAttributes(q[1], {q[2]}, rest) PROVE Changed(d) \in Calls(stack')
  <2>1. << d, k >> \in {Home[q[1]]} \X RequestedBy({q[2]})
    BY <1>4, CancelledOf DEF InvalidateAttributes
  <2>2. d = Home[q[1]]
    BY <2>1
  <2>3. QED
    BY <1>0, <1>4, <2>2, ClientStacks
<1>5. QED
  BY <1>1, <1>2, <1>3, <1>4, Zenon DEF ClientCall

\* The end of a job brings its directory's state machine about, or is its doing.
LEMMA RunningKept ==
  ASSUME TypeOK, Homed, Shape(stack), Next, NEW d \in Directories, NEW k \in Kinds,
         current[<< d, k >>] # NoFile, current'[<< d, k >>] = NoFile
  PROVE  Changed(d) \in Calls(stack') \/ \E i : ServiceAt(d, "stop", i, NoFile) \in Calls(stack')
<1>0. stack \in Seq(Frames)
  BY DEF TypeOK
<1>1. CASE MainLoop
  <2>1. CASE Request
    BY <2>1, ReadyAtRest, ClientEndsJobs DEF Request
  <2>2. ASSUME NEW e \in Directories, NEW l \in Kinds, Answer(e, l)
        PROVE  Changed(d) \in Calls(stack')
    <3>1. UNCHANGED current \/ current' = [current EXCEPT ![<< e, l >>] = NoFile]
      BY <2>2, Zenon DEF Answer
    <3>2. << d, k >> = << e, l >>
      BY <3>1, ClearedOf
    <3>3. \/ stack' = << Signal, EndJob(e, l), Changed(e) >>
          \/ stack' = << Signal, Signal, EndJob(e, l), Changed(e) >>
          \/ stack' = << Changed(e), Signal >>
      BY <2>2, Zenon DEF Answer
    <3>4. Changed(e) \in Calls(stack')
      BY <3>3, EventsReady
    <3>5. QED
      BY <3>2, <3>4
  <2>3. ASSUME NEW e \in Directories, NEW l \in Kinds, AnswerCancelled(e, l)
        PROVE  Changed(d) \in Calls(stack')
    <3>1. current' = [current EXCEPT ![<< e, l >>] = NoFile] /\ stack' = << Changed(e) >>
      BY <2>3 DEF AnswerCancelled
    <3>2. << d, k >> = << e, l >>
      BY <3>1, ClearedOf
    <3>3. QED
      BY <3>1, <3>2, EventsReady
  <2>4. ASSUME NEW e \in Directories, DeepCountProgress(e) \/ LoadDone(e) \/ CallReadyCallbacks(e)
        PROVE  FALSE
    BY <2>4 DEF DeepCountProgress, LoadDone, CallReadyCallbacks, jobVars
  <2>5. QED
    BY <1>1, <2>1, <2>2, <2>3, <2>4 DEF MainLoop
<1>2. CASE Handle
  <2>1. ClientCall(Below)
    BY <1>2 DEF Handle, jobVars
  <2>2. Ready(Below)
    BY <1>0, <1>2, Pops DEF Handle, Pending
  <2>3. QED
    BY <2>1, <2>2, ClientEndsJobs
<1>3. CASE End
  <2>1. stack # << >> /\ Top.op = "end" /\ stack' = Below
    BY <1>3 DEF End, Pending
  <2>2. Top.kind \in SignalsBeforeClear /\ current' = [current EXCEPT ![<< Top.dir, Top.kind >>] = NoFile]
    BY <1>3, Zenon DEF End
  <2>3. << d, k >> = << Top.dir, Top.kind >>
    BY <2>2, ClearedOf
  <2>4. Changed(Top.dir) \in Calls(Below)
    BY <1>0, <2>1, <2>2, Pops
  <2>5. QED
    BY <2>1, <2>3, <2>4
<1>4. CASE \/ CallOne \/ CallNoMore \/ EnqueueFile \/ MarkOutdated \/ AnnounceLoaded
           \/ UnloadDirectory \/ EndDirectoryLoad \/ ForgetFileList
           \/ StateChanged \/ StartFileList \/ StopFileList \/ StopsDone
           \/ StartExtensionAtOnce \/ CallReady \/ WakeUp \/ WakeOne \/ WakeNoMore
  BY <1>4 DEF CallOne, CallNoMore, EnqueueFile, MarkOutdated, AnnounceLoaded,
              UnloadDirectory, EndDirectoryLoad, ForgetFileList,
              StateChanged, StartFileList, StopFileList, StopsDone,
              StartExtensionAtOnce, CallReady, WakeUp, WakeOne, WakeNoMore, jobVars
<1>5. ASSUME NEW level \in Levels, Skip(level) \/ FinishHead(level) \/ NextLevel(level)
      PROVE  FALSE
  BY <1>5 DEF Skip, FinishHead, NextLevel, jobVars
<1>6. ASSUME NEW level \in Levels, StartJob(level)
      PROVE  FALSE
  <2>1. AtPhase(level) /\ HasFile(level)
    BY <1>6 DEF StartJob
  <2>2. FileTried(level) # NoFile
    BY <2>1, FileTriedHome, DirectoryAsyncAssumption
  <2>3. \/ UNCHANGED current
        \/ \E l \in Kinds : current' = [current EXCEPT ![<< Top.dir, l >>] = FileTried(level)]
    BY <1>6 DEF StartJob, NextJob, jobVars
  <2>. HIDE DEF FileTried
  <2>4. QED
    BY <2>2, <2>3 DEF TypeOK
<1>7. CASE Reloading
  <2>1. Top.dir \in Directories /\ Top.step \in 1 .. 3
    BY <1>7, ReloadStacks
  <2>2. CASE Top.step = 2
    <3>1. InvalidateAttributes(Corresponding[Top.dir], LoadFills \cap Kinds, << Reload(Top.dir, 3) >> \o Below)
      BY <1>7, <2>2 DEF Reloading
    <3>2. << d, k >> \in {Home[Corresponding[Top.dir]]} \X RequestedBy(LoadFills \cap Kinds)
      BY <3>1, CancelledOf DEF InvalidateAttributes
    <3>3. d = Home[Corresponding[Top.dir]]
      BY <3>2
    <3>4. QED
      BY <1>7, <2>2, <3>3, ReloadStacks
  <2>3. CASE Top.step # 2
    BY <1>7, <2>1, <2>3 DEF Reloading, jobVars
  <2>4. QED
    BY <2>2, <2>3
<1>8. CASE StopUnwanted
  <2>1. PICK j \in NextJob(StopOrder, Top.i) :
          /\ LET wanted == Running(Top.dir, StopOrder[j]) => Needy(current[<< Top.dir, StopOrder[j] >>], StopOrder[j])
             IN  CancelJobs(IF wanted THEN {} ELSE {<< Top.dir, StopOrder[j] >>}, {})
          /\ GoTo("stop", j + 1, NoFile)
    BY <1>8, Zenon DEF StopUnwanted
  <2>2. \E cancels : CancelJobs(cancels, {}) /\ cancels \subseteq {<< Top.dir, StopOrder[j] >>}
    BY <2>1, Zenon
  <2>3. << d, k >> = << Top.dir, StopOrder[j] >>
    BY <2>2, CancelledOf
  <2>4. ServiceAt(Top.dir, "stop", j + 1, NoFile) \in Calls(stack')
    BY <1>8, <2>1, ServiceStacks DEF StopUnwanted
  <2>5. QED
    BY <2>3, <2>4
<1>9. QED
  BY <1>1, <1>2, <1>3, <1>4, <1>5, <1>6, <1>7, <1>8 DEF Next, Step

\* A pass that has started nothing yet for the file it is at starts something, moves
\* the file on, or finds the queues empty.
LEMMA LevelServed ==
  ASSUME TypeOK, BaseInv, PassInv, Step, Top.op = "service", Top.at \in Levels, Top.io = NoFile,
         NEW d \in Directories, d = Top.dir, Filled(d)
  PROVE  Served(stack, d)'
<1>0. /\ Homed /\ Shape(stack) /\ stack \in Seq(Frames) /\ stack # << >> /\ NoFile \notin Files
  BY TopDecides, DirectoryAsyncAssumption DEF BaseInv, TypeOK
<1>2. CASE StartExtensionAtOnce
  <2>1. d \in stateChanged'
    BY <1>2 DEF StartExtensionAtOnce
  <2>2. QED
    BY <2>1, ServedBy
<1>3. ASSUME NEW level \in Levels, Skip(level)
      PROVE  d \in stateChanged'
  BY <1>3 DEF Skip
<1>4. ASSUME NEW level \in Levels, StartJob(level)
      PROVE  Served(stack, d)'
  <2>1. PICK j \in NextJob(StartOrder[level], Top.i) :
          LET l == StartOrder[level][j]
              f == FileTried(level)
          IN  /\ GoTo(level, j + 1, IF Top.io # NoFile \/ Running(Top.dir, l) \/ Needy(f, l) THEN f ELSE NoFile)
              /\ IF Running(Top.dir, l) \/ ~Needy(f, l)
                 THEN UNCHANGED << slotVars, jobVars >>
                 ELSE \/ NoSlot(Top.dir) /\ UNCHANGED jobVars
                      \/ /\ TakeSlot
                         /\ current' = [current EXCEPT ![<< Top.dir, l >>] = f]
                         /\ stale' = stale \ {<< Top.dir, l >>}
                         /\ UNCHANGED cancelled
    BY <1>4, Zenon DEF StartJob
  <2>. DEFINE l == StartOrder[level][j]
              f == FileTried(level)
  <2>2. l \in Kinds /\ AtPhase(level) /\ HasFile(level) /\ j \in Nat
    BY <1>4, StartPlaces DEF StartJob, NextJob
  <2>3. f \in Files
    BY <1>0, <2>2, FileTriedHome
  <2>4. CASE Running(d, l)
    <3>1. current'[<< d, l >>] # NoFile
      BY <2>1, <2>4 DEF jobVars, Running
    <3>2. QED
      BY <2>2, <3>1, ServedBy
  <2>5. CASE ~Running(d, l) /\ Needy(f, l)
    <3>1. CASE NoSlot(d)
      BY <3>1, ServedBy DEF NoSlot
    <3>2. CASE current' = [current EXCEPT ![<< d, l >>] = f]
      <4>. HIDE DEF f, l
      <4>1. current'[<< d, l >>] = f
        BY <2>2, <3>2 DEF TypeOK
      <4>2. QED
        BY <1>0, <2>2, <2>3, <4>1, ServedBy
    <3>3. QED
      BY <2>1, <2>5, <3>1, <3>2
  <2>6. CASE ~Running(d, l) /\ ~Needy(f, l)
    <3>1. GoTo(level, j + 1, NoFile)
      BY <2>1, <2>6
    <3>2. level \in Phases /\ j + 1 \in Nat
      BY <2>2 DEF Phases
    <3>3. ServiceAt(d, level, j + 1, NoFile) \in Calls(stack')
      BY <1>0, <3>1, <3>2, PassGoesOn DEF GoTo
    <3>4. QED
      BY <3>3, ServedBy
  <2>7. QED
    BY <2>4, <2>5, <2>6
<1>5. ASSUME NEW level \in Levels, FinishHead(level)
      PROVE  Served(stack, d)'
  <2>1. ServiceAt(d, level, 1, NoFile) \in Calls(stack')
    BY <1>0, <1>5, LevelStacks
  <2>2. QED
    BY <2>1, ServedBy
<1>6. ASSUME NEW level \in Levels, NextLevel(level)
      PROVE  Served(stack, d)'
  <2>1. Pending("service") /\ Top.at = level /\ queue[d][level] = << >>
    BY <1>6 DEF NextLevel, AtPhase, HasFile
  <2>2. CASE level = "high"
    <3>1. ServiceAt(d, "low", 1, NoFile) \in Calls(stack')
      BY <1>0, <1>6, <2>2, LevelStacks
    <3>2. QED
      BY <3>1, ServedBy, LevelsAre
  <2>3. CASE level = "low"
    <3>1. ServiceAt(d, "extension", 1, NoFile) \in Calls(stack')
      BY <1>0, <1>6, <2>3, LevelStacks
    <3>2. QED
      BY <3>1, ServedBy, LevelsAre
  <2>4. CASE level = "extension"
    <3>1. \A l \in Reaches["extension"] \ {"extension"} : queue[d][l] = << >>
      BY <2>1, <2>4 DEF PassInv
    <3>2. Levels \ {"extension"} \subseteq Reaches["extension"] \ {"extension"}
      BY DEF Reaches
    <3>3. ~Filled(d)
      BY <2>1, <2>4, <3>1, <3>2 DEF Filled
    <3>4. QED
      BY <3>3
  <2>5. QED
    BY <2>2, <2>3, <2>4, LevelsAre
<1>7. \/ StartExtensionAtOnce
      \/ \E level \in Levels : StartJob(level) \/ Skip(level) \/ FinishHead(level) \/ NextLevel(level)
  BY TopDecides
<1>8. QED
  BY <1>2, <1>3, <1>4, <1>5, <1>6, <1>7, ServedBy

LEMMA CallServed ==
  ASSUME TypeOK, BaseInv, PassInv, Step, NEW d \in Directories, Filled(d),
         NEW c \in Calls(stack), c = Changed(d) \/ Open(c, d)
  PROVE  Served(stack, d)'
<1>0. /\ Homed /\ Shape(stack) /\ stack \in Seq(Frames) /\ stack # << >>
      /\ Calls(stack) = {Top} \cup Calls(Below) /\ Calls(Below) \subseteq Calls(stack')
  BY TopDecides, Pops, StackNext DEF BaseInv, TypeOK
<1>1. CASE c \in Calls(Below)
  BY <1>0, <1>1 DEF Served
<1>2. CASE c = Top /\ c = Changed(d)
  <2>1. Top.op = "changed" /\ Top.dir = d /\ StateChanged
    BY <1>2, TopDecides DEF Changed
  <2>2. CASE d \in inLoop
    BY <2>1, <2>2, ServedBy DEF StateChanged
  <2>3. CASE d \notin inLoop
    <3>1. ServiceAt(d, "list", 1, NoFile) \in Calls(stack')
      BY <1>0, <2>1, <2>3, ServiceStacks
    <3>2. QED
      BY <3>1, ServedBy
  <2>4. QED
    BY <2>2, <2>3
<1>3. CASE c = Top /\ Open(c, d) /\ Top.at = "list"
  <2>1. Top.dir = d /\ (StartFileList \/ StopFileList)
    BY <1>3, TopDecides DEF Open
  <2>2. ServiceAt(d, "stop", 1, NoFile) \in Calls(stack')
    BY <1>0, <2>1, ServiceStacks
  <2>3. QED
    BY <2>2, ServedBy
<1>4. CASE c = Top /\ Open(c, d) /\ Top.at = "stop"
  <2>1. Top.dir = d /\ (StopUnwanted \/ StopsDone)
    BY <1>4, TopDecides DEF Open
  <2>2. CASE StopsDone
    <3>1. ServiceAt(d, "high", 1, NoFile) \in Calls(stack')
      BY <1>0, <2>1, <2>2, ServiceStacks
    <3>2. QED
      BY <3>1, ServedBy, LevelsAre
  <2>3. CASE StopUnwanted
    <3>1. \E j \in NextJob(StopOrder, Top.i) : GoTo("stop", j + 1, NoFile)
      BY <2>3, Zenon DEF StopUnwanted
    <3>2. \E i : ServiceAt(d, "stop", i, NoFile) \in Calls(stack')
      BY <1>0, <2>1, <2>3, <3>1, ServiceStacks DEF StopUnwanted
    <3>3. QED
      BY <3>2, ServedBy
  <2>4. QED
    BY <2>1, <2>2, <2>3
<1>5. CASE c = Top /\ Open(c, d) /\ Top.at \in Levels /\ Top.io = NoFile
  BY <1>5, LevelServed DEF Open
<1>6. QED
  BY <1>0, <1>1, <1>2, <1>3, <1>4, <1>5 DEF Open

LEMMA QueueNext ==
  ASSUME TypeOK, BaseInv, PassInv, QueueInv(stack), [Next]_vars
  PROVE  QueueInv(stack)'
<1>0. Homed /\ Shape(stack)
  BY DEF BaseInv
<1>1. CASE UNCHANGED vars
  <2>1. UNCHANGED << stack, queue, waiting, current, stateChanged >>
    BY <1>1 DEF vars, slotVars, jobVars, loopVars
  <2>2. QED
    BY <2>1 DEF QueueInv, Filled, Served, Running, Open
<1>2. CASE Next
  <2>1. SUFFICES ASSUME NEW d \in Directories, Filled(d)'
                 PROVE  Served(stack, d)'
    BY DEF QueueInv
  <2>2. CASE ~Filled(d)
    BY <1>2, <2>1, <2>2, QueueFilled, ServedBy
  <2>3. CASE Filled(d) /\ d \in waiting
    BY <1>0, <1>2, <2>3, WaitingKept, ServedBy
  <2>4. CASE Filled(d) /\ d \in stateChanged
    <3>1. CASE MainLoop
      BY <2>4, <3>1, EventsStack, ServedBy DEF loopVars
    <3>2. CASE Step
      BY <1>0, <2>4, <3>2, StateKept, ServedBy
    <3>3. QED
      BY <1>2, <3>1, <3>2 DEF Next
  <2>5. ASSUME NEW k \in Kinds, Running(d, k)
        PROVE  Served(stack, d)'
    BY <1>0, <1>2, <2>5, RunningKept, ServedBy DEF Running
  <2>6. ASSUME Filled(d), NEW c \in Calls(stack), c = Changed(d) \/ Open(c, d)
        PROVE  Served(stack, d)'
    <3>1. ~Rest
      BY <2>6 DEF Rest, Calls
    <3>2. Step
      BY <1>2, <3>1 DEF Next, MainLoop, Request, Answer, AnswerCancelled, DeepCountProgress,
                        LoadDone, CallReadyCallbacks
    <3>3. QED
      BY <2>6, <3>2, CallServed
  <2>7. Filled(d) => Served(stack, d)
    BY DEF QueueInv
  <2>8. QED
    BY <2>2, <2>3, <2>4, <2>5, <2>6, <2>7 DEF Served
<1>3. QED
  BY <1>1, <1>2

WorkInv ==
  /\ BaseInv /\ PassInv /\ LoadlessInv
  /\ NeedsInv(stack) /\ InfoInv(stack) /\ QueueInv(stack)

LEMMA WorkInductive ==
  ASSUME LoadsApart
  PROVE  /\ Init => WorkInv
         /\ TypeOK /\ WorkInv /\ [Next]_vars => WorkInv'
<1>1. ASSUME Init PROVE WorkInv
  <2>1. BaseInv
    BY <1>1, BaseInductive
  <2>2. PassInv /\ LoadlessInv
    BY <1>1 DEF Init, PassInv, Pending, LoadlessInv
  <2>3. ASSUME NEW f \in Files, NEW k \in Kinds PROVE ~Needy(f, k)
    BY <1>1 DEF Init, Needy, Asks
  <2>4. InfoInv(stack)
    BY <1>1, DirectoryAsyncAssumption DEF Init, InfoInv
  <2>5. QueueInv(stack)
    BY <1>1 DEF Init, QueueInv, Filled
  <2>6. QED
    BY <2>1, <2>2, <2>3, <2>4, <2>5 DEF WorkInv, NeedsInv
<1>2. ASSUME TypeOK, WorkInv, [Next]_vars PROVE WorkInv'
  <2>1. BaseInv /\ PassInv /\ LoadlessInv /\ NeedsInv(stack) /\ InfoInv(stack) /\ QueueInv(stack)
    BY <1>2 DEF WorkInv
  <2>2. BaseInv' /\ PassInv' /\ LoadlessInv'
    BY <1>2, <2>1, BaseInductive, PassNext, LoadlessNext
  <2>3. NeedsInv(stack)' /\ InfoInv(stack)' /\ QueueInv(stack)'
    BY <1>2, <2>1, NeedsNext, InfoNext, QueueNext
  <2>4. QED
    BY <2>2, <2>3 DEF WorkInv
<1>3. QED
  BY <1>1, <1>2

\* When the main loop waits, no work is forgotten, where no directory load hides what
\* its directory's own file needs: a file that needs an attribute is on a queue its
\* job is tried from, and a directory with files on a queue has a job in progress or
\* waits for a slot.
THEOREM NoWorkIsForgotten ==
  ASSUME LoadsApart
  PROVE  Spec => []NoForgottenWork
<1>1. TypeOK /\ WorkInv => NoForgottenWork
  <2>1. SUFFICES ASSUME WorkInv, Rest PROVE NoForgottenWork
    BY DEF NoForgottenWork
  <2>2. Calls(stack) = {}
    BY <2>1 DEF Rest, Calls
  <2>3. stateChanged = {}
    BY <2>1, <2>2 DEF WorkInv, BaseInv, LoopInv, Passing
  <2>4. ASSUME NEW f \in Files, NEW k \in Kinds, Needy(f, k) PROVE Queued(f, k)
    BY <2>1, <2>2, <2>4 DEF WorkInv, NeedsInv, PutBack
  <2>5. ASSUME NEW d \in Directories, Filled(d)
        PROVE  d \in waiting \/ \E k \in Kinds : Running(d, k)
    BY <2>1, <2>2, <2>3, <2>5 DEF WorkInv, QueueInv, Served
  <2>6. QED
    BY <2>4, <2>5 DEF NoForgottenWork, Queued, Filled
<1>2. Init => WorkInv
  BY WorkInductive
<1>3. TypeOK /\ WorkInv /\ [Next]_vars => WorkInv'
  BY WorkInductive
<1>4. QED
  BY TypeCorrect, <1>1, <1>2, <1>3, PTL DEF Spec
=============================================================================
