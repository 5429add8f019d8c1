---------------------------- MODULE SearchDirectory ----------------------------
(* A search shown as a folder: the directory object with its clients        *)
(* (baul-search-directory.c), the engine that searches without an index     *)
(* (baul-search-engine-simple.c), its threads, and the idle functions by    *)
(* which they report.                                                       *)
EXTENDS Naturals, Sequences, FiniteSets, SequencesExt

CONSTANTS
  Directories,   \* real directories
  Root,          \* the one that is searched
  NoDirectory,
  Files,         \* the entries of the directories
  Content,       \* the entries of each directory, in the order they are read
  Leads,         \* the directory an entry is, or is a link to
  Queries,
  Matches,       \* the entries that match each query
  SavedSearches, \* the entries that are saved searches
  Clients,       \* who monitors the directory
  Calls,         \* who waits for it to be ready
  BatchSize,
  MaxActs        \* bound on what the clients do

ASSUME TreeAssumption ==
  /\ Root \in Directories
  /\ NoDirectory \notin Directories
  /\ Content \in [Directories -> Seq(Files)]
  /\ Leads \in [Files -> Directories \cup {NoDirectory}]
  /\ \A d \in Directories : IsInjective(Content[d])
  /\ \A d, e \in Directories : d # e => ToSet(Content[d]) \cap ToSet(Content[e]) = {}
ASSUME QueryAssumption ==
  /\ Queries # {}
  /\ Matches \in [Queries -> SUBSET Files]
  /\ SavedSearches \subseteq Files

VARIABLES
  directory,  \* the fields of the search directory and of its engine
  files,      \* how often it lists each file
  watch,      \* who monitors each file on behalf of the directory
  handlers,   \* how often the directory is connected to each file's changes
  call,       \* the callbacks: not there, waiting for the search or for files
  thread,     \* the searches begun so far
  idles,      \* the idle functions that report to the main loop
  acts        \* what the clients have done

listing == << files, watch, handlers >>
vars == << directory, listing, call, thread, idles, acts >>

\* A list of files, by how often each is in it.
NoFiles == [f \in Files |-> 0]
Listed(list) == {f \in Files : list[f] > 0}

NoCall == [state |-> "none", left |-> {}]
Pending == {k \in Calls : call[k].state = "pending"}

(***************************************************************************)
(* The searches.                                                           *)
(***************************************************************************)
\* search_thread_data_new and the beginning of search_thread_func, which opens the
\* folder that is searched.
NewSearch(q) ==
  [query |-> q, cancelled |-> FALSE, dirs |-> << >>, visited |-> {Root},
   rest |-> Content[Root], processed |-> 0, found |-> NoFiles, step |-> "search"]

\* search_thread_data_free
Freed(t) == [t EXCEPT !.dirs = << >>, !.visited = {}, !.step = "freed"]

Batch(i, found) == IF found = NoFiles THEN << >>
                   ELSE << [kind |-> "hits", search |-> i, uris |-> found] >>
DoneReport(i) == << [kind |-> "done", search |-> i, uris |-> NoFiles] >>

\* visit_directory: the next entry of the directory that is read, or its end. A
\* cancelled enumeration ends.
VisitNext(i) ==
  LET t == thread[i]
      f == Head(t.rest)
      new == Leads[f] # NoDirectory /\ Leads[f] \notin t.visited
      found == IF f \in Matches[t.query] THEN [t.found EXCEPT ![f] = @ + 1] ELSE t.found
      full == t.processed + 1 > BatchSize
  IN /\ t.step = "search"
     /\ t.rest # << >> /\ ~t.cancelled
     /\ thread' = [thread EXCEPT ![i] =
          [t EXCEPT !.rest = Tail(@),
                    !.found = IF full THEN NoFiles ELSE found,
                    !.processed = IF full THEN 0 ELSE @ + 1,
                    !.visited = IF new THEN @ \cup {Leads[f]} ELSE @,
                    !.dirs = IF new THEN Append(@, Leads[f]) ELSE @]]
     /\ idles' = IF full THEN idles \o Batch(i, found) ELSE idles
     /\ UNCHANGED << directory, listing, call, acts >>

VisitDirectory(i) ==
  LET t == thread[i] IN
  /\ t.step = "search"
  /\ t.rest = << >> /\ t.dirs # << >> /\ ~t.cancelled
  /\ thread' = [thread EXCEPT ![i] = [t EXCEPT !.rest = Content[Head(t.dirs)],
                                               !.dirs = Tail(@)]]
  /\ UNCHANGED << directory, listing, call, idles, acts >>

\* Mutant: the last batch is sent after the search has been reported as done.
SearchEndsEarly(i) ==
  LET t == thread[i] IN
  /\ t.step = "search"
  /\ t.cancelled \/ (t.rest = << >> /\ t.dirs = << >>)
  /\ thread' = [thread EXCEPT ![i] = [t EXCEPT !.rest = << >>, !.found = NoFiles,
                                               !.processed = 0, !.step = "over"]]
  /\ idles' = idles \o DoneReport(i) \o Batch(i, t.found)
  /\ UNCHANGED << directory, listing, call, acts >>

\* The end of search_thread_func: the last batch, and after it the report that
\* frees what the reports use.
SearchEnds(i) ==
  LET t == thread[i] IN
  /\ t.step = "search"
  /\ t.cancelled \/ (t.rest = << >> /\ t.dirs = << >>)
  /\ thread' = [thread EXCEPT ![i] = [t EXCEPT !.rest = << >>, !.found = NoFiles,
                                               !.processed = 0, !.step = "over"]]
  /\ idles' = idles \o Batch(i, t.found) \o DoneReport(i)
  /\ UNCHANGED << directory, listing, call, acts >>

(***************************************************************************)
(* Starting and stopping them. s is all that a call may change.            *)
(***************************************************************************)
Now == [directory |-> directory, files |-> files, watch |-> watch,
        handlers |-> handlers, call |-> call, thread |-> thread]

Becomes(s) ==
  /\ directory' = s.directory
  /\ files' = s.files
  /\ watch' = s.watch
  /\ handlers' = s.handlers
  /\ call' = s.call
  /\ thread' = s.thread

\* baul_search_engine_simple_start: a search that is underway goes on.
EngineStart(s) ==
  IF s.directory.active # 0 THEN s
  ELSE [s EXCEPT !.thread = Append(@, NewSearch(s.directory.engineQuery)),
                 !.directory.active = Len(s.thread) + 1]

\* baul_search_engine_simple_stop
EngineStop(s) ==
  LET i == s.directory.active IN
  IF i = 0 THEN s
  ELSE [s EXCEPT !.thread[i].cancelled = TRUE, !.directory.active = 0]

\* Mutant: the directory stays connected to the files it no longer lists.
ResetFileListConnected(s) ==
  [s EXCEPT !.files = NoFiles,
            !.watch = [f \in Files |->
                        IF f \in Listed(s.files) THEN @[f] \ s.directory.monitors ELSE @[f]]]

\* reset_file_list
ResetFileList(s) ==
  LET listed == Listed(s.files) IN
  [s EXCEPT !.files = NoFiles,
            !.handlers = [f \in Files |-> IF f \in listed THEN 0 ELSE @[f]],
            !.watch = [f \in Files |->
                        IF f \in listed THEN @[f] \ s.directory.monitors ELSE @[f]]]

Wanted(s) == s.directory.monitors # {} \/ \E k \in Calls : s.call[k].state = "pending"

\* start_or_stop_search_engine
StartSearchEngine(s) ==
  IF ~Wanted(s) \/ s.directory.running THEN s
  ELSE EngineStart(ResetFileList(
         [s EXCEPT !.directory.running = TRUE, !.directory.finished = FALSE,
                   !.directory.engine = TRUE,
                   !.directory.engineQuery = s.directory.query]))

StopSearchEngine(s) ==
  IF Wanted(s) \/ ~s.directory.running THEN s
  ELSE ResetFileList(EngineStop([s EXCEPT !.directory.running = FALSE]))

(***************************************************************************)
(* The clients.                                                            *)
(***************************************************************************)
Acts ==
  /\ directory.alive
  /\ acts < MaxActs
  /\ acts' = acts + 1
  /\ UNCHANGED idles

\* baul_search_directory_set_query; a reload applies it.
SetQuery(q) ==
  /\ Acts
  /\ q # directory.query
  /\ directory' = [directory EXCEPT !.query = q]
  /\ UNCHANGED << listing, call, thread >>

\* search_monitor_add
MonitorAdd(c) ==
  /\ Acts
  /\ c \notin directory.monitors
  /\ Becomes(StartSearchEngine(
       [Now EXCEPT !.directory.monitors = @ \cup {c},
                   !.watch = [f \in Files |->
                               IF f \in Listed(files) THEN @[f] \cup {c} ELSE @[f]]]))

\* search_monitor_remove
MonitorRemove(c) ==
  /\ Acts
  /\ c \in directory.monitors
  /\ Becomes(StopSearchEngine(
       [Now EXCEPT !.directory.monitors = @ \ {c},
                   !.watch = [f \in Files |->
                               IF f \in Listed(files) THEN @[f] \ {c} ELSE @[f]]]))

\* search_call_when_ready: a call that need not wait for the search gets its
\* answer at once if there are no files to wait for.
CallWhenReady(k, wait_for_file_list) ==
  LET waits == wait_for_file_list /\ ~directory.finished IN
  /\ Acts
  /\ call[k] = NoCall
  /\ Becomes(IF waits THEN StartSearchEngine([Now EXCEPT !.call[k].state = "pending"])
             ELSE IF Listed(files) = {} THEN Now
             ELSE [Now EXCEPT !.call[k] = [state |-> "files", left |-> Listed(files)]])

\* search_cancel_callback: only a call that waited for the search may stop it.
CancelCallback(k) ==
  LET cancelled == [Now EXCEPT !.call[k] = NoCall] IN
  /\ Acts
  /\ call[k] # NoCall
  /\ Becomes(IF k \in Pending THEN StopSearchEngine(cancelled) ELSE cancelled)

\* Mutant: the running search is not stopped, so none is started.
ForceReloadRunning ==
  LET reset == ResetFileList([Now EXCEPT !.directory.finished = FALSE])
      asked == [reset EXCEPT !.directory.engineQuery = directory.query]
  IN /\ Acts
     /\ Becomes(IF ~directory.engine THEN [Now EXCEPT !.directory.finished = FALSE]
                ELSE IF directory.running THEN EngineStart(asked) ELSE reset)

\* search_force_reload: a search that is not running is not begun. The engine is
\* stopped, given the query and started.
ForceReload ==
  LET reset == ResetFileList([Now EXCEPT !.directory.finished = FALSE])
      stopped == EngineStop(reset)
      asked == [stopped EXCEPT !.directory.engineQuery = directory.query]
  IN /\ Acts
     /\ Becomes(IF ~directory.engine THEN [Now EXCEPT !.directory.finished = FALSE]
                ELSE IF directory.running THEN EngineStart(asked) ELSE reset)

\* search_dispose
Dispose ==
  LET unwatched == [Now EXCEPT !.directory.monitors = {},
                               !.call = [k \in Calls |-> NoCall],
                               !.watch = [f \in Files |-> {}]]
      stopped == IF directory.engine /\ directory.running THEN EngineStop(ResetFileList(unwatched))
                 ELSE ResetFileList(unwatched)
  IN /\ Acts
     /\ Becomes([stopped EXCEPT !.directory.alive = FALSE])

(***************************************************************************)
(* The main loop.                                                          *)
(***************************************************************************)
\* search_thread_add_hits_idle and search_engine_hits_added
HitsAdded ==
  LET hits == [f \in Files |-> IF f \in SavedSearches THEN 0 ELSE Head(idles).uris[f]] IN
  /\ idles # << >> /\ Head(idles).kind = "hits"
  /\ idles' = Tail(idles)
  /\ IF thread[Head(idles).search].cancelled THEN UNCHANGED listing
     ELSE /\ files' = [f \in Files |-> files[f] + hits[f]]
          /\ watch' = [f \in Files |-> IF f \in Listed(hits) THEN watch[f] \cup directory.monitors
                                                             ELSE watch[f]]
          /\ handlers' = [f \in Files |-> handlers[f] + hits[f]]
  /\ UNCHANGED << directory, call, thread, acts >>

\* Mutant: the calls that wait for the search are left to the next one.
SearchFinishedQuietly(s) == [s EXCEPT !.directory.finished = TRUE]

\* search_engine_finished: the calls now wait for the files. One that has none to
\* wait for is never answered.
SearchFinished(s) ==
  [s EXCEPT !.directory.finished = TRUE,
            !.call = [k \in Calls |->
                       IF @[k].state = "pending"
                       THEN [state |-> "files", left |-> Listed(s.files)] ELSE @[k]]]

\* search_thread_done_idle
SearchDone ==
  LET i == Head(idles).search
      told == IF thread[i].cancelled THEN Now
              ELSE [SearchFinished(Now) EXCEPT !.directory.active = 0]
  IN /\ idles # << >> /\ Head(idles).kind = "done"
     /\ idles' = Tail(idles)
     /\ Becomes([told EXCEPT !.thread[i] = Freed(@)])
     /\ UNCHANGED acts

\* search_callback_file_ready_callback: the last file invokes the callback.
FileReady(k, f) ==
  /\ f \in call[k].left
  /\ call' = IF call[k].left = {f} THEN [call EXCEPT ![k] = NoCall]
             ELSE [call EXCEPT ![k].left = @ \ {f}]
  /\ UNCHANGED << directory, listing, thread, idles, acts >>

-----------------------------------------------------------------------------
Init ==
  /\ directory \in [alive : {TRUE}, query : Queries, engine : {FALSE}, engineQuery : Queries,
                    running : {FALSE}, finished : {FALSE}, monitors : {{}}, active : {0}]
  /\ directory.engineQuery = directory.query
  /\ files = NoFiles
  /\ watch = [f \in Files |-> {}]
  /\ handlers = [f \in Files |-> 0]
  /\ call = [k \in Calls |-> NoCall]
  /\ thread = << >>
  /\ idles = << >>
  /\ acts = 0

Thread(i) == VisitNext(i) \/ VisitDirectory(i) \/ SearchEnds(i)

MainLoop == HitsAdded \/ SearchDone

Next ==
  \/ \E q \in Queries : SetQuery(q)
  \/ \E c \in Clients : MonitorAdd(c) \/ MonitorRemove(c)
  \/ \E k \in Calls : CancelCallback(k)
  \/ \E k \in Calls, wait \in BOOLEAN : CallWhenReady(k, wait)
  \/ ForceReload
  \/ Dispose
  \/ \E i \in DOMAIN thread : Thread(i)
  \/ MainLoop
  \/ \E k \in Calls, f \in Files : FileReady(k, f)

Spec == Init /\ [][Next]_vars

\* The threads and the main loop run, and the files' attributes are read.
FairSpec ==
  /\ Spec
  /\ \A i \in 1 .. MaxActs : WF_vars(i \in DOMAIN thread /\ Thread(i))
  /\ WF_vars(MainLoop)
  /\ \A k \in Calls : WF_vars(\E f \in Files : FileReady(k, f))
-----------------------------------------------------------------------------
(***************************************************************************)
(* Properties.                                                             *)
(***************************************************************************)
\* The directories that a search reaches through subdirectories and links: those
\* that cannot be left out of a set with the root and all that it leads to.
Follows(dirs) ==
  \A d \in dirs : \A f \in ToSet(Content[d]) : Leads[f] # NoDirectory => Leads[f] \in dirs

Reached ==
  {d \in Directories : \A dirs \in SUBSET Directories :
                         Root \in dirs /\ Follows(dirs) => d \in dirs}

Hits(q) ==
  {f \in Matches[q] \ SavedSearches : \E d \in Reached : f \in ToSet(Content[d])}

\* The list names its files once, each monitored by the clients of the moment
\* and connected once, and nothing else is: whatever way a search is stopped,
\* reloaded or given up, no late report leaves a file behind.
FilesAreWatched ==
  \A f \in Files :
    /\ files[f] <= 1
    /\ watch[f] = IF f \in Listed(files) THEN directory.monitors ELSE {}
    /\ handlers[f] = files[f]

\* A report that is heeded comes from the search that is underway, whose engine
\* is still there, and uses nothing that has been freed.
ReportsAreCurrent ==
  idles # << >> =>
    /\ thread[Head(idles).search].step # "freed"
    /\ ~thread[Head(idles).search].cancelled =>
         directory.alive /\ directory.active = Head(idles).search

\* A search that is reported as finished has listed every file it should find,
\* however links lead in circles, and nothing else; before that, it has listed
\* nothing else.
ResultsAreComplete ==
  /\ Listed(files) \subseteq Hits(directory.engineQuery)
  /\ directory.alive /\ directory.running /\ directory.finished =>
       Listed(files) = Hits(directory.engineQuery)

\* "Add it to the pending callback list, which will be processed when the
\* directory has finished loading" (search_call_when_ready): a call waits
\* neither for the search nor for a file for ever.
Waits(k) == call[k].state = "pending" \/ call[k].left # {}
CallsEnd == \A k \in Calls : Waits(k) ~> ~Waits(k)

\* "If there are no ready files, we invoke the callback with an empty list"
\* (search_call_when_ready): no call is kept that waits for nothing.
EmptyIsAnswered == \A k \in Calls : call[k] # NoCall => Waits(k)

\* What are_all_files_seen says is so.
SeenIsListed == directory.finished => Listed(files) = Hits(directory.query)
=============================================================================
