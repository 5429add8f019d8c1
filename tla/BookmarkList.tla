------------------------------ MODULE BookmarkList ------------------------------
(* The list of bookmarks and the file it is kept in                          *)
(* (baul-bookmark-list.c): its queue of loads and saves, done one after the  *)
(* other by GIO, the monitor that notices what other programs write, and the *)
(* user, who changes the list at any time.                                   *)
EXTENDS Naturals, Sequences, FiniteSets, SequencesExt

CONSTANTS
  Bookmarks,
  NoFile,      \* there is no bookmarks file
  MaxLength,   \* bound on the bookmarks in the list
  MaxActs,     \* bound on what the user does
  MaxWrites,   \* bound on what other programs write
  MaxErrors    \* bound on failed reads and writes

Contents == SeqOf(Bookmarks, MaxLength)

ASSUME BookmarkAssumption == NoFile \notin Seq(Bookmarks)

VARIABLES
  list,     \* bookmarks->list
  ops,      \* pending_ops, the operation that is done now first
  job,      \* what GIO does for it
  monitor,  \* the file is monitored, and whether it has something to tell
  file,     \* the bookmarks file
  legacy,   \* the file of older versions, read when there is no other
  owed,     \* ghost: bookmarks the list has read or saved and nobody has taken out
  unread,   \* ghost: those of them that a failed read has left out of the list
  behind,   \* ghost: the file was written unnoticed, or could not be read or written
  acts, writes, errors

listVars == << list, ops, job, monitor, file, legacy, owed, unread, behind, acts, writes, errors >>

(***************************************************************************)
(* The queue. s is all that a call may change.                             *)
(***************************************************************************)
Now == [list |-> list, ops |-> ops, job |-> job, monitor |-> monitor]

Becomes(s) ==
  /\ list' = s.list
  /\ ops' = s.ops
  /\ job' = s.job
  /\ monitor' = s.monitor

NoJob == [step |-> "none", from |-> "file", text |-> << >>]

\* load_file_async: the list is cleared at once, and filled when the file is read.
LoadAsync(s) ==
  [s EXCEPT !.list = << >>,
            !.job = [step |-> "reads", text |-> << >>,
                     from |-> IF file = NoFile THEN "legacy" ELSE "file"]]

\* save_file_async: what is written is the list of this moment. The monitor is
\* cancelled, with what it has not told yet.
SaveAsync(s) ==
  [s EXCEPT !.job = [step |-> "writes", text |-> s.list, from |-> "file"],
            !.monitor = [on |-> FALSE, event |-> FALSE]]

\* process_next_op
ProcessNextOp(s) == IF Head(s.ops) = "load" THEN LoadAsync(s) ELSE SaveAsync(s)

\* baul_bookmark_list_load_file, baul_bookmark_list_save_file
Ask(s, op) ==
  LET asked == [s EXCEPT !.ops = Append(@, op)]
  IN IF Len(asked.ops) = 1 THEN ProcessNextOp(asked) ELSE asked

(***************************************************************************)
(* The user.                                                               *)
(***************************************************************************)
\* The list becomes l, from which the bookmarks gone were taken, and is saved.
Edit(l, gone) ==
  /\ acts < MaxActs
  /\ acts' = acts + 1
  /\ Becomes(Ask([Now EXCEPT !.list = l], "save"))
  /\ owed' = owed \ gone
  /\ unread' = unread \ gone
  /\ UNCHANGED << file, legacy, behind, writes, errors >>

\* baul_bookmark_list_insert_item; after the last one, baul_bookmark_list_append
InsertItem(b, index) ==
  /\ Len(list) < MaxLength
  /\ index \in 0 .. Len(list)
  /\ Edit(InsertAt(list, index + 1, b), {})

\* baul_bookmark_list_delete_item_at
DeleteItemAt(n) ==
  /\ n \in DOMAIN list
  /\ Edit(RemoveAt(list, n), {list[n]})

\* baul_bookmark_list_delete_items_with_uri: what is left is l, in the order it had.
IsWithout(l, b) ==
  \E place \in [DOMAIN l -> DOMAIN list] :
    /\ \A m, n \in DOMAIN l : m < n => place[m] < place[n]
    /\ {place[n] : n \in DOMAIN l} = {n \in DOMAIN list : list[n] # b}
    /\ \A n \in DOMAIN l : l[n] = list[place[n]]

DeleteItemsWithUri(b) ==
  /\ b \in ToSet(list)
  /\ \E l \in [1 .. Cardinality({n \in DOMAIN list : list[n] # b}) -> Bookmarks \ {b}] :
       IsWithout(l, b) /\ Edit(l, {b})

\* baul_bookmark_list_move_item
MoveItem(n, destination) ==
  LET rest == RemoveAt(list, n)
  IN /\ n \in DOMAIN list
     /\ destination \in 1 .. Len(list) + 1
     /\ n # destination
     /\ Edit(InsertAt(rest, IF n < destination THEN destination - 1 ELSE destination, list[n]), {})

\* bookmark_in_list_changed_callback: the folder was moved or renamed, or the
\* bookmark got another label.
BookmarkChanged(n, b) ==
  /\ n \in DOMAIN list
  /\ Edit([list EXCEPT ![n] = b], {list[n]} \ {b})

(***************************************************************************)
(* Other programs.                                                         *)
(***************************************************************************)
\* A program writes the file or removes it. Of what the monitor tells, a removal
\* is ignored.
Write(text) ==
  LET noticed == monitor.on /\ text # NoFile IN
  /\ writes < MaxWrites
  /\ writes' = writes + 1
  /\ text # file
  /\ file' = text
  /\ owed' = IF text = NoFile THEN {} ELSE owed \cap ToSet(text)
  /\ unread' = unread \cap owed'
  /\ monitor' = [monitor EXCEPT !.event = @ \/ noticed]
  /\ behind' = (behind \/ ~noticed)
  /\ UNCHANGED << list, ops, job, legacy, acts, errors >>

\* Mutant: nothing is asked while something is done already.
MonitorChangedIdle ==
  /\ monitor.event
  /\ LET told == [Now EXCEPT !.monitor.event = FALSE]
     IN Becomes(IF ops = << >> THEN Ask(told, "load") ELSE told)
  /\ UNCHANGED << file, legacy, owed, unread, behind, acts, writes, errors >>

\* bookmark_monitor_changed_cb
MonitorChanged ==
  /\ monitor.event
  /\ Becomes(Ask([Now EXCEPT !.monitor.event = FALSE], "load"))
  /\ UNCHANGED << file, legacy, owed, unread, behind, acts, writes, errors >>

(***************************************************************************)
(* What GIO does, and the callback.                                        *)
(***************************************************************************)
\* g_file_load_contents_async. A bookmark in the legacy file is owed only when it
\* has been saved.
Read ==
  LET text == IF job.from = "file" THEN file ELSE legacy IN
  /\ job.step = "reads"
  /\ job' = [job EXCEPT !.step = "done", !.text = IF text = NoFile THEN << >> ELSE text]
  /\ owed' = IF job.from = "file" /\ file # NoFile THEN owed \cup ToSet(file) ELSE owed
  /\ unread' = IF job.from = "file" /\ file # NoFile THEN unread \ ToSet(file) ELSE unread
  /\ behind' = (text = NoFile)
  /\ UNCHANGED << list, ops, monitor, file, legacy, acts, writes, errors >>

\* A file that cannot be read leaves the list empty, and the next save writes it so.
ReadFails ==
  /\ job.step = "reads"
  /\ errors < MaxErrors
  /\ errors' = errors + 1
  /\ job' = [job EXCEPT !.step = "done"]
  /\ unread' = owed
  /\ behind' = TRUE
  /\ UNCHANGED << list, ops, monitor, file, legacy, owed, acts, writes >>

\* g_file_replace_contents_async
Written ==
  /\ job.step = "writes"
  /\ job' = [job EXCEPT !.step = "done"]
  /\ file' = job.text
  /\ owed' = owed \cup (ToSet(job.text) \cap ToSet(list))
  /\ unread' = unread \ (ToSet(job.text) \cap ToSet(list))
  /\ behind' = FALSE
  /\ UNCHANGED << list, ops, monitor, legacy, acts, writes, errors >>

WriteFails ==
  /\ job.step = "writes"
  /\ errors < MaxErrors
  /\ errors' = errors + 1
  /\ job' = [job EXCEPT !.step = "done"]
  /\ behind' = TRUE
  /\ UNCHANGED << list, ops, monitor, file, legacy, owed, unread, acts, writes >>

\* load_file_finish, save_file_finish
Finished(s) ==
  IF Head(s.ops) = "load"
  THEN [s EXCEPT !.list = @ \o s.job.text, !.job = NoJob]
  ELSE [s EXCEPT !.monitor = [on |-> TRUE, event |-> FALSE], !.job = NoJob]

\* Mutant: the next operation is begun before the answer is taken in.
OpProcessedLate ==
  LET popped == [Now EXCEPT !.ops = Tail(@), !.job = NoJob]
      next == IF popped.ops = << >> THEN popped ELSE ProcessNextOp(popped)
  IN /\ job.step = "done"
     /\ Becomes(IF Head(ops) = "load" THEN [next EXCEPT !.list = @ \o job.text]
                ELSE [next EXCEPT !.monitor = [on |-> TRUE, event |-> FALSE]])
     /\ UNCHANGED << file, legacy, owed, unread, behind, acts, writes, errors >>

\* op_processed_cb
OpProcessed ==
  LET popped == [Finished(Now) EXCEPT !.ops = Tail(@)]
  IN /\ job.step = "done"
     /\ Becomes(IF popped.ops = << >> THEN popped ELSE ProcessNextOp(popped))
     /\ UNCHANGED << file, legacy, owed, unread, behind, acts, writes, errors >>

-----------------------------------------------------------------------------
\* baul_bookmark_list_init: the first load is underway.
ListInit ==
  /\ file \in Contents \cup {NoFile}
  /\ legacy \in {<< >>} \cup {<< b >> : b \in Bookmarks}
  /\ list = << >>
  /\ ops = << "load" >>
  /\ job = [step |-> "reads", text |-> << >>,
            from |-> IF file = NoFile THEN "legacy" ELSE "file"]
  /\ monitor = [on |-> TRUE, event |-> FALSE]
  /\ owed = {} /\ unread = {}
  /\ behind = FALSE
  /\ acts = 0 /\ writes = 0 /\ errors = 0

User ==
  \/ \E b \in Bookmarks, n \in 0 .. MaxLength : InsertItem(b, n)
  \/ \E n \in DOMAIN list : DeleteItemAt(n)
  \/ \E b \in Bookmarks : DeleteItemsWithUri(b)
  \/ \E n \in DOMAIN list, d \in 1 .. MaxLength + 1 : MoveItem(n, d)
  \/ \E n \in DOMAIN list, b \in Bookmarks : BookmarkChanged(n, b)

Gio == Read \/ ReadFails \/ Written \/ WriteFails

ListNext ==
  \/ User
  \/ \E text \in Contents \cup {NoFile} : Write(text)
  \/ MonitorChanged
  \/ Gio
  \/ OpProcessed

ListSpec == ListInit /\ [][ListNext]_listVars

\* GIO answers, and the main loop runs.
FairListSpec == ListSpec /\ WF_listVars(Gio) /\ WF_listVars(OpProcessed) /\ WF_listVars(MonitorChanged)
-----------------------------------------------------------------------------
(***************************************************************************)
(* Properties.                                                             *)
(***************************************************************************)
\* What the list has once read from the file, or saved to it, stays in the file
\* until somebody takes it out: no save writes a list that a load has cleared and
\* is still to fill, however loads, saves and changes from outside follow each
\* other. The exception is a read that fails (load_file_finish, 569-573): the list
\* stays cleared, and what it has not read or saved again since is lost with the
\* next save.
NothingIsLost == owed \ unread \subseteq (IF file = NoFile THEN {} ELSE ToSet(file))

\* Every load and save ends, and in the end the list is what the file says,
\* unless the file was written unnoticed or could not be read or written.
Kept == IF file = NoFile THEN legacy ELSE file
ListSettles == <>[](ops = << >> /\ (behind \/ list = Kept))
=============================================================================
