--------------------------- MODULE FileChangesQueue ---------------------------
(***************************************************************************)
(* The queue of file changes of libbaul-private: file operations post      *)
(* changes to it from their I/O threads, the directory monitors post to it *)
(* from the main loop, and the main loop consumes it and sends the changes *)
(* on, grouped by kind, to the baul_directory_notify calls                 *)
(* (baul-file-changes-queue.c, baul-monitor.c).                            *)
(*                                                                         *)
(* A change is named by its arrival: the n-th change put on the queue is n *)
(* and posted[n] is its kind.                                              *)
(***************************************************************************)
EXTENDS Naturals, Sequences

CONSTANTS
  Jobs,         \* file operations, each with an I/O thread of its own
  MaxChanges    \* bound: how many changes are posted in one behaviour

ASSUME FileChangesAssumption == MaxChanges \in Nat

\* BaulFileChangeKind, without CHANGE_FILE_INITIAL, which nothing posts
Kinds == {"added", "changed", "removed", "moved", "position_set", "position_remove"}
Positions == {"position_set", "position_remove"}

\* The lists of baul_file_changes_consume_changes, in the order a flush sends them.
SendOrder == << "deletions", "moves", "additions", "changes", "positions" >>
Lists == {SendOrder[i] : i \in DOMAIN SendOrder}

ListOf == [added |-> "additions", changed |-> "changes", removed |-> "deletions",
           moved |-> "moves", position_set |-> "positions", position_remove |-> "positions"]

\* The kinds that may be collected while a list already holds changes.
Joins == [additions |-> {"added"} \cup Positions,
          changes   |-> {"changed"},
          moves     |-> {"moved"} \cup Positions,
          deletions |-> {"removed"},
          positions |-> {"added", "moved"} \cup Positions]

VARIABLES
  posted,       \* history: the kinds of all changes, in the order they arrived
  queue,        \* the changes on the queue, the oldest first
  consuming,    \* "none", or who runs baul_file_changes_consume_changes
  lists,        \* the changes it has collected and not yet sent
  sent,         \* history: the changes sent, in the order they were sent
  idle,         \* call_consume_changes_idle_id # 0
  job           \* job[j]: "running" in its thread, "done" when its done
                \* callback is scheduled on the main loop, "finished" after it

queueVars == << posted, queue, consuming, lists, sent, idle, job >>

Empty == [l \in Lists |-> << >>]

QueueInit ==
  /\ posted = << >> /\ queue = << >> /\ sent = << >>
  /\ consuming = "none" /\ lists = Empty
  /\ idle = FALSE
  /\ job = [j \in Jobs |-> "running"]

-----------------------------------------------------------------------------
(* baul_file_changes_queue_file_added and its like, under the mutex *)
PostChanges(ks) ==
  LET new == [i \in 1 .. Len(ks) |-> Len(posted) + i]
  IN  /\ Len(posted) + Len(ks) <= MaxChanges
      /\ posted' = posted \o ks
      /\ queue' = queue \o new

JobPosts(j) ==
  /\ job[j] = "running"
  /\ \E k \in Kinds : PostChanges(<< k >>)
  /\ UNCHANGED << consuming, lists, sent, idle, job >>

\* The thread is over; its done callback will run in the main loop.
JobThreadEnds(j) ==
  /\ job[j] = "running"
  /\ job' = [job EXCEPT ![j] = "done"]
  /\ UNCHANGED << posted, queue, consuming, lists, sent, idle >>

\* Mutant: the done callback does not consume the changes.
DoneCallbackSilently(j) ==
  /\ consuming = "none"
  /\ job[j] = "done"
  /\ job' = [job EXCEPT ![j] = "finished"]
  /\ UNCHANGED << posted, queue, consuming, lists, sent, idle >>

(* The done callbacks of the file operations consume what was posted.      *)
DoneCallback(j) ==
  /\ consuming = "none"
  /\ job[j] = "done"
  /\ job' = [job EXCEPT ![j] = "finished"]
  /\ consuming' = "job"
  /\ UNCHANGED << posted, queue, lists, sent, idle >>

(* dir_changed: baul_monitor_directory connects it to the monitor twice,   *)
(* so every event is queued twice.                                         *)
DirChanged ==
  /\ consuming = "none"
  /\ \E k \in {"added", "changed", "removed"} : PostChanges(<< k, k >>)
  /\ idle' = TRUE
  /\ UNCHANGED << consuming, lists, sent, job >>

(* call_consume_changes_idle_cb clears the id only when it is done.        *)
IdleConsumes ==
  /\ consuming = "none"
  /\ idle
  /\ consuming' = "idle"
  /\ UNCHANGED << posted, queue, lists, sent, idle, job >>

-----------------------------------------------------------------------------
(* baul_file_changes_consume_changes; every caller consumes all.           *)

FlushNeeded(k) == \E l \in Lists : lists[l] # << >> /\ k \notin Joins[l]

Collected ==
  lists[SendOrder[1]] \o lists[SendOrder[2]] \o lists[SendOrder[3]]
    \o lists[SendOrder[4]] \o lists[SendOrder[5]]

\* Mutant: the lists are not emptied when they are sent.
TakeChangeKeepingLists ==
  /\ consuming # "none"
  /\ queue # << >>
  /\ LET n == Head(queue)
     IN  /\ queue' = Tail(queue)
         /\ sent' = IF FlushNeeded(posted[n]) THEN sent \o Collected ELSE sent
         /\ lists' = [lists EXCEPT ![ListOf[posted[n]]] = Append(@, n)]
  /\ UNCHANGED << posted, consuming, idle, job >>

\* Take one change off the queue; send what was collected if it cannot join.
TakeChange ==
  /\ consuming # "none"
  /\ queue # << >>
  /\ LET n == Head(queue)
         flush == FlushNeeded(posted[n])
         kept == IF flush THEN Empty ELSE lists
     IN  /\ queue' = Tail(queue)
         /\ sent' = IF flush THEN sent \o Collected ELSE sent
         /\ lists' = [kept EXCEPT ![ListOf[posted[n]]] = Append(@, n)]
  /\ UNCHANGED << posted, consuming, idle, job >>

\* The queue is empty: send everything and return.
ConsumeEnds ==
  /\ consuming # "none"
  /\ queue = << >>
  /\ sent' = sent \o Collected
  /\ lists' = Empty
  /\ idle' = IF consuming = "idle" THEN FALSE ELSE idle
  /\ consuming' = "none"
  /\ UNCHANGED << posted, queue, job >>

-----------------------------------------------------------------------------
QueueNext ==
  \/ \E j \in Jobs : JobPosts(j) \/ JobThreadEnds(j) \/ DoneCallback(j)
  \/ DirChanged
  \/ IdleConsumes
  \/ TakeChange
  \/ ConsumeEnds

QueueSpec == QueueInit /\ [][QueueNext]_queueVars

\* The main loop runs its sources, and a file operation ends at last.
FairQueueSpec ==
  /\ QueueSpec
  /\ WF_queueVars(IdleConsumes)
  /\ WF_queueVars(TakeChange)
  /\ WF_queueVars(ConsumeEnds)
  /\ \A j \in Jobs : WF_queueVars(JobThreadEnds(j)) /\ SF_queueVars(DoneCallback(j))

-----------------------------------------------------------------------------
\* The kinds of changes the lists hold
Holds == [additions |-> {"added"}, changes |-> {"changed"}, moves |-> {"moved"},
          deletions |-> {"removed"}, positions |-> Positions]
Arrivals == DOMAIN posted

\* The types; each list holds changes of its own kinds, because its sender
\* casts them to the data that kind carries.
QueueTypeOK ==
  /\ posted \in Seq(Kinds)
  /\ queue \in Seq(Arrivals)
  /\ consuming \in {"none", "job", "idle"}
  /\ DOMAIN lists = Lists
  /\ \A l \in Lists : lists[l] \in Seq({n \in Arrivals : posted[n] \in Holds[l]})
  /\ sent \in Seq(Arrivals)
  /\ idle \in BOOLEAN
  /\ job \in [Jobs -> {"running", "done", "finished"}]

Members(s) == {s[i] : i \in DOMAIN s}

\* Every change posted is in exactly one place: on the queue, collected, or
\* sent; none is lost or sent twice, whatever the threads do meanwhile.
NothingLost ==
  LET all == sent \o Collected \o queue
  IN  Len(all) = Len(posted) /\ Members(all) = DOMAIN posted

\* A change is sent before one that arrived earlier only if the earlier one
\* is an icon position and the later one a file that appeared or moved: a
\* position is never handed on before a file that was announced before it,
\* and additions, changes, moves and removals keep their order.
OnlyPositionsAreOvertaken ==
  \A i, j \in DOMAIN sent :
    i < j /\ sent[j] < sent[i] =>
      posted[sent[j]] \in Positions /\ posted[sent[i]] \in {"added", "moved"}

\* The queue hands on what it was given.
HandsOnAll == NothingLost /\ OnlyPositionsAreOvertaken

\* "This is to ensure that the changes get sent off in the same order that
\* they arrived" (baul-file-changes-queue.c:282).
ArrivalOrder == \A i, j \in DOMAIN sent : i < j => sent[i] < sent[j]

\* When nothing is scheduled any more, nothing is left on the queue: no change
\* waits for an event that will not come.
NoStrandedChange ==
  consuming = "none" /\ ~idle /\ (\A j \in Jobs : job[j] = "finished") => queue = << >>

\* Every change is sent in the end.
EveryChangeIsSent ==
  \A n \in 1 .. MaxChanges : n \in DOMAIN posted ~> n \in Members(sent)
=============================================================================
