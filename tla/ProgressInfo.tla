----------------------------- MODULE ProgressInfo -----------------------------
(***************************************************************************)
(* Progress of file operations (libbaul-private/baul-progress-info.c): an  *)
(* operation thread (baul-file-operations.c) reports through an object     *)
(* that it shares with the main loop under a mutex; the main loop shows a  *)
(* widget for each operation, lets the user pause, queue and cancel it,    *)
(* and starts queued operations one after the other.                       *)
(*                                                                         *)
(* The main loop runs idle functions in the order they were posted; user   *)
(* events, timeouts and what a finished thread sends to the main loop have *)
(* a higher priority and may come before any of them.                      *)
(***************************************************************************)
EXTENDS Naturals, Sequences, SequencesExt

CONSTANTS
  Ops,        \* the operations
  Queueable,  \* those that wait for their turn: copies and moves
  Asking,     \* those that report their progress and ask questions
  Items,      \* bound: how many files an operation works on
  MaxClicks   \* bound: how often the user clicks on a button

ASSUME ProgressInfoAssumption ==
  /\ Queueable \subseteq Ops /\ Asking \subseteq Ops /\ Items \in Nat \ {0} /\ MaxClicks \in Nat

VARIABLES
  info,    \* the BaulProgressInfo of each operation
  widget,  \* its ProgressWidgetData
  box,     \* the widgets from top to bottom; there are n_progress_ops
  idles,   \* the idle functions that are posted
  pc,      \* where the thread of each operation is
  left,    \* how many files it has before it, the scan counted as one
  clicks   \* how many clicks there were

mainVars == << info, widget, box, idles >>
vars == << mainVars, pc, left, clicks >>

Signals == {"started", "changed", "finished"}
Places == {"none", "work", "asking", "ready", "asleep", "done", "over"}
States == {"initialized", "running", "pausing", "paused", "queuing", "queued"}

\* can_pause is contains_multiple_items where an operation can wait at all.
NewInfo(o) ==
  [refs |-> 1, started |-> FALSE, finished |-> FALSE, asking |-> FALSE,
   waiting |-> o \in Queueable, canPause |-> o \in Queueable /\ Items > 1,
   cancelled |-> FALSE, source |-> "none", atIdle |-> {}]

NoWidget == [state |-> "none", startOff |-> FALSE, cancelOff |-> FALSE]

Init ==
  /\ info = [o \in Ops |-> NewInfo(o)]
  /\ widget = [o \in Ops |-> NoWidget]
  /\ box = << >> /\ idles = << >>
  /\ pc = [o \in Ops |-> "none"] /\ left = [o \in Ops |-> Items + 1]
  /\ clicks = 0

\* The main loop's part of the state as one value, for the operators below.
Main == [info |-> info, widget |-> widget, box |-> box, idles |-> idles]
Becomes(v) ==
  \E u \in {v} :
    /\ info' = u.info /\ widget' = u.widget /\ box' = u.box /\ idles' = u.idles

Post(u, i) == [u EXCEPT !.idles = Append(@, i)]
Emission(o) == [kind |-> "emit", op |-> o, widget |-> TRUE]

-----------------------------------------------------------------------------
(* Signals from the thread to the main loop.                               *)

(* queue_idle: an idle function takes the place of a timeout.              *)
QueueIdle(u, o, now) ==
  IF u.info[o].source = "none" \/ (now /\ u.info[o].source = "timeout")
  THEN LET v == [u EXCEPT !.info[o].source = IF now THEN "idle" ELSE "timeout"]
       IN IF now THEN Post(v, Emission(o)) ELSE v
  ELSE u

Signal(u, o, s, now) ==
  QueueIdle([u EXCEPT !.info[o].atIdle = @ \cup {s}], o, now)

WithoutFirst(s, e) ==
  LET k == SelectInSeq(s, LAMBDA x : x = e) IN IF k = 0 THEN s ELSE RemoveAt(s, k)

(* The last g_object_unref, with baul_progress_info_dispose.               *)
Unref(u, o) ==
  IF u.info[o].refs > 1
  THEN [u EXCEPT !.info[o].refs = @ - 1]
  ELSE [u EXCEPT !.info[o].refs = 0, !.info[o].source = "none",
                 !.info[o].atIdle = {},
                 !.idles = WithoutFirst(@, Emission(o))]

-----------------------------------------------------------------------------
(* The widgets.                                                            *)

Stopped(state) == state \in {"paused", "queued"}     \* is_op_paused
Shown(u) == {o \in Ops : u.widget[o].state \notin {"none", "gone"}}
Running(u) == {o \in Shown(u) : ~Stopped(u.widget[o].state)}

\* get_first_queued_widget: its place in the box, 0 if there is none.
FirstQueued(u) ==
  SelectInSeq(u.box, LAMBDA o : u.widget[o].state \in {"queued", "queuing"})

\* ctk_box_reorder_child; beyond the end means at the end.
Reorder(s, o, position) ==
  LET rest == WithoutFirst(s, o)
  IN IF position < Len(rest) THEN InsertAt(rest, position + 1, o) ELSE Append(rest, o)

\* How many widgets are above the first stopped one (other than o).
Above(u, o) ==
  LET first == SelectInSeq(u.box, LAMBDA p : p # o /\ Stopped(u.widget[p].state))
  IN IF first = 0 THEN Len(u.box) ELSE first - 1

(* widget_reposition_as_paused: i comes out one less than the index of the *)
(* first other stopped widget, and -1 is the end.                          *)
RepositionAsPaused(u, o) ==
  LET i == Above(u, o)
  IN [u EXCEPT !.box = Reorder(@, o, IF i = 0 THEN Len(u.box) ELSE i - 1)]

(* widget_reposition_as_running *)
RepositionAsRunning(u, o) ==
  LET i == Above(u, o)
  IN IF \E k \in 1 .. i : u.box[k] = o THEN u
     ELSE [u EXCEPT !.box = Reorder(@, o, i)]

RepositionAsQueued(u, o) == [u EXCEPT !.box = Reorder(@, o, Len(u.box) - 1)]

(* start_button_update_view: the button is never made sensitive again.     *)
UpdateButtons(u, o) ==
  IF u.widget[o].state \in {"running", "queuing"} /\ ~u.info[o].canPause
  THEN [u EXCEPT !.widget[o].startOff = TRUE]
  ELSE u

\* queue_button_update_view
QueueButtonOn(o) ==
  info[o].canPause /\ widget[o].state \notin {"queuing", "queued"}

\* Mutant: the thread is not told that it may go on.
ToRunningUnsignalled(u, o) ==
  UpdateButtons(RepositionAsRunning([u EXCEPT !.widget[o].state = "running"], o), o)

(* widget_state_transit_to STATE_RUNNING, STATE_PAUSING or STATE_QUEUING   *)
ToRunning(u, o) ==
  UpdateButtons(RepositionAsRunning(
    [u EXCEPT !.widget[o].state = "running", !.info[o].waiting = FALSE], o), o)

ToPending(u, o, state) ==
  UpdateButtons([u EXCEPT !.widget[o].state = state, !.info[o].waiting = TRUE], o)

(* update_queue *)
UpdateQueue(u) ==
  IF Running(u) = {} /\ FirstQueued(u) # 0 THEN ToRunning(u, u.box[FirstQueued(u)]) ELSE u

(* widget_state_transit_to STATE_PAUSED or STATE_QUEUED                    *)
ToPaused(u, o) ==
  UpdateButtons(UpdateQueue(RepositionAsPaused(
    [u EXCEPT !.widget[o].state = "paused"], o)), o)

ToQueued(u, o) ==
  UpdateButtons(UpdateQueue(RepositionAsQueued(
    [u EXCEPT !.widget[o].state = "queued", !.info[o].waiting = TRUE], o)), o)

\* Mutant: the widget keeps no reference to its operation.
HandleNewUnreferenced(u, o) ==
  LET v == [u EXCEPT !.widget[o] = [NoWidget EXCEPT !.state = "initialized"],
                     !.box = Append(@, o)]
  IN IF u.info[o].waiting /\ Running(v) # {} THEN ToQueued(v, o) ELSE ToRunning(v, o)

(* handle_new_progress_info *)
HandleNew(u, o) ==
  LET v == [u EXCEPT !.widget[o] = [NoWidget EXCEPT !.state = "initialized"],
                     !.info[o].refs = @ + 1,
                     !.box = Append(@, o)]
  IN IF u.info[o].waiting /\ Running(v) # {} THEN ToQueued(v, o) ELSE ToRunning(v, o)

(* new_op_started *)
Started(u, o) ==
  IF u.info[o].finished THEN u
  ELSE LET v == HandleNew(u, o)
       IN IF v.info[o].waiting /\ Running(v) = {}
          THEN [v EXCEPT !.info[o].waiting = FALSE]
          ELSE v

\* Mutant: the end of an operation does not start the next one.
FinishedAlone(u, o) ==
  IF u.widget[o].state \in {"none", "gone"} THEN u
  ELSE Unref([u EXCEPT !.widget[o].state = "gone",
                       !.box = WithoutFirst(@, o)], o)

(* op_finished *)
Finished(u, o) ==
  IF u.widget[o].state \in {"none", "gone"} THEN u
  ELSE UpdateQueue(Unref([u EXCEPT !.widget[o].state = "gone",
                                   !.box = WithoutFirst(@, o)], o))

(* idle_callback, called from an idle function or a timeout                *)
Emit(u, o) ==
  LET signals == u.info[o].atIdle
      ref == [u EXCEPT !.info[o].source = "none", !.info[o].atIdle = {},
                       !.info[o].refs = @ + 1]
      started == IF "started" \in signals THEN Started(ref, o) ELSE ref
      finished == IF "finished" \in signals THEN Finished(started, o) ELSE started
  IN Unref(finished, o)

(* widget_state_notify_paused_callback *)
NotifyPaused(u, i) ==
  IF ~i.widget THEN u
  ELSE IF u.widget[i.op].state = "pausing" THEN ToPaused(u, i.op)
  ELSE IF u.widget[i.op].state = "queuing" THEN ToQueued(u, i.op)
  ELSE u

(* do_disable_pause *)
DisablePause(u, o) == UpdateButtons([u EXCEPT !.info[o].canPause = FALSE], o)

RunIdle ==
  /\ idles # << >>
  /\ LET i == Head(idles)
         u == [Main EXCEPT !.idles = Tail(@)]
     IN Becomes(CASE i.kind = "emit"   -> Emit(u, i.op)
                  [] i.kind = "notify" -> NotifyPaused(u, i)
                  [] i.kind = "off"    -> DisablePause(u, i.op))
  /\ UNCHANGED << pc, left, clicks >>

RunTimeout(o) ==
  /\ info[o].source = "timeout"
  /\ Becomes(Emit(Main, o))
  /\ UNCHANGED << pc, left, clicks >>


-----------------------------------------------------------------------------
(* The user.                                                               *)

Clickable(o) ==
  /\ clicks < MaxClicks
  /\ widget[o].state \notin {"none", "gone"}
  /\ clicks' = clicks + 1

(* start_clicked *)
StartClicked(o) ==
  /\ Clickable(o) /\ ~widget[o].startOff
  /\ Becomes(IF widget[o].state \in {"running", "queuing"}
             THEN ToPending(Main, o, "pausing")
             ELSE ToRunning(Main, o))
  /\ UNCHANGED << pc, left >>

(* queue_clicked *)
QueueClicked(o) ==
  /\ Clickable(o) /\ QueueButtonOn(o)
  /\ Becomes(IF widget[o].state = "paused"
             THEN ToQueued(Main, o)
             ELSE ToPending(Main, o, "queuing"))
  /\ UNCHANGED << pc, left >>

(* cancel_clicked *)
CancelClicked(o) ==
  /\ Clickable(o) /\ ~widget[o].cancelOff
  /\ Becomes(DisablePause([Main EXCEPT !.info[o].cancelled = TRUE,
                                       !.info[o].waiting = FALSE,
                                       !.widget[o].cancelOff = TRUE], o))
  /\ UNCHANGED << pc, left >>

-----------------------------------------------------------------------------
(* The operation thread.                                                   *)

Goes(o, place) == pc' = [pc EXCEPT ![o] = place]

(* init_common makes the operation and its thread, and the first thing the *)
(* thread does is baul_progress_info_start.                                *)
Start(o) ==
  /\ pc[o] = "none"
  /\ Becomes(Signal([Main EXCEPT !.info[o].started = TRUE], o, "started", TRUE))
  /\ Goes(o, "work")
  /\ UNCHANGED << left, clicks >>

(* baul_progress_info_set_status and its like: what is reported changes    *)
Report(o) ==
  /\ o \in Asking /\ pc[o] = "work"
  /\ Becomes(Signal(Main, o, "changed", FALSE))
  /\ UNCHANGED << pc, left, clicks >>

(* The last file of an operation that can be paused: copies get ready      *)
(* before they disable it, moves afterwards.                               *)
LastFile(o) ==
  /\ o \in Queueable /\ left[o] = 1 /\ pc[o] \in {"ready", "work"}
  /\ \A k \in DOMAIN idles : idles[k].kind = "off" => idles[k].op # o
  /\ Becomes(Post(Main, [kind |-> "off", op |-> o, widget |-> TRUE]))
  /\ UNCHANGED << pc, left, clicks >>

(* baul_progress_info_get_ready: widget is what info->widget is now.       *)
GetReady(o) ==
  /\ pc[o] = "ready"
  /\ IF info[o].waiting
     THEN /\ Becomes(Post(Main, [kind |-> "notify", op |-> o,
                                 widget |-> widget[o].state # "none"]))
          /\ Goes(o, "asleep")
     ELSE Goes(o, "work") /\ UNCHANGED mainVars
  /\ UNCHANGED << left, clicks >>

(* The end of its loop around g_cond_wait.                                 *)
Wake(o) ==
  /\ pc[o] = "asleep" /\ ~info[o].waiting
  /\ Goes(o, "work")
  /\ UNCHANGED << mainVars, left, clicks >>

(* run_simple_dialog_va, run_conflict_dialog: the thread waits for the     *)
(* answer, which may be to cancel (abort_job).                             *)
Ask(o) ==
  /\ o \in Asking /\ pc[o] = "work"
  /\ info' = [info EXCEPT ![o].asking = TRUE]
  /\ Goes(o, "asking")
  /\ UNCHANGED << widget, box, idles, left, clicks >>

Answer(o) ==
  /\ pc[o] = "asking"
  /\ \E abort \in BOOLEAN :
       info' = [info EXCEPT ![o].asking = FALSE, ![o].cancelled = @ \/ abort]
  /\ Goes(o, "work")
  /\ UNCHANGED << widget, box, idles, left, clicks >>

(* The end of the scan or of a file: the loops of copy_files, copy_move_directory, *)
(* move_files and trash_files go on unless the job is aborted.             *)
NextFile(o) ==
  /\ pc[o] = "work"
  /\ left' = [left EXCEPT ![o] = @ - 1]
  /\ Goes(o, IF info[o].cancelled \/ left[o] = 1 THEN "done" ELSE "ready")
  /\ UNCHANGED << mainVars, clicks >>

(* move_job_done, copy_job_done and the like, with finalize_common         *)
JobDone(o) ==
  /\ pc[o] = "done"
  /\ Becomes(Unref(Signal([Main EXCEPT !.info[o].finished = TRUE],
                          o, "finished", TRUE), o))
  /\ Goes(o, "over")
  /\ UNCHANGED << left, clicks >>

-----------------------------------------------------------------------------
ThreadStep(o) ==
  GetReady(o) \/ Wake(o) \/ NextFile(o) \/ Answer(o) \/ JobDone(o)

Next ==
  \/ RunIdle
  \/ \E o \in Ops :
       \/ Start(o) \/ ThreadStep(o) \/ Report(o) \/ LastFile(o) \/ Ask(o)
       \/ RunTimeout(o)
       \/ StartClicked(o) \/ QueueClicked(o) \/ CancelClicked(o)

Spec == Init /\ [][Next]_vars

(* The main loop gets to its idle functions, threads run, and questions    *)
(* are answered, not always so that the same one is asked again.  The user *)
(* need not click.  The conjuncts name the variable that only the steps    *)
(* they are about change in that way; Next says what else those steps do.  *)
Runnable(o) ==
  \/ pc[o] \in {"ready", "work", "asking", "done"}
  \/ pc[o] = "asleep" /\ ~info[o].waiting
ThreadRuns(o) == Runnable(o) /\ \E place \in Places : pc' = [pc EXCEPT ![o] = place]
FileEnds(o) ==
  pc[o] = "work" /\ \E place \in {"ready", "done"} : pc' = [pc EXCEPT ![o] = place]
IdleRuns == idles # << >> /\ \E i \in {Tail(idles)} : idles' = i

FairSpec ==
  /\ Spec
  /\ WF_idles(IdleRuns)
  /\ \A o \in Ops : WF_pc(ThreadRuns(o)) /\ SF_pc(FileEnds(o))

-----------------------------------------------------------------------------
Idles ==
  [kind : {"emit", "notify", "off"}, op : Ops, widget : BOOLEAN]

TypeOK ==
  /\ info \in [Ops -> [refs : 0 .. 3, started : BOOLEAN, finished : BOOLEAN,
                       asking : BOOLEAN, waiting : BOOLEAN, canPause : BOOLEAN,
                       cancelled : BOOLEAN, source : {"none", "idle", "timeout"},
                       atIdle : SUBSET Signals]]
  /\ widget \in [Ops -> [state : States \cup {"none", "gone"}, startOff : BOOLEAN,
                         cancelOff : BOOLEAN]]
  /\ box \in Seq(Ops) /\ IsInjective(box)
  /\ ToSet(box) = Shown(Main)
  /\ idles \in Seq(Idles)
  /\ pc \in [Ops -> Places]
  /\ left \in [Ops -> 0 .. Items + 1] /\ clicks \in 0 .. MaxClicks

(* An idle function holds no reference to the operation or the widget it is*)
(* called with: whenever one is called, both are there still.              *)
NoDanglingCallback ==
  idles # << >> =>
    LET i == Head(idles) IN
      /\ info[i.op].refs > 0
      /\ i.kind = "notify" /\ i.widget => widget[i.op].state # "gone"
      /\ i.kind = "off" => widget[i.op].state \notin {"none", "gone"}

(* The stopped operations are at the bottom, as the comments of the        *)
(* widget_reposition functions say.                                        *)
StoppedAreBelow ==
  \A j \in DOMAIN box : \A k \in j .. Len(box) :
    Stopped(widget[box[j]].state) => Stopped(widget[box[k]].state)

(* What a widget shows is what its thread will do: it stops at its next    *)
(* file if and only if the widget says so, unless it was cancelled.        *)
WaitsAsShown ==
  \A o \in Ops :
    /\ widget[o].state \in {"initialized", "running"} => ~info[o].waiting
    /\ widget[o].state \in {"pausing", "paused", "queuing", "queued"}
         => info[o].waiting \/ info[o].cancelled

(* No signal is lost when one source replaces another: an operation that   *)
(* is over has no widget once its signals were given.                      *)
NothingLeftOver ==
  \A o \in Ops :
    pc[o] = "over" /\ info[o].source = "none"
      => widget[o].state \in {"none", "gone"}

(* A sleeping thread has told the main loop, or is about to.  (The comment *)
(* in baul_progress_info_get_ready says it does.)                          *)
SleepIsNotified ==
  \A o \in ToSet(box) :
    pc[o] = "asleep" /\ info[o].waiting =>
      \/ Stopped(widget[o].state)
      \/ \E k \in DOMAIN idles : idles[k].kind = "notify" /\ idles[k].op = o

\* Its thread sleeps, but its widget never got to know.
Unnoticed(o) == pc[o] = "asleep" /\ widget[o].state \in {"pausing", "queuing"}

(* A queued operation gets its turn, unless the one before it sleeps       *)
(* unnoticed.                                                              *)
QueueMoves ==
  \A o \in Ops :
    widget[o].state = "queued"
      ~> (widget[o].state # "queued" \/ \E p \in Ops : Unnoticed(p))
=============================================================================
