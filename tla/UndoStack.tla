------------------------------- MODULE UndoStack -------------------------------
(***************************************************************************)
(* The undo manager: libbaul-private/baul-undostack-manager.c.  Actions    *)
(* are pushed when the jobs that record them are done; undoing or redoing  *)
(* one starts a job whose callback comes later, and meanwhile the action   *)
(* is locked and new jobs record nothing.                                  *)
(*                                                                         *)
(* All of it runs on the main thread.  What the jobs do to files is left   *)
(* out here; FileOperations has it.  Labels and menu updates are left out. *)
(***************************************************************************)
EXTENDS Integers, Sequences, FiniteSets, SequencesExt

CONSTANTS
    Actions,  \* the undo data of the operations the user may perform
    Kinds,    \* the types of action: a subset of the ones below
    Levels,   \* undo_levels, which is 32
    Uses      \* "overlap": operations end while something is being undone

ASSUME LevelsAreSome == Levels \in Nat \ {0}

VARIABLES
    stack,    \* priv->stack, the newest action first
    index,    \* priv->index: how many of them are undone
    flag,     \* priv->undo_redo_flag
    kind,     \* action->type of each action
    locked,   \* the actions whose locked is TRUE
    doomed,   \* the actions whose freed is TRUE: to be freed when they are unlocked
    freed,    \* the actions whose memory was released
    fresh,    \* the operations that have not begun
    recording,\* the operations that are under way and have undo data
    running,  \* the actions that are being undone or redone
    misread   \* history: the actions a callback read after they were freed

vars == <<stack, index, flag, kind, locked, doomed, freed, fresh, recording, running, misread>>

\* Copies, links, duplicates, new files and trashed files are undone at once and
\* redone by a job; moves, renames and the like are undone and redone by a job.  A
\* recursive change of permissions that found no file has nothing to undo.
UndoneAtOnce == {"copy", "trash"}
NeverUndone == {"empty"}

Undone == {stack[i] : i \in 1..index}

Init ==
    /\ stack = << >> /\ index = 0
    /\ flag = FALSE
    /\ kind \in [Actions -> Kinds]
    /\ locked = {} /\ doomed = {} /\ freed = {}
    /\ fresh = Actions /\ recording = {} /\ running = {} /\ misread = {}

-----------------------------------------------------------------------------
\* Operations.  One that begins while the flag is up records nothing.
Begin(a) ==
    /\ a \in fresh
    /\ fresh' = fresh \ {a}
    /\ recording' = IF flag THEN recording ELSE recording \cup {a}
    /\ UNCHANGED <<stack, index, flag, kind, locked, doomed, freed, running, misread>>

\* Mutant: the oldest action is freed though it is being redone.
PushForgetsLocks(a) ==
    LET pushed == <<a>> \o SubSeq(stack, index + 1, Len(stack))
        oldest == Range(SubSeq(pushed, Levels + 1, Len(pushed)))
    IN /\ stack' = SubSeq(pushed, 1, IF Len(pushed) < Levels THEN Len(pushed) ELSE Levels)
       /\ index' = 0
       /\ doomed' = doomed
       /\ freed' = freed \cup Undone \cup oldest

\* Mutant: the redo actions stay where they are.
PushKeepsUndone(a) ==
    LET pushed == <<a>> \o stack
        oldest == Range(SubSeq(pushed, Levels + 1, Len(pushed)))
    IN /\ stack' = SubSeq(pushed, 1, IF Len(pushed) < Levels THEN Len(pushed) ELSE Levels)
       /\ index' = 0
       /\ doomed' = doomed \cup (oldest \cap locked)
       /\ freed' = freed \cup (oldest \ locked)

\* stack_push_action: what could be redone is freed, locked or not; of the oldest
\* actions beyond the limit those that are locked are freed later.
Push(a) ==
    LET pushed == <<a>> \o SubSeq(stack, index + 1, Len(stack))
        oldest == Range(SubSeq(pushed, Levels + 1, Len(pushed)))
    IN /\ stack' = SubSeq(pushed, 1, IF Len(pushed) < Levels THEN Len(pushed) ELSE Levels)
       /\ index' = 0
       /\ doomed' = doomed \cup (oldest \cap locked)
       /\ freed' = freed \cup Undone \cup (oldest \ locked)

Undisturbed == "overlap" \in Uses \/ Undone \cap running = {}

\* add_action, when an operation ends: it is pushed if anything was recorded.
End(a) ==
    /\ a \in recording /\ Undisturbed
    /\ recording' = recording \ {a}
    /\ \/ Push(a)
       \/ freed' = freed \cup {a} /\ UNCHANGED <<stack, index, doomed>>
    /\ UNCHANGED <<flag, kind, locked, fresh, running, misread>>

-----------------------------------------------------------------------------
\* undo and redo.  An action that is locked is not offered.

Starts(a) ==
    /\ locked' = locked \cup {a}
    /\ flag' = TRUE
    /\ running' = running \cup {a}

Undo ==
    /\ index < Len(stack)
    /\ LET a == stack[index + 1]
       IN /\ a \notin locked
          /\ index' = index + 1
          /\ CASE kind[a] \in UndoneAtOnce -> flag' = FALSE /\ UNCHANGED <<locked, running>>
               [] kind[a] \in NeverUndone ->
                    locked' = locked \cup {a} /\ flag' = TRUE /\ UNCHANGED running
               [] OTHER -> Starts(a)
    /\ UNCHANGED <<stack, kind, doomed, freed, fresh, recording, misread>>

Redo ==
    /\ index > 0
    /\ stack[index] \notin locked
    /\ index' = index - 1
    /\ Starts(stack[index])
    /\ UNCHANGED <<stack, kind, doomed, freed, fresh, recording, misread>>

\* Mutant: the flag stays up.
JobDoneKeepsFlag(a) ==
    /\ a \in running
    /\ running' = running \ {a}
    /\ freed' = freed \cup (doomed \cap {a})
    /\ misread' = misread \cup ({a} \cap freed')
    /\ locked' = locked \ {a}
    /\ UNCHANGED <<stack, index, flag, kind, doomed, fresh, recording>>

\* undo_redo_done_transfer_callback, the callback of every job that undoes or redoes.
\* It frees the action if it is doomed, and then reads action->manager to lower the
\* flag: in freed memory that may still be the manager, or anything.
JobDone(a) ==
    /\ a \in running
    /\ running' = running \ {a}
    /\ freed' = freed \cup (doomed \cap {a})
    /\ misread' = misread \cup ({a} \cap freed')
    /\ locked' = locked \ {a}
    /\ \/ flag' = FALSE
       \/ a \in freed' /\ flag' = flag
    /\ UNCHANGED <<stack, index, kind, doomed, fresh, recording>>

-----------------------------------------------------------------------------
\* What is left of s without the actions in gone, in the order it had.
IsLeft(l, s, gone) ==
    \E place \in [DOMAIN l -> DOMAIN s] :
        /\ \A m, n \in DOMAIN l : m < n => place[m] < place[n]
        /\ {place[n] : n \in DOMAIN l} = {n \in DOMAIN s : s[n] \notin gone}
        /\ \A n \in DOMAIN l : l[n] = s[place[n]]

\* trash_has_emptied: the actions that trashed files go, and those that had made
\* any of these files; which ones these are is left open.  They are not freed.
EmptyTrash ==
    /\ Undisturbed
    /\ LET kept == SubSeq(stack, index + 1, Len(stack))
           trashed == {a \in Range(kept) : kind[a] = "trash"}
       IN \E made \in SUBSET (Range(kept) \ trashed) :
            /\ trashed = {} => made = {}
            /\ \E left \in [1 .. Cardinality(Range(kept) \ (trashed \cup made)) -> Actions] :
                  /\ IsLeft(left, kept, trashed \cup made)
                  /\ stack' = left
    /\ index' = 0
    /\ freed' = freed \cup Undone
    /\ UNCHANGED <<flag, kind, locked, doomed, fresh, recording, running, misread>>

Next ==
    \/ \E a \in Actions : Begin(a) \/ End(a) \/ JobDone(a)
    \/ Undo \/ Redo \/ EmptyTrash

Spec == Init /\ [][Next]_vars

\* Jobs come to an end, and their callbacks are called.
FairSpec == Spec /\ \A a \in Actions : WF_vars(JobDone(a))

-----------------------------------------------------------------------------
TypeOK ==
    /\ stack \in Seq(Actions) /\ Len(stack) <= Levels
    /\ index \in 0..Len(stack)
    /\ IsInjective(stack)
    /\ flag \in BOOLEAN
    /\ locked \cup doomed \cup freed \cup recording \cup running \cup misread \subseteq Actions

\* Memory: what is on the stack, and what a job will come back to, is there.  The
\* exception: an action that fell off the stack while it was redone is freed by the
\* callback of its own job, which then reads it (baul-undostack-manager.c:1757-1767);
\* no other action is ever read after it was freed.
NothingElseFreedIsUsed ==
    /\ (Range(stack) \cup running) \cap freed = {}
    /\ misread \subseteq doomed

\* What is locked will be unlocked, and the flag is up only while a job undoes or
\* redoes something, so that operations are recorded again and every action on the
\* stack can be undone or redone again.
NothingStaysLocked == locked \subseteq running /\ (flag => running # {} \/ misread # {})

\* In the end operations are recorded again, unless a callback looked for the flag in
\* an action it had freed.
RecordingResumes == flag ~> ~flag \/ misread # {}

History ==
    INSTANCE UndoHistory WITH
        Ops <- Actions,
        done <- SubSeq(stack, index + 1, Len(stack)),
        undone <- Reverse(SubSeq(stack, 1, index))

\* The stack and its index are one history of operations.
ImplementsHistory == History!Spec
=============================================================================
