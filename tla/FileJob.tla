-------------------------------- MODULE FileJob --------------------------------
(***************************************************************************)
(* What the jobs of libbaul-private/baul-file-operations.c share: the disk  *)
(* they work on, the files they go through, the calls they are in, the     *)
(* answers they remember, and what they tell the undo data and the views.  *)
(*                                                                         *)
(* The recursion of the functions that copy, move or delete a file or a    *)
(* folder is the stack: one frame per call.  A name is a pair <<base, n>>, *)
(* n being the number of its copy ("x", "x (copy)", "x (another copy)").   *)
(* The content of a file is the path at which the file was when the job    *)
(* began, so contents are never confused.  GIO is external.  A dialog is   *)
(* answered within the step that shows it, the thread being blocked        *)
(* meanwhile; RETRY answers, which lead back to the state the step began   *)
(* in, are left out.                                                       *)
(***************************************************************************)
EXTENDS Integers, Sequences, FiniteSets, SequencesExt

CONSTANTS
    Disks,       \* the disks a job may find: functions from paths to contents
    Bins,        \* what it may find in the trash: sets of [from, tree, time]
    Jobs,        \* the jobs: [kind, crossing, files, outright, destination]
    NewNames,    \* the names the user types in the conflict dialog
    Unwritable,  \* the names the file system of the destination refuses
    Mended,      \* the name get_target_file makes of a refused one
    Uses         \* "error": steps fail; "scan": sources cannot be read;
                 \* "cancel": the user stops the job; "taken": the user types
                 \* names that are taken; "undo", "undo_move": what was done, or
                 \* moved, is undone when it is over; "empty": the trash is emptied

VARIABLES
    disk,      \* what is there: path -> Folder or the content of a file
    before,    \* what was there when the job began
    trash,     \* what is in the trash
    job,       \* what the user asked for
    phase,     \* where the I/O thread is, or "done", "undone", "emptied"
    todo,      \* the list being walked: [src, over]
    fallbacks, \* what move_files_prepare could not do, or what is not dealt with
               \* in this list: [src, over]
    stack,     \* the calls that walk the folders
    mends,     \* *dest_fs_type of the top level has been asked for
    flags,     \* the answers that are remembered, and whether the job is aborted
    skip,      \* job->skip_files
    agreed,    \* the contents the user agreed to lose
    always,    \* the user chose to lose every file that is in the way
    pairs,     \* the origins and targets in the undo data, in order
    undoing,   \* the job carries back what another has moved
    known      \* the paths the views know of, from what the job tells them

vars == <<disk, before, trash, job, phase, todo, fallbacks, stack, mends, flags, skip,
          agreed, always, pairs, undoing, known>>

Folder == << >>
Flag == {"aborted", "skipErrors", "skipConflicts", "mergeAll", "replaceAll", "deleteAll"}

Over == {"done", "undone", "emptied"}
Copies == job.kind \in {"copy", "duplicate"}
Moves == job.kind = "move"
Removes == job.kind \in {"delete", "trash"}

IsFolder(p) == p \in DOMAIN disk /\ disk[p] = Folder
Under(p) == {q \in DOMAIN disk : IsPrefix(p, q)}
Contents(p) == {disk[q] : q \in Under(p)} \ {Folder}
Children(p) == {Last(q) : q \in {r \in Under(p) : Len(r) = Len(p) + 1}}

Top == Last(stack)
Aborted == flags["aborted"]

\* What the steps below leave alone unless they say otherwise.
Asked == <<flags, agreed, always>>
Told == <<pairs, known>>

Unforced(fs) == [i \in DOMAIN fs |-> [src |-> fs[i], over |-> FALSE]]

-----------------------------------------------------------------------------
\* Paths and names.

\* get_target_file and get_unique_target_file.
Target(src, dir, mended) ==
    Append(dir, IF mended /\ Last(src) \in Unwritable THEN Mended ELSE Last(src))
Unique(src, dir, n) == Append(dir, <<Last(src)[1], Last(src)[2] + n>>)

\* Whether the call on top of the stack knows the file system it writes to.
KnowsFs == IF Len(stack) > 1 THEN stack[Len(stack) - 1].mends ELSE mends

FileCall(src, dest, over) ==
    [kind |-> "file", step |-> "check", src |-> src, over |-> over, nr |-> 2, dest |-> dest]

FolderCall(src, dest, left, skipped) ==
    [kind |-> "folder", src |-> src, dest |-> dest, left |-> left,
     skipped |-> skipped, mends |-> FALSE]

\* The call on top goes on as c; it returns, and its caller learns whether
\* something was skipped.
Continue(c) == stack' = Append(Front(stack), c)
Return(skipped) ==
    LET callers == Front(stack)
    IN stack' = IF callers = << >> THEN callers
                ELSE [callers EXCEPT ![Len(callers)].skipped = @ \/ skipped]

-----------------------------------------------------------------------------
\* GIO.

Put(src, dest) == [q \in DOMAIN disk \cup {dest} |-> IF q = dest THEN disk[src] ELSE disk[q]]

Rest(p, q) == SubSeq(q, Len(p) + 1, Len(q))
Carry(src, dest) ==
    LET there == {dest \o Rest(src, q) : q \in Under(src)}
    IN [q \in (DOMAIN disk \ Under(src)) \cup there |->
            IF q \in there THEN disk[src \o Rest(dest, q)] ELSE disk[q]]

Without(ps) == [q \in DOMAIN disk \ ps |-> disk[q]]

\* What remove_target_recursively can have removed below p when it stops: a
\* folder goes after everything in it.
Removable(p) == {rs \in SUBSET Under(p) : \A r \in rs : Under(r) \subseteq rs}

-----------------------------------------------------------------------------
\* What the job tells.

\* baul_undostack_manager_data_add_origin_target_pair.
Record(src, dest) == pairs' = IF undoing THEN pairs ELSE Append(pairs, <<src, dest>>)

Added(p) == known' = known \cup {p}
Removed(ps) == known' = known \ ps
Relocated(src, dest) ==
    known' = {q \in known : ~IsPrefix(src, q)}
             \cup {dest \o Rest(src, q) : q \in {r \in known : IsPrefix(src, r)}}

-----------------------------------------------------------------------------
\* Dialogs.

\* run_warning with CANCEL, SKIP_ALL and SKIP, unless errors are all skipped.
\* The button SKIP_ALL is always there; the code hides it for the last file.
Warn ==
    /\ flags' \in IF flags["skipErrors"] THEN {flags}
                  ELSE {[flags EXCEPT !["aborted"] = TRUE],
                        [flags EXCEPT !["skipErrors"] = TRUE], flags}
    /\ UNCHANGED <<agreed, always>>

\* run_warning with CANCEL and SKIP.
WarnOnce ==
    /\ flags' \in {[flags EXCEPT !["aborted"] = TRUE], flags}
    /\ UNCHANGED <<agreed, always>>

-----------------------------------------------------------------------------
\* scan_sources, which counts the files of todo, and verify_destination: what
\* cannot be read is to be skipped; the user may give up.
Scans(next, ended) ==
    \/ /\ ~Aborted
       /\ phase' = next
       /\ \/ UNCHANGED <<skip, flags>>
          \/ /\ "scan" \in Uses
             /\ \E i \in DOMAIN todo, all \in BOOLEAN : \E p \in Under(todo[i].src) :
                   /\ skip' = skip \cup {p}
                   /\ flags' = [flags EXCEPT !["skipErrors"] = @ \/ all]
    \/ /\ Aborted \/ "scan" \in Uses
       /\ flags' = [flags EXCEPT !["aborted"] = TRUE]
       /\ phase' = ended
       /\ UNCHANGED skip

-----------------------------------------------------------------------------
\* A job begins: baul_file_operations_copy, _move, _link, _delete and the others.
\* What goes to the trash waits until the rest is deleted; of what is copied or
\* moved only what is there is looked at.

FirstPhase(j) ==
    CASE j.kind = "move" -> "prepare"
      [] j.kind \in {"copy", "duplicate"} -> "scan"
      [] j.kind \in {"delete", "trash"} -> "confirm"
      [] OTHER -> "verify"

\* list is the files of the job at the places ps, in their order.
Listed(list, ps) ==
    \E order \in [1 .. Cardinality(ps) -> ps] :
        /\ \A i, k \in DOMAIN order : i < k => order[i] < order[k]
        /\ list = Unforced([i \in DOMAIN order |-> job.files[order[i]]])

Outright(j, p) == j.kind = "delete" \/ p \in j.outright

Init ==
    /\ disk \in Disks
    /\ before = disk
    /\ job \in Jobs
    /\ trash \in IF job.kind = "trash" THEN Bins ELSE {{}}
    /\ phase = FirstPhase(job)
    /\ Listed(todo, {i \in DOMAIN job.files :
                      IF Removes THEN Outright(job, job.files[i])
                      ELSE phase = "verify" \/ job.files[i] \in DOMAIN disk})
    /\ Listed(fallbacks, {i \in DOMAIN job.files : Removes /\ ~Outright(job, job.files[i])})
    /\ stack = << >>
    /\ mends = FALSE
    /\ flags = [f \in Flag |-> FALSE]
    /\ skip = {}
    /\ agreed = {}
    /\ always = FALSE
    /\ pairs = << >>
    /\ undoing = FALSE
    /\ known = DOMAIN disk
=============================================================================
