----------------------------- MODULE FileTransfer -----------------------------
(***************************************************************************)
(* The copy and move engine of libbaul-private/baul-file-operations.c: one *)
(* job on its I/O thread, which walks the files it was given depth first,  *)
(* asks the user when a name is taken or a step fails, and tells the undo  *)
(* data and the queue of file changes what it did.  Result says what       *)
(* g_file_copy and g_file_move answer.                                     *)
(***************************************************************************)
EXTENDS FileJob

\* GIO.
Result(src, dest, over, noFallback) ==
    LET there == dest \in DOMAIN disk
        plain == IF Aborted THEN "cancelled"
                 ELSE IF src \notin DOMAIN disk THEN "error"
                 ELSE IF there /\ ~over THEN "exists"
                 ELSE IF IsFolder(dest)
                      THEN IF IsFolder(src) THEN "would_merge" ELSE "is_directory"
                 ELSE IF job.crossing /\ noFallback THEN "not_supported"
                 ELSE IF IsFolder(src) /\ (job.crossing \/ ~Moves) THEN "would_recurse"
                 ELSE IF Last(dest) \in Unwritable THEN "invalid_filename"
                 ELSE "done"
    IN {plain} \cup IF plain = "done" /\ "error" \in Uses THEN {"error"} ELSE {}

-----------------------------------------------------------------------------
\* The conflict dialog.

IsMerge(c) == IsFolder(c.dest) /\ IsFolder(c.src)

\* What is lost when c.src takes the place of c.dest.
InTheWay(c) == IF IsMerge(c) THEN {} ELSE Contents(c.dest) \ Contents(c.src)

\* The name is taken and was not to be overwritten: what was chosen for all such
\* names, or run_conflict_dialog.
Overwrites(c) ==
    /\ IF IsMerge(c) THEN flags["mergeAll"] ELSE flags["replaceAll"]
    /\ Continue([c EXCEPT !.over = TRUE])
    /\ agreed' = agreed \cup IF always THEN InTheWay(c) ELSE {}
    /\ UNCHANGED <<flags, always>>

AnswersSkip(all) ==
    /\ flags' = [flags EXCEPT !["skipConflicts"] = all]
    /\ Return(TRUE)
    /\ UNCHANGED <<agreed, always>>

AnswersCancel ==
    /\ flags' = [flags EXCEPT !["aborted"] = TRUE]
    /\ Return(TRUE)
    /\ UNCHANGED <<agreed, always>>

AnswersReplace(c, all) ==
    /\ flags' = IF all THEN [flags EXCEPT ![IF IsMerge(c) THEN "mergeAll" ELSE "replaceAll"] = TRUE]
                ELSE flags
    /\ always' = (always \/ (all /\ ~IsMerge(c)))
    /\ agreed' = agreed \cup InTheWay(c)
    /\ Continue([c EXCEPT !.over = TRUE])

AnswersRename(c, n) ==
    /\ "taken" \in Uses \/ Append(Front(c.dest), n) \notin DOMAIN disk
    /\ Continue([c EXCEPT !.dest = Append(Front(c.dest), n)])
    /\ UNCHANGED Asked

Conflict(c) ==
    \/ Overwrites(c)
    \/ /\ ~(IF IsMerge(c) THEN flags["mergeAll"] ELSE flags["replaceAll"])
       /\ IF flags["skipConflicts"] THEN Return(TRUE) /\ UNCHANGED Asked
          ELSE \/ AnswersCancel
               \/ \E all \in BOOLEAN : AnswersSkip(all) \/ AnswersReplace(c, all)
               \/ \E n \in NewNames : AnswersRename(c, n)

-----------------------------------------------------------------------------
\* copy_move_file, the call on top of the stack.

\* Files that could not be read are skipped; a folder may not go into itself, and
\* nothing over itself or over a folder it is in.
Check ==
    /\ Top.step = "check"
    /\ IF Top.src \in skip
       THEN Return(TRUE) /\ UNCHANGED Asked
       ELSE IF IsPrefix(Top.src, Front(Top.dest)) \/ IsPrefix(Top.dest, Top.src)
       THEN Return(TRUE) /\ Warn
       ELSE Continue([Top EXCEPT !.step = "try"]) /\ UNCHANGED Asked
    /\ UNCHANGED <<disk, mends, Told>>

Transferred(c) ==
    /\ disk' = IF Moves THEN Carry(c.src, c.dest) ELSE Put(c.src, c.dest)
    /\ IF Moves THEN Relocated(c.src, c.dest) ELSE Added(c.dest)
    /\ Record(c.src, c.dest)
    /\ Return(FALSE)
    /\ UNCHANGED <<mends, Asked>>

\* The caller learns the file system, and the name is made valid for it.
Mends(c) ==
    LET callers == Front(stack)
        up == Len(callers)
        mended == [c EXCEPT !.dest = Target(c.src, Front(c.dest), TRUE)]
    IN /\ ~KnowsFs
       /\ stack' = Append(IF up = 0 THEN callers ELSE [callers EXCEPT ![up].mends = TRUE], mended)
       /\ mends' = (mends \/ up = 0)
       /\ UNCHANGED <<disk, Told, Asked>>

\* A file takes the place of a folder: remove_target_recursively.
Clears(c) ==
    /\ \E rs \in {Under(c.dest)} \cup (IF "error" \in Uses THEN Removable(c.dest) ELSE {}) :
          /\ disk' = Without(rs)
          /\ Removed(rs)
          /\ IF c.dest \in rs THEN Continue(c) /\ UNCHANGED Asked
             ELSE Return(TRUE) /\ Warn
    /\ UNCHANGED <<mends, pairs>>

\* Mutant: the views are not told of the file that made room for a folder.
MakesRoomUntold(c) ==
    /\ disk' = Without({c.dest})
    /\ Continue(c)
    /\ UNCHANGED <<mends, Told, Asked>>

\* A folder takes the place of a file, which is removed first.
MakesRoom(c) ==
    /\ disk' = Without({c.dest})
    /\ Removed({c.dest})
    /\ Continue(c)
    /\ UNCHANGED <<mends, pairs, Asked>>

Fails ==
    /\ Return(TRUE)
    /\ Warn
    /\ UNCHANGED <<disk, mends, Told>>

\* copy_move_directory up to its loop: the children are listed, or they cannot be.
Lists(c) ==
    \/ Continue(FolderCall(c.src, c.dest, Children(c.src), FALSE)) /\ UNCHANGED Asked
    \/ /\ "error" \in Uses
       /\ Continue(FolderCall(c.src, c.dest, {}, TRUE))
       /\ WarnOnce

\* Mutant: a folder that was there already is recorded as if the job made it.
MergesRecorded(c) == Lists(c) /\ Record(c.src, c.dest) /\ UNCHANGED <<disk, mends, known>>

Merges(c) == Lists(c) /\ UNCHANGED <<disk, mends, Told>>

\* create_dest_dir, then as above.
Makes(c) ==
    /\ Last(c.dest) \notin Unwritable
    /\ disk' = Put(c.src, c.dest)
    /\ Record(c.src, c.dest)
    /\ Added(c.dest)
    /\ Lists(c)
    /\ UNCHANGED mends

CannotMake(c) ==
    /\ "error" \in Uses \/ (Last(c.dest) \in Unwritable /\ KnowsFs)
    /\ Return(TRUE)
    /\ WarnOnce
    /\ UNCHANGED <<disk, mends, Told>>

Recurses(c) ==
    IF c.dest \in DOMAIN disk
    THEN MakesRoom(c) \/ ("error" \in Uses /\ Fails)
    ELSE \/ Makes(c)
         \/ Last(c.dest) \in Unwritable /\ Mends(c)
         \/ CannotMake(c)

\* The next free name for a duplicate.  (What is in it meets no name that is taken.)
NextName(c) ==
    /\ Continue([c EXCEPT !.dest = Unique(c.src, Front(c.dest), c.nr), !.nr = @ + 1])
    /\ UNCHANGED <<disk, mends, Told, Asked>>

Try ==
    /\ Top.step = "try"
    /\ \E r \in Result(Top.src, Top.dest, Top.over, FALSE) :
          CASE r = "done" -> Transferred(Top)
            [] r = "exists" /\ job.kind = "duplicate" -> NextName(Top)
            [] r = "exists" /\ job.kind # "duplicate" -> Conflict(Top) /\ UNCHANGED <<disk, mends, Told>>
            [] r = "is_directory" -> Clears(Top)
            [] r = "would_merge" -> Merges(Top)
            [] r = "would_recurse" -> Recurses(Top)
            [] r = "invalid_filename" /\ ~KnowsFs -> Mends(Top)
            [] r = "cancelled" -> Return(TRUE) /\ UNCHANGED <<disk, mends, Told, Asked>>
            [] OTHER -> Fails

-----------------------------------------------------------------------------
\* copy_move_directory, the call on top of the stack.

\* A child keeps its name, in a duplicate too.
ChildDest(n) == Target(Append(Top.src, n), Top.dest, Top.mends)

\* Mutant: merging a folder overwrites what is in it.
NextChildOver ==
    /\ ~Aborted
    /\ \E n \in Top.left :
          stack' = Append(Front(stack), [Top EXCEPT !.left = @ \ {n}])
                   \o <<FileCall(Append(Top.src, n), ChildDest(n), TRUE)>>
    /\ UNCHANGED <<disk, mends, Told, Asked>>

\* Its loop.  What is in a folder never overwrites unasked.
NextChild ==
    /\ ~Aborted
    /\ \E n \in Top.left :
          stack' = Append(Front(stack), [Top EXCEPT !.left = @ \ {n}])
                   \o <<FileCall(Append(Top.src, n), ChildDest(n), FALSE)>>
    /\ UNCHANGED <<disk, mends, Told, Asked>>

\* Its end.  A folder that was moved is deleted unless something was skipped.
FolderDone ==
    /\ Aborted \/ Top.left = {}
    /\ LET deletes == Moves /\ ~Aborted /\ ~Top.skipped
           empty == Under(Top.src) = {Top.src}
       IN \/ /\ deletes => empty
             /\ disk' = IF deletes THEN Without({Top.src}) ELSE disk
             /\ Return(Top.skipped)
             /\ UNCHANGED Asked
          \/ /\ deletes
             /\ ~empty \/ "error" \in Uses
             /\ Return(~flags["skipErrors"])
             /\ Warn
             /\ UNCHANGED disk
    /\ UNCHANGED <<mends, Told>>

-----------------------------------------------------------------------------
\* move_file_prepare: what can be moved without copying is moved at once.

Prepare ==
    /\ IF Top.step = "check"
       THEN /\ IF IsPrefix(Top.src, Front(Top.dest)) THEN Return(TRUE) /\ Warn
               ELSE Continue([Top EXCEPT !.step = "try"]) /\ UNCHANGED Asked
            /\ UNCHANGED <<disk, mends, fallbacks, Told>>
       ELSE \E r \in Result(Top.src, Top.dest, Top.over, TRUE) :
              CASE r = "done" -> Transferred(Top) /\ UNCHANGED fallbacks
                [] r = "exists" -> Conflict(Top) /\ UNCHANGED <<disk, mends, fallbacks, Told>>
                [] r \in {"would_merge", "not_supported", "is_directory"} ->
                     /\ fallbacks' = Append(fallbacks, [src |-> Top.src, over |-> Top.over])
                     /\ Return(FALSE)
                     /\ UNCHANGED <<disk, mends, Told, Asked>>
                [] r = "invalid_filename" /\ ~KnowsFs -> Mends(Top) /\ UNCHANGED fallbacks
                [] r = "cancelled" ->
                     Return(TRUE) /\ UNCHANGED <<disk, mends, fallbacks, Told, Asked>>
                [] OTHER -> Fails /\ UNCHANGED fallbacks

-----------------------------------------------------------------------------
\* The job: copy_job and move_job.

\* A duplicate gets a name of its own (unique_names).
FirstDest(src) ==
    IF job.kind = "duplicate" THEN Unique(src, job.destination, 1)
    ELSE Target(src, job.destination, mends)

\* The loops of copy_files, move_files_prepare and move_files.
NextFile ==
    /\ phase \in {"prepare", "transfer"} /\ stack = << >> /\ todo # << >> /\ ~Aborted
    /\ stack' = <<FileCall(Head(todo).src, FirstDest(Head(todo).src), Head(todo).over)>>
    /\ todo' = Tail(todo)
    /\ UNCHANGED <<disk, phase, fallbacks, mends, skip, Told, Asked>>

\* Their end.  What was put off is done next; an aborted job does nothing more.
PhaseDone ==
    /\ phase \in {"prepare", "transfer"} /\ stack = << >> /\ (todo = << >> \/ Aborted)
    /\ phase' = IF phase = "prepare" /\ ~Aborted THEN "scan"
                ELSE IF undoing THEN "undone" ELSE "done"
    /\ todo' = fallbacks
    /\ fallbacks' = << >>
    /\ UNCHANGED <<disk, stack, mends, skip, Told, Asked>>

\* scan_sources and verify_destination.
Scan ==
    /\ phase = "scan"
    /\ Scans("transfer", IF undoing THEN "undone" ELSE "done")
    /\ UNCHANGED <<disk, todo, fallbacks, stack, mends, agreed, always, Told>>

Call ==
    /\ stack # << >>
    /\ \/ /\ phase = "prepare" /\ Prepare
       \/ /\ phase = "transfer" /\ Top.kind = "file"
          /\ Check \/ Try
          /\ UNCHANGED fallbacks
       \/ /\ phase = "transfer" /\ Top.kind = "folder"
          /\ NextChild \/ FolderDone
          /\ UNCHANGED fallbacks
    /\ UNCHANGED <<phase, todo, skip>>

Transfer ==
    /\ Copies \/ Moves
    /\ NextFile \/ PhaseDone \/ Scan \/ Call
    /\ UNCHANGED <<before, trash, job, undoing>>
=============================================================================
