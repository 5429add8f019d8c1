------------------------------ MODULE FileRemoval ------------------------------
(***************************************************************************)
(* Deleting files and moving them to the trash: delete_job of              *)
(* libbaul-private/baul-file-operations.c.  What cannot go to the trash is *)
(* deleted first, if the user confirms it; then the rest is trashed, and   *)
(* what fails to be may be deleted after all.                              *)
(***************************************************************************)
EXTENDS FileJob

\* The user agrees to lose ps.
Agrees(ps) == agreed' = agreed \cup UNION {Contents(p) : p \in ps}

-----------------------------------------------------------------------------
\* delete_job.

\* confirm_delete_from_trash and confirm_delete_directly.
Confirm ==
    /\ phase = "confirm"
    /\ \/ /\ todo # << >>
          /\ phase' = "scan"
          /\ Agrees({todo[i].src : i \in DOMAIN todo})
          /\ UNCHANGED <<todo, fallbacks>>
       \/ /\ phase' = "confirm_trash"
          /\ todo' = fallbacks
          /\ fallbacks' = << >>
          /\ UNCHANGED agreed
    /\ UNCHANGED <<disk, trash, stack, skip, flags, always, Told>>

\* confirm_trash.
ConfirmTrash ==
    /\ phase = "confirm_trash"
    /\ \/ todo # << >> /\ phase' = "trash"
       \/ phase' = "done"
    /\ UNCHANGED <<disk, trash, todo, fallbacks, stack, skip, Asked, Told>>

-----------------------------------------------------------------------------
\* trash_files.

Item(p) ==
    [from |-> p, time |-> "new",
     tree |-> [r \in {Rest(p, q) : q \in Under(p)} |-> disk[p \o r]]]

Goes(p) ==
    /\ disk' = Without(Under(p))
    /\ trash' = trash \cup {Item(p)}
    /\ pairs' = Append(pairs, <<p, p>>)
    /\ Removed({q \in known : IsPrefix(p, q)})
    /\ UNCHANGED <<fallbacks, Asked>>

\* The file is put on to_delete.
PutsOff(p) == fallbacks' = Append(fallbacks, [src |-> p, over |-> FALSE])

\* The question whether to delete it instead, unless the answer is known.
Stays(p) ==
    /\ IF flags["skipErrors"] THEN UNCHANGED <<fallbacks, Asked>>
       ELSE IF flags["deleteAll"]
       THEN /\ PutsOff(p)
            /\ agreed' = agreed \cup IF always THEN Contents(p) ELSE {}
            /\ UNCHANGED <<flags, always>>
       ELSE \/ /\ flags' \in {flags} \cup {[flags EXCEPT ![f] = TRUE] : f \in {"aborted", "skipErrors"}}
               /\ UNCHANGED <<fallbacks, agreed, always>>
            \/ \E all \in BOOLEAN :
                  /\ PutsOff(p)
                  /\ flags' = [flags EXCEPT !["deleteAll"] = all]
                  /\ always' = all
                  /\ Agrees({p})
    /\ UNCHANGED <<disk, trash, Told>>

Trash ==
    /\ phase = "trash" /\ todo # << >> /\ ~Aborted
    /\ todo' = Tail(todo)
    /\ LET p == Head(todo).src
       IN \/ p \in DOMAIN disk /\ Goes(p)
          \/ (p \notin DOMAIN disk \/ "error" \in Uses) /\ Stays(p)
    /\ UNCHANGED <<phase, stack, skip>>

\* What failed is deleted now.
TrashDone ==
    /\ phase = "trash" /\ (todo = << >> \/ Aborted)
    /\ phase' = IF fallbacks # << >> /\ ~Aborted THEN "scan" ELSE "done"
    /\ todo' = fallbacks
    /\ fallbacks' = << >>
    /\ UNCHANGED <<disk, trash, stack, skip, Asked, Told>>

-----------------------------------------------------------------------------
\* delete_files.

\* Then what waits for it is trashed.
Then == IF fallbacks = << >> THEN "done" ELSE "confirm_trash"
ThenTodo(ended) ==
    IF ended THEN todo' = fallbacks /\ fallbacks' = << >> ELSE UNCHANGED <<todo, fallbacks>>

ScanFiles ==
    /\ phase = "scan"
    /\ Scans("delete", Then)
    /\ ThenTodo(phase' # "delete")
    /\ UNCHANGED <<disk, trash, stack, agreed, always, Told>>

NextFileToDelete ==
    /\ phase = "delete" /\ stack = << >> /\ todo # << >> /\ ~Aborted
    /\ stack' = <<[kind |-> "file", src |-> Head(todo).src]>>
    /\ todo' = Tail(todo)
    /\ UNCHANGED <<disk, trash, phase, fallbacks, skip, Asked, Told>>

DeleteDone ==
    /\ phase = "delete" /\ stack = << >> /\ (todo = << >> \/ Aborted)
    /\ phase' = Then
    /\ ThenTodo(TRUE)
    /\ UNCHANGED <<disk, trash, stack, skip, Asked, Told>>

Deletes(p) ==
    /\ disk' = Without({p})
    /\ Removed({p})
    /\ UNCHANGED <<pairs, Asked>>

\* delete_dir up to its loop.
Enters(p) ==
    \/ /\ stack' = Append(Front(stack), FolderCall(p, p, Children(p), FALSE))
       /\ UNCHANGED Asked
    \/ /\ "error" \in Uses
       /\ stack' = Append(Front(stack), FolderCall(p, p, {}, TRUE))
       /\ WarnOnce

\* delete_file.
DeleteFile ==
    /\ Top.kind = "file"
    /\ LET p == Top.src
       IN \/ /\ p \in skip \/ Aborted
             /\ Return(TRUE)
             /\ UNCHANGED <<disk, Asked, Told>>
          \/ /\ p \notin skip /\ ~Aborted
             /\ \/ Under(p) = {p} /\ Deletes(p) /\ Return(FALSE)
                \/ Under(p) \notin {{p}, {}} /\ Enters(p) /\ UNCHANGED <<disk, Told>>
                \/ /\ p \notin DOMAIN disk \/ "error" \in Uses
                   /\ Return(TRUE)
                   /\ Warn
                   /\ UNCHANGED <<disk, Told>>

\* The loop of delete_dir.
NextInFolder ==
    /\ Top.kind = "folder" /\ ~Aborted
    /\ \E n \in Top.left :
          stack' = Append(Front(stack), [Top EXCEPT !.left = @ \ {n}])
                   \o <<[kind |-> "file", src |-> Append(Top.src, n)]>>
    /\ UNCHANGED <<disk, Asked, Told>>

\* Its end.  A folder in which something was skipped is left; one that cannot be
\* deleted counts as skipped unless all errors are skipped.
LeaveFolder ==
    /\ Top.kind = "folder" /\ (Aborted \/ Top.left = {})
    /\ IF Aborted \/ Top.skipped
       THEN Return(Top.skipped) /\ UNCHANGED <<disk, Asked, Told>>
       ELSE \/ Under(Top.src) = {Top.src} /\ Deletes(Top.src) /\ Return(FALSE)
            \/ /\ Under(Top.src) # {Top.src} \/ "error" \in Uses
               /\ Warn
               /\ Return(~flags["skipErrors"] /\ ~flags'["aborted"])
               /\ UNCHANGED <<disk, Told>>

Delete ==
    /\ phase = "delete" /\ stack # << >>
    /\ DeleteFile \/ NextInFolder \/ LeaveFolder
    /\ UNCHANGED <<trash, phase, todo, fallbacks, skip>>

Removal ==
    /\ Removes
    /\ \/ Confirm \/ ConfirmTrash \/ Trash \/ TrashDone
       \/ ScanFiles \/ NextFileToDelete \/ DeleteDone \/ Delete
    /\ UNCHANGED <<before, job, mends, undoing>>
=============================================================================
