----------------------------- MODULE FileOperations -----------------------------
(***************************************************************************)
(* A job of any kind, and what undoing it does to the files                *)
(* (libbaul-private/baul-undostack-manager.c).                              *)
(***************************************************************************)
EXTENDS FileTransfer, FileRemoval, FileCreation

Thread == Transfer \/ Removal \/ Creation

\* The user stops the job from the progress window.
Cancel ==
    /\ "cancel" \in Uses /\ phase \notin Over /\ ~Aborted
    /\ flags' = [flags EXCEPT !["aborted"] = TRUE]
    /\ UNCHANGED <<disk, before, trash, job, phase, todo, fallbacks, stack, mends, skip,
                   agreed, always, pairs, undoing, known>>

-----------------------------------------------------------------------------
\* baul_undostack_manager_undo.

\* g_file_delete, which leaves a folder that is not empty.
Deleted(d, p) ==
    IF {q \in DOMAIN d : IsPrefix(p, q)} = {p} THEN [q \in DOMAIN d \ {p} |-> d[q]] ELSE d

Targets == [i \in DOMAIN pairs |-> pairs[i][2]]

\* What the undo manager does itself is heard of from the file system only.
Heard == known' = (known \ (DOMAIN disk \ DOMAIN disk')) \cup (DOMAIN disk' \ DOMAIN disk)

\* Mutant: the targets are deleted in the order they were made.
UndoMakingForwards ==
    /\ "undo" \in Uses /\ ~Moves /\ ~Removes
    /\ disk' = FoldLeft(Deleted, disk, Targets)
    /\ Heard
    /\ phase' = "undone"
    /\ UNCHANGED <<trash, job, todo, fallbacks, mends, flags, skip, undoing>>

\* Copies, duplicates, links and new files: the targets are deleted, the last one
\* first.
UndoMaking ==
    /\ "undo" \in Uses /\ ~Moves /\ ~Removes
    /\ disk' = FoldLeft(Deleted, disk, Reverse(Targets))
    /\ Heard
    /\ phase' = "undone"
    /\ UNCHANGED <<trash, job, todo, fallbacks, mends, flags, skip, undoing>>

\* A move: a new job carries all the targets to the folder the files came from.
UndoMove ==
    /\ "undo_move" \in Uses /\ Moves
    /\ job' = [job EXCEPT !.files = Targets, !.destination = Front(job.files[1])]
    /\ todo' = Unforced(Targets)
    /\ fallbacks' = << >>
    /\ phase' = "prepare"
    /\ mends' = FALSE
    /\ flags' = [f \in Flag |-> FALSE]
    /\ skip' = {}
    /\ undoing' = TRUE
    /\ UNCHANGED <<disk, trash, known>>

\* g_file_move out of the trash, which replaces nothing.
Restored(s, item) ==
    IF item.from \in DOMAIN s.disk \/ Front(item.from) \notin DOMAIN s.disk THEN s
    ELSE [trash |-> s.trash \ {item},
          disk |-> [q \in DOMAIN s.disk \cup {item.from \o r : r \in DOMAIN item.tree} |->
                       IF q \in DOMAIN s.disk THEN s.disk[q] ELSE item.tree[Rest(item.from, q)]]]

\* retrieve_files_to_restore: what came from there and was modified then.
Retrieved == {item \in trash : item.time = "new" /\ \E i \in DOMAIN pairs : pairs[i][1] = item.from}

\* They are taken in the order of a hash table.
UndoTrash ==
    /\ "undo" \in Uses /\ job.kind = "trash"
    /\ \E order \in SetToSeqs(Retrieved) :
          LET s == FoldLeft(Restored, [disk |-> disk, trash |-> trash], order)
          IN disk' = s.disk /\ trash' = s.trash
    /\ Heard
    /\ phase' = "undone"
    /\ UNCHANGED <<job, todo, fallbacks, mends, flags, skip, undoing>>

Undo ==
    /\ phase = "done" /\ pairs # << >>
    /\ UndoMaking \/ UndoMove \/ UndoTrash
    /\ UNCHANGED <<before, stack, agreed, always, pairs>>

\* empty_trash_job.  Errors are ignored and the user may stop it, but what was
\* trashed cannot be undone any more in any case (trash_has_emptied).
EmptyTrash ==
    /\ "empty" \in Uses /\ job.kind = "trash" /\ phase = "done" /\ pairs # << >>
    /\ phase' = "emptied"
    /\ pairs' = << >>
    /\ trash' \in SUBSET trash
    /\ agreed' = agreed \cup UNION {{item.tree[r] : r \in DOMAIN item.tree} : item \in trash \ trash'}
    /\ UNCHANGED <<disk, before, job, todo, fallbacks, stack, mends, flags, skip, always,
                   undoing, known>>

Next == Thread \/ Cancel \/ Undo \/ EmptyTrash

Spec == Init /\ [][Next]_vars

-----------------------------------------------------------------------------
TypeOK ==
    /\ \A p \in DOMAIN disk \ {<< >>} : IsFolder(Front(p))
    /\ phase \in {"prepare", "scan", "transfer", "confirm", "confirm_trash", "trash", "delete",
                  "verify", "make"} \cup Over
    /\ flags \in [Flag -> BOOLEAN]
    /\ \A i \in DOMAIN stack : stack[i].kind = "folder" \/ i = Len(stack)

\* What the user had before the job is still somewhere, on the disk or in the trash,
\* or the user agreed to lose it: replacing what has a name never means losing what
\* takes the name, an answer about one name never decides about another, and what
\* cannot go to the trash is not deleted unasked.
NothingIsLostUnasked ==
    LET trashed == UNION {{item.tree[r] : r \in DOMAIN item.tree} : item \in trash}
    IN \A p \in DOMAIN before : before[p] \in {Folder} \cup agreed \cup Contents(<< >>) \cup trashed

\* The targets in the undo data, and what is in them, are exactly what the job put
\* there, and of what was trashed exactly what it took: undoing it takes away, or
\* brings back, all of that and nothing else.
PairsAreTheWork ==
    phase \notin {"undone", "emptied"} /\ ~undoing =>
        /\ \A p \in DOMAIN disk :
              (p \notin DOMAIN before \/ before[p] # disk[p])
              <=> \E i \in DOMAIN pairs : IsPrefix(pairs[i][2], p)
        /\ job.kind = "trash" =>
              {item.from : item \in {it \in trash : it.time = "new"}}
              = {pairs[i][1] : i \in DOMAIN pairs}

\* When a job has been undone nothing of its work is left, and all that it trashed
\* is back.  A move is undone by another move, which may stop half-way too.
UndoneIsGone ==
    phase = "undone" /\ ~undoing =>
        /\ \A p \in DOMAIN disk : p \in DOMAIN before /\ disk[p] = before[p]
        /\ job.kind = "trash" =>
              \A i \in DOMAIN pairs, p \in DOMAIN before :
                  IsPrefix(pairs[i][1], p) => p \in DOMAIN disk

\* The views know of all that is there, and believe in nothing else except in
\* folders that were moved piece by piece.
ViewsAreTold ==
    /\ DOMAIN disk \subseteq known
    /\ \A p \in known \ DOMAIN disk :
          \/ undoing
          \/ /\ Moves /\ p \in DOMAIN before /\ before[p] = Folder
             /\ \E i \in DOMAIN job.files : IsPrefix(job.files[i], p)
=============================================================================
