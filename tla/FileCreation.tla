------------------------------ MODULE FileCreation ------------------------------
(***************************************************************************)
(* New links, folders and files: link_job and create_job of                *)
(* libbaul-private/baul-file-operations.c.  A name that is taken is         *)
(* numbered; nobody is asked.                                              *)
(***************************************************************************)
EXTENDS FileJob

Links == job.kind = "link"
Creates == job.kind \in {"folder", "file", "template"}

\* get_target_file_for_link, and the names create_job makes.
Numbered(src, n, mended) ==
    LET name == IF mended /\ Last(src) \in Unwritable THEN Mended ELSE Last(src)
    IN Append(job.destination, <<name[1], name[2] + n>>)

\* What the new file is: a link leads to its source.
Made(src) ==
    CASE Links -> Append(src, <<"link", 0>>)
      [] job.kind = "folder" -> Folder
      [] job.kind = "file" -> << <<"", 0>> >>
      [] OTHER -> before[src]

\* verify_destination.
Verify ==
    /\ phase = "verify"
    /\ \/ ~Aborted /\ phase' = "make" /\ UNCHANGED flags
       \/ /\ Aborted \/ "scan" \in Uses
          /\ flags' = [flags EXCEPT !["aborted"] = TRUE]
          /\ phase' = "done"
    /\ UNCHANGED <<disk, todo, stack, mends, agreed, always, Told>>

\* The loop of link_job, or the one file of create_job. A link in the folder of
\* what it leads to is numbered from the start.
NextToMake ==
    /\ phase = "make" /\ stack = << >> /\ todo # << >> /\ ~Aborted
    /\ LET src == Head(todo).src
           nr == IF Links /\ Front(src) = job.destination THEN 1 ELSE 0
       IN stack' = <<[kind |-> "new", src |-> src, nr |-> nr, mended |-> mends,
                      dest |-> Numbered(src, nr, mends)]>>
    /\ todo' = Tail(todo)
    /\ UNCHANGED <<disk, phase, mends, Asked, Told>>

MakeDone ==
    /\ phase = "make" /\ stack = << >> /\ (todo = << >> \/ Aborted)
    /\ phase' = "done"
    /\ UNCHANGED <<disk, todo, stack, mends, Asked, Told>>

\* g_file_make_symbolic_link, g_file_make_directory, g_file_create, g_file_copy.
Refusal(src, dest) ==
    IF Aborted THEN "cancelled"
    ELSE IF job.kind = "template" /\ src \notin DOMAIN disk THEN "error"
    ELSE IF dest \in DOMAIN disk THEN "exists"
    ELSE IF Last(dest) \in Unwritable THEN "invalid_filename" ELSE "none"

\* A link takes the number it has once more before it takes the next one; a file
\* or a folder takes the next one at once.
TakesNumber(c) ==
    LET n == IF Links THEN c.nr ELSE c.nr + 1
    IN /\ Continue([c EXCEPT !.dest = Numbered(c.src, n, c.mended), !.nr = c.nr + 1])
       /\ UNCHANGED <<mends, Asked>>

\* The file system is asked for, once; a new file whose name is valid there is
\* given up without a word. A numbered file takes the next number too.
TakesValidName(c) ==
    LET n == IF Links \/ job.kind = "folder" \/ c.nr = 0 THEN c.nr ELSE c.nr + 1
        dest == Numbered(c.src, n, TRUE)
    IN /\ ~c.mended
       /\ mends' = Links
       /\ IF dest # c.dest THEN Continue([c EXCEPT !.dest = dest, !.mended = TRUE]) /\ UNCHANGED Asked
          ELSE IF Links THEN Return(TRUE) /\ Warn
          ELSE Return(TRUE) /\ UNCHANGED Asked

Make ==
    /\ phase = "make" /\ stack # << >>
    /\ LET c == Top
           refusal == Refusal(c.src, c.dest)
       IN \/ /\ refusal = "none"
             /\ disk' = [q \in DOMAIN disk \cup {c.dest} |-> IF q = c.dest THEN Made(c.src) ELSE disk[q]]
             /\ Record(c.src, c.dest)
             /\ Added(c.dest)
             /\ Return(FALSE)
             /\ UNCHANGED <<mends, Asked>>
          \/ /\ \/ refusal = "exists" /\ TakesNumber(c)
                \/ refusal = "invalid_filename" /\ TakesValidName(c)
                \/ refusal = "cancelled" /\ Return(TRUE) /\ UNCHANGED <<mends, Asked>>
                \/ /\ \/ refusal = "none" /\ "error" \in Uses
                      \/ refusal = "error" \/ (refusal = "invalid_filename" /\ c.mended)
                   /\ Return(TRUE)
                   /\ IF Links THEN Warn ELSE WarnOnce
                   /\ UNCHANGED mends
             /\ UNCHANGED <<disk, Told>>
    /\ UNCHANGED <<phase, todo>>

Creation ==
    /\ Links \/ Creates
    /\ Verify \/ NextToMake \/ MakeDone \/ Make
    /\ UNCHANGED <<before, trash, job, fallbacks, skip, undoing>>
=============================================================================
