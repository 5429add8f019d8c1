--------------------------- MODULE MCDirectoryAsync ---------------------------
(* Instances of DirectoryAsync for TLC: a parent directory and one of its  *)
(* subdirectories.                                                         *)
EXTENDS DirectoryAsync, TLC

\* "own" is the parent's file for itself; "a" and "b" are files of the parent,
\* "c" is a file of the child.
MCDirectories == {"parent", "child"}
MCFiles == {"own", "a", "b", "c"}
MCHome == "own" :> "parent" @@ "a" :> "parent" @@ "b" :> "parent" @@ "c" :> "child"
MCListing == "parent" :> << "a", "b" >> @@ "child" :> << "c" >>

\* The child directory is the file "b" of the parent ...
Nested == "parent" :> "own" @@ "child" :> "b"

\* The mount of "a", which asks for the file info too, the item count of "b", and
\* a deep count, which signals its progress, in the child.
JobRequests == {<< "a", "mount" >>, << "b", "directory_count" >>, << "c", "deep_count" >>}
\* "a" may be mountable, and "b" no directory.
Skipped == {<< "a", "mount" >>, << "b", "directory_count" >>}

\* What a load of the child interferes with: the item count of the file that
\* stands for the child, and a job of the child itself.
LoadRequests == {<< "b", "directory_count" >>, << "c", "file_info" >>}

\* A link, which needs the file info first, an extension's answer, an item
\* count, whose cancellation takes effect late, and a file of the child.
MixedRequests == {<< "a", "link_info" >>, << "a", "extension_info" >>,
                  << "b", "directory_count" >>, << "c", "file_info" >>}

ItemCountRequest == {<< "b", "directory_count" >>}

ExtensionRequests == {<< "a", "extension_info" >>}

InfoRequest == {<< "a", "file_info" >>}

TopLeftRequests == {<< "a", "top_left" >>, << "b", "top_left" >>}
=============================================================================
