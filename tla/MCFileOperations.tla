---------------------------- MODULE MCFileOperations ----------------------------
(***************************************************************************)
(* Instances of FileOperations for TLC.                                    *)
(***************************************************************************)
EXTENDS FileOperations

s == <<"s", 0>>
x == <<"x", 0>>
x1 == <<"x", 1>>
y == <<"y", 0>>
z == <<"z", 0>>
w == <<"w", 0>>
bad == <<"x:", 0>>
MCMended == <<"x_", 0>>

\* The disk that has the files fs and the folders ds.
DiskOf(fs, ds) == [p \in fs \cup ds \cup {<< >>} |-> IF p \in fs THEN p ELSE << >>]

\* What may be at a place: a file, or a folder with nothing, a file or a folder in it.
At(p) == {[fs |-> {p}, ds |-> {}], [fs |-> {}, ds |-> {p}],
          [fs |-> {Append(p, x)}, ds |-> {p}], [fs |-> {}, ds |-> {p, Append(p, x)}]}
Nothing == [fs |-> {}, ds |-> {}]

\* A folder s with n and y to transfer, and what may be in the way of n at m.
DisksFor(n, m) ==
    {DiskOf(a.fs \cup b.fs \cup {<<s, y>>}, a.ds \cup b.ds \cup {<<s>>}) :
        a \in At(<<s, n>>), b \in At(<<m>>) \cup {Nothing}}

\* A folder s with x and a copy of it.
Copied == {DiskOf({<<s, x>>, <<s, x1>>}, {<<s>>}), DiskOf({<<s, x, x>>, <<s, x1>>}, {<<s>>, <<s, x>>})}

MCDisks == DisksFor(x, x) \cup DisksFor(bad, MCMended) \cup Copied

MCJob(kind, crossing, files, outright, destination) ==
    [kind |-> kind, crossing |-> crossing, files |-> files, outright |-> outright,
     destination |-> destination]

MCJobs ==
    {MCJob(kind, crossing, <<<<s, x>>, <<s, bad>>, <<s, y>>>>, {}, << >>) :
        kind \in {"copy", "move"}, crossing \in BOOLEAN}
    \cup {MCJob("duplicate", FALSE, <<<<s, x>>, <<s, x1>>, <<s, y>>>>, {}, <<s>>)}
    \cup {MCJob("link", FALSE, <<<<s, x>>, <<s, bad>>, <<s, y>>>>, {}, d) : d \in {<< >>, <<s>>}}
    \cup {MCJob(kind, FALSE, << <<n>> >>, {}, d) :
            kind \in {"folder", "file"}, n \in {x, bad}, d \in {<< >>, <<s>>}}
    \cup {MCJob("template", FALSE, << <<s, y>> >>, {}, d) : d \in {<< >>, <<s>>}}
    \cup {MCJob("delete", FALSE, <<<<s, x>>, <<s, y>>>>, {}, << >>)}
    \cup {MCJob("trash", FALSE, <<<<s, x>>, <<s, y>>, <<s, x1>>>>, o, << >>) : o \in {{}, {<<s, y>>}}}

\* A file that was trashed from the same place before.
MCBins ==
    {{}, {[from |-> <<s, x>>, time |-> "old", tree |-> [r \in {<< >>} |-> <<s, x, x1>>]]}}

MCNewNames == {z, w}
Taken == {s, x}
MCUnwritable == {bad}
=============================================================================
