------------------------- MODULE FileOperations_proofs -------------------------
(***************************************************************************)
(* What holds of a file operation for any disks, jobs, names, answers and  *)
(* errors: until it is undone nothing the user had is lost without the     *)
(* user's consent, and the views know of all that is there, and of nothing *)
(* else but folders that were moved piece by piece.                        *)
(*                                                                         *)
(* A name is a pair of a base and a number.  Of the jobs it is assumed     *)
(* (Hypotheses) that they begin on a disk where what leads to something is *)
(* a folder, that the names the destination refuses are not there already, *)
(* and, of a move, that its files are not in each other, nor where one of  *)
(* them may go, and go to different places.                                *)
(*                                                                         *)
(* The invariant (Sound) says of each kind of job how the calls on the     *)
(* stack lead from a file of the job to the one at work (Calls), that what *)
(* is walked is there and apart from where it goes (Aimed), that what      *)
(* waits has not been taken up (Waiting), and that what a call or a file   *)
(* that waits will replace has been agreed to (AgreedTo).                  *)
(***************************************************************************)
EXTENDS FileOperations, FiniteSetTheorems, SequenceTheorems, TLAPS

CONSTANT Bases    \* what names are made of, with a number

Names == Bases \X Nat
Paths == Seq(Names)

-----------------------------------------------------------------------------
\* Paths.

LEMMA Slice ==
  ASSUME NEW S, NEW s \in Seq(S), NEW m \in 1 .. Len(s) + 1, NEW n \in m - 1 .. Len(s)
  PROVE  /\ SubSeq(s, m, n) \in Seq(S) /\ Len(SubSeq(s, m, n)) = n - m + 1
         /\ \A i \in 1 .. n - m + 1 : SubSeq(s, m, n)[i] = s[m + i - 1]
<1>1. Len(s) \in Nat /\ m \in Int /\ n \in Int /\ m - 1 <= n
  BY LenProperties
<1>2. \A i \in m .. n : s[i] \in S
  BY <1>1, ElementOfSeq
<1>3. /\ SubSeq(s, m, n) \in Seq(S) /\ Len(SubSeq(s, m, n)) = IF m <= n THEN n - m + 1 ELSE 0
      /\ \A i \in 1 .. n - m + 1 : SubSeq(s, m, n)[i] = s[m + i - 1]
  BY <1>1, <1>2, SubSeqProperties
<1>4. QED
  BY <1>1, <1>3

LEMMA FrontOfSeq ==
  ASSUME NEW S, NEW s \in Seq(S), s # << >>
  PROVE  /\ Front(s) \in Seq(S) /\ Len(s) \in Nat \ {0} /\ Len(Front(s)) = Len(s) - 1
         /\ \A i \in 1 .. Len(s) - 1 : Front(s)[i] = s[i]
<1>1. Len(s) \in Nat \ {0}
  BY EmptySeq
<1>2. 1 \in 1 .. Len(s) + 1 /\ Len(s) - 1 \in 1 - 1 .. Len(s)
  BY <1>1
<1>3. /\ SubSeq(s, 1, Len(s) - 1) \in Seq(S) /\ Len(SubSeq(s, 1, Len(s) - 1)) = Len(s) - 1 - 1 + 1
      /\ \A i \in 1 .. Len(s) - 1 - 1 + 1 : SubSeq(s, 1, Len(s) - 1)[i] = s[1 + i - 1]
  BY <1>2, Slice
<1>4. QED
  BY <1>1, <1>3 DEF Front

LEMMA Halves ==
  ASSUME NEW S, NEW p \in Seq(S), NEW r \in Seq(S)
  PROVE  /\ p \o r \in Seq(S) /\ Len(p \o r) = Len(p) + Len(r)
         /\ \A i \in 1 .. Len(p) : (p \o r)[i] = p[i]
         /\ \A i \in 1 .. Len(r) : (p \o r)[Len(p) + i] = r[i]
<1>1. Len(p) \in Nat /\ Len(r) \in Nat
  BY LenProperties
<1>2. /\ p \o r \in Seq(S) /\ Len(p \o r) = Len(p) + Len(r)
      /\ \A i \in 1 .. Len(p) + Len(r) : (p \o r)[i] = IF i <= Len(p) THEN p[i] ELSE r[i - Len(p)]
  BY ConcatProperties
<1>3. QED
  BY <1>1, <1>2

LEMMA PrefixByElement ==
  ASSUME NEW p \in Paths, NEW q \in Paths
  PROVE  IsPrefix(p, q) <=> Len(p) <= Len(q) /\ \A i \in 1 .. Len(p) : p[i] = q[i]
<1>1. CASE Len(p) <= Len(q)
  <2>1. SubSeq(p, 1, Len(p)) = p
    BY DEF Paths
  <2>2. SubSeq(q, 1, Len(p)) \in Seq(Names) /\ Len(SubSeq(q, 1, Len(p))) = Len(p)
        /\ \A i \in 1 .. Len(p) : SubSeq(q, 1, Len(p))[i] = q[i]
    BY <1>1, Slice DEF Paths
  <2>3. SubSeq(q, 1, Len(p)) = p <=> \A i \in 1 .. Len(p) : p[i] = q[i]
    BY <2>2, SeqEqual DEF Paths
  <2>4. QED
    BY <1>1, <2>1, <2>3 DEF IsPrefix
<1>2. CASE ~(Len(p) <= Len(q))
  BY <1>2 DEF IsPrefix
<1>3. QED
  BY <1>1, <1>2

LEMMA PrefixReflexive == << >> \in Paths /\ \A p \in Paths : IsPrefix(p, p) /\ IsPrefix(<< >>, p)
<1>1. << >> \in Paths /\ Len(<< >>) = 0
  BY EmptySeq DEF Paths
<1>2. ASSUME NEW p \in Paths
      PROVE  IsPrefix(p, p) /\ IsPrefix(<< >>, p)
  <2>1. Len(p) \in Nat
    BY LenProperties DEF Paths
  <2>2. QED
    BY <1>1, <2>1, PrefixByElement
<1>3. QED
  BY <1>1, <1>2

LEMMA PrefixTransitive ==
  \A p, q, r \in Paths : IsPrefix(p, q) /\ IsPrefix(q, r) => IsPrefix(p, r)
  BY PrefixByElement DEF Paths

LEMMA PrefixAntisymmetric ==
  \A p, q \in Paths : IsPrefix(p, q) /\ IsPrefix(q, p) => p = q
  BY PrefixByElement, SeqEqual DEF Paths

\* Of two paths to the same place one leads to the other.
LEMMA PrefixesCompare ==
  \A p, q, r \in Paths : IsPrefix(p, r) /\ IsPrefix(q, r) => IsPrefix(p, q) \/ IsPrefix(q, p)
  BY PrefixByElement DEF Paths

LEMMA FrontOfPath ==
  ASSUME NEW q \in Paths \ {<< >>}
  PROVE  /\ Front(q) \in Paths /\ Last(q) \in Names /\ q = Append(Front(q), Last(q))
         /\ IsPrefix(Front(q), q) /\ ~IsPrefix(q, Front(q))
         /\ \A p \in Paths : IsPrefix(p, q) <=> p = q \/ IsPrefix(p, Front(q))
<1>1. q \in Seq(Names) /\ Len(q) \in Nat /\ Len(q) > 0
  BY EmptySeq DEF Paths
<1>2. /\ Front(q) \in Seq(Names) /\ Len(Front(q)) = Len(q) - 1
      /\ \A i \in 1 .. Len(q) - 1 : Front(q)[i] = q[i]
  BY <1>1, FrontOfSeq DEF Paths
<1>3. Last(q) \in Names
  BY <1>1 DEF Last
<1>4. q = Append(Front(q), Last(q))
  <2>1. Append(Front(q), Last(q)) \in Seq(Names) /\ Len(Append(Front(q), Last(q))) = Len(q)
    BY <1>1, <1>2, <1>3, AppendProperties
  <2>2. \A i \in 1 .. Len(q) : Append(Front(q), Last(q))[i] = q[i]
    BY <1>1, <1>2, <1>3, AppendProperties DEF Last
  <2>3. QED
    BY <1>1, <2>1, <2>2, SeqEqual
<1>5. Front(q) \in Paths
  BY <1>2 DEF Paths
<1>6. IsPrefix(Front(q), q) /\ ~IsPrefix(q, Front(q))
  BY <1>1, <1>2, <1>5, PrefixByElement
<1>7. ASSUME NEW p \in Paths
      PROVE  IsPrefix(p, q) <=> p = q \/ IsPrefix(p, Front(q))
  <2>1. p \in Seq(Names) /\ Len(p) \in Nat
    BY DEF Paths
  <2>6. /\ IsPrefix(p, q) <=> Len(p) <= Len(q) /\ \A i \in 1 .. Len(p) : p[i] = q[i]
        /\ IsPrefix(p, Front(q)) <=> Len(p) <= Len(Front(q)) /\ \A i \in 1 .. Len(p) : p[i] = Front(q)[i]
    BY <1>5, PrefixByElement
  <2>2. CASE Len(p) < Len(q)
    <3>1. \A i \in 1 .. Len(p) : Front(q)[i] = q[i]
      BY <1>1, <1>2, <2>1, <2>2
    <3>2. QED
      BY <1>1, <1>2, <2>1, <2>2, <2>6, <3>1
  <2>3. CASE Len(p) = Len(q)
    <3>1. IsPrefix(p, q) <=> p = q
      BY <1>1, <2>1, <2>3, PrefixByElement, SeqEqual
    <3>2. QED
      BY <1>1, <1>2, <1>5, <2>1, <2>3, <3>1, PrefixByElement
  <2>4. CASE Len(p) > Len(q)
    BY <1>1, <1>2, <2>1, <2>4, <2>6
  <2>5. QED
    BY <1>1, <2>1, <2>2, <2>3, <2>4
<1>8. QED
  BY <1>3, <1>4, <1>5, <1>6, <1>7

LEMMA AppendToPath ==
  ASSUME NEW p \in Paths, NEW n \in Names
  PROVE  /\ Append(p, n) \in Paths \ {<< >>}
         /\ Front(Append(p, n)) = p /\ Last(Append(p, n)) = n
         /\ IsPrefix(p, Append(p, n)) /\ ~IsPrefix(Append(p, n), p)
<1>1. /\ Append(p, n) \in Seq(Names) /\ Len(Append(p, n)) = Len(p) + 1
      /\ \A i \in 1 .. Len(p) : Append(p, n)[i] = p[i]
      /\ Append(p, n)[Len(p) + 1] = n /\ Len(p) \in Nat
  BY AppendProperties DEF Paths
<1>2. Append(p, n) \in Paths \ {<< >>}
  BY <1>1 DEF Paths
<1>3. Last(Append(p, n)) = n
  BY <1>1 DEF Last
<1>4. Front(Append(p, n)) \in Seq(Names) /\ Len(Front(Append(p, n))) = Len(p)
      /\ \A i \in 1 .. Len(p) : Front(Append(p, n))[i] = p[i]
  BY <1>1, Slice DEF Front
<1>5. Front(Append(p, n)) = p
  BY <1>4, SeqEqual DEF Paths
<1>6. QED
  BY <1>2, <1>3, <1>5, FrontOfPath

\* What is at a place below another, and the way there.
LEMMA RestOfPath ==
  ASSUME NEW p \in Paths, NEW q \in Paths, IsPrefix(p, q)
  PROVE  Rest(p, q) \in Paths /\ p \o Rest(p, q) = q
<1>1. p \in Seq(Names) /\ q \in Seq(Names) /\ Len(p) \in Nat /\ Len(q) \in Nat
      /\ Len(p) <= Len(q) /\ \A i \in 1 .. Len(p) : p[i] = q[i]
  BY PrefixByElement DEF Paths
<1>2. /\ Rest(p, q) \in Seq(Names) /\ Len(Rest(p, q)) = Len(q) - Len(p)
      /\ \A i \in 1 .. Len(q) - Len(p) : Rest(p, q)[i] = q[Len(p) + i]
  BY <1>1, Slice DEF Rest
<1>3. p \o Rest(p, q) \in Seq(Names) /\ Len(p \o Rest(p, q)) = Len(q)
  BY <1>1, <1>2, Halves
<1>4. ASSUME NEW i \in 1 .. Len(q)
      PROVE  (p \o Rest(p, q))[i] = q[i]
  <2>1. CASE i <= Len(p)
    BY <1>1, <1>2, <2>1, Halves
  <2>2. CASE i > Len(p)
    <3>1. i - Len(p) \in 1 .. Len(q) - Len(p) /\ Len(p) + (i - Len(p)) = i
      BY <1>1, <2>2
    <3>2. (p \o Rest(p, q))[Len(p) + (i - Len(p))] = Rest(p, q)[i - Len(p)]
      BY <1>1, <1>2, <3>1, Halves
    <3>3. QED
      BY <1>2, <3>1, <3>2
  <2>3. i <= Len(p) \/ i > Len(p)
    BY <1>1
  <2>4. QED
    BY <2>1, <2>2, <2>3
<1>5. p \o Rest(p, q) = q
  BY <1>1, <1>3, <1>4, SeqEqual
<1>6. QED
  BY <1>2, <1>5 DEF Paths

LEMMA ConcatenatedPath ==
  ASSUME NEW p \in Paths, NEW r \in Paths
  PROVE  p \o r \in Paths /\ IsPrefix(p, p \o r) /\ Rest(p, p \o r) = r
<1>1. p \in Seq(Names) /\ r \in Seq(Names) /\ Len(p) \in Nat /\ Len(r) \in Nat
  BY DEF Paths
<1>2. /\ p \o r \in Seq(Names) /\ Len(p \o r) = Len(p) + Len(r)
      /\ \A i \in 1 .. Len(p) : (p \o r)[i] = p[i]
      /\ \A i \in 1 .. Len(r) : (p \o r)[Len(p) + i] = r[i]
  BY <1>1, Halves
<1>3. IsPrefix(p, p \o r)
  <2>1. p \o r \in Paths
    BY <1>2 DEF Paths
  <2>2. IsPrefix(p, p \o r)
        <=> Len(p) <= Len(p \o r) /\ \A i \in 1 .. Len(p) : p[i] = (p \o r)[i]
    BY <2>1, PrefixByElement
  <2>3. QED
    BY <1>1, <1>2, <2>2
<1>4. /\ Rest(p, p \o r) \in Seq(Names) /\ Len(Rest(p, p \o r)) = Len(r)
      /\ \A i \in 1 .. Len(r) : Rest(p, p \o r)[i] = (p \o r)[Len(p) + i]
  BY <1>1, <1>2, Slice DEF Rest
<1>5. Rest(p, p \o r) = r
  BY <1>1, <1>2, <1>4, SeqEqual
<1>6. QED
  BY <1>2, <1>3, <1>5 DEF Paths

LEMMA ConcatenatedFront ==
  ASSUME NEW p \in Paths, NEW r \in Paths, r # << >>
  PROVE  /\ p \o r # << >> /\ p \o r # p
         /\ Front(p \o r) = p \o Front(r) /\ Last(p \o r) = Last(r)
<1>1. p \in Seq(Names) /\ r \in Seq(Names) /\ Len(p) \in Nat /\ Len(r) \in Nat /\ Len(r) > 0
  BY EmptySeq DEF Paths
<1>2. /\ p \o r \in Seq(Names) /\ Len(p \o r) = Len(p) + Len(r)
      /\ \A i \in 1 .. Len(p) : (p \o r)[i] = p[i]
      /\ \A i \in 1 .. Len(r) : (p \o r)[Len(p) + i] = r[i]
  BY <1>1, Halves
<1>3. p \o r # << >> /\ p \o r # p
  BY <1>1, <1>2
<1>4. Last(p \o r) = Last(r)
  BY <1>1, <1>2 DEF Last
<1>5. /\ Front(r) \in Seq(Names) /\ Len(Front(r)) = Len(r) - 1
      /\ \A i \in 1 .. Len(r) - 1 : Front(r)[i] = r[i]
  BY <1>1, FrontOfSeq
<1>6. /\ Front(p \o r) \in Seq(Names) /\ Len(Front(p \o r)) = Len(p) + Len(r) - 1
      /\ \A i \in 1 .. Len(p) + Len(r) - 1 : Front(p \o r)[i] = (p \o r)[i]
  <2>1. p \o r # << >>
    BY <1>3
  <2>2. /\ Front(p \o r) \in Seq(Names) /\ Len(Front(p \o r)) = Len(p \o r) - 1
        /\ \A i \in 1 .. Len(p \o r) - 1 : Front(p \o r)[i] = (p \o r)[i]
    BY <1>2, <2>1, FrontOfSeq
  <2>3. QED
    BY <1>2, <2>2
<1>7. /\ p \o Front(r) \in Seq(Names) /\ Len(p \o Front(r)) = Len(p) + Len(r) - 1
      /\ \A i \in 1 .. Len(p) : (p \o Front(r))[i] = p[i]
      /\ \A i \in 1 .. Len(r) - 1 : (p \o Front(r))[Len(p) + i] = Front(r)[i]
  BY <1>1, <1>5, Halves
<1>8. ASSUME NEW i \in 1 .. Len(p) + Len(r) - 1
      PROVE  Front(p \o r)[i] = (p \o Front(r))[i]
  <2>1. CASE i <= Len(p)
    BY <1>1, <1>2, <1>6, <1>7, <2>1
  <2>2. CASE i > Len(p)
    <3>1. PICK k \in 1 .. Len(r) - 1 : i = Len(p) + k
      <4>1. i - Len(p) \in 1 .. Len(r) - 1 /\ i = Len(p) + (i - Len(p))
        BY <1>1, <2>2
      <4>2. QED
        BY <4>1
    <3>2. k \in 1 .. Len(r) /\ Front(p \o r)[Len(p) + k] = (p \o r)[Len(p) + k]
      BY <1>1, <1>6, <3>1
    <3>3. (p \o r)[Len(p) + k] = r[k] /\ (p \o Front(r))[Len(p) + k] = Front(r)[k] /\ Front(r)[k] = r[k]
      BY <1>2, <1>5, <1>7, <3>2
    <3>4. QED
      BY <3>1, <3>2, <3>3
  <2>3. i <= Len(p) \/ i > Len(p)
    BY <1>1
  <2>4. QED
    BY <2>1, <2>2, <2>3
<1>9. Front(p \o r) = p \o Front(r)
  BY <1>6, <1>7, <1>8, SeqEqual
<1>10. QED
  BY <1>3, <1>4, <1>9

LEMMA PrefixOfConcat ==
  ASSUME NEW p \in Paths, NEW r \in Paths, NEW s \in Paths
  PROVE  IsPrefix(p \o r, p \o s) <=> IsPrefix(r, s)
<1>1. p \in Seq(Names) /\ r \in Seq(Names) /\ s \in Seq(Names)
      /\ Len(p) \in Nat /\ Len(r) \in Nat /\ Len(s) \in Nat
  BY LenProperties DEF Paths
<1>2. /\ p \o r \in Seq(Names) /\ Len(p \o r) = Len(p) + Len(r)
      /\ \A i \in 1 .. Len(p) : (p \o r)[i] = p[i]
      /\ \A i \in 1 .. Len(r) : (p \o r)[Len(p) + i] = r[i]
  BY <1>1, Halves
<1>3. /\ p \o s \in Seq(Names) /\ Len(p \o s) = Len(p) + Len(s)
      /\ \A i \in 1 .. Len(p) : (p \o s)[i] = p[i]
      /\ \A i \in 1 .. Len(s) : (p \o s)[Len(p) + i] = s[i]
  BY <1>1, Halves
<1>4. /\ IsPrefix(p \o r, p \o s) <=>
             Len(p \o r) <= Len(p \o s) /\ \A i \in 1 .. Len(p \o r) : (p \o r)[i] = (p \o s)[i]
      /\ IsPrefix(r, s) <=> Len(r) <= Len(s) /\ \A i \in 1 .. Len(r) : r[i] = s[i]
  <2>1. p \o r \in Paths /\ p \o s \in Paths
    BY <1>2, <1>3 DEF Paths
  <2>2. QED
    BY <2>1, PrefixByElement
<1>5. ASSUME IsPrefix(p \o r, p \o s)
      PROVE  IsPrefix(r, s)
  <2>1. Len(r) <= Len(s)
    BY <1>1, <1>2, <1>3, <1>4, <1>5
  <2>2. ASSUME NEW i \in 1 .. Len(r)
        PROVE  r[i] = s[i]
    <3>1. Len(p) + i \in 1 .. Len(p \o r) /\ i \in 1 .. Len(s)
      BY <1>1, <1>2, <2>1
    <3>2. QED
      BY <1>2, <1>3, <1>4, <1>5, <3>1
  <2>3. QED
    BY <1>4, <2>1, <2>2
<1>6. ASSUME IsPrefix(r, s)
      PROVE  IsPrefix(p \o r, p \o s)
  <2>1. Len(p \o r) <= Len(p \o s)
    BY <1>1, <1>2, <1>3, <1>4, <1>6
  <2>2. ASSUME NEW i \in 1 .. Len(p \o r)
        PROVE  (p \o r)[i] = (p \o s)[i]
    <3>1. CASE i <= Len(p)
      BY <1>1, <1>2, <1>3, <3>1
    <3>2. CASE i > Len(p)
      <4>1. i - Len(p) \in 1 .. Len(r) /\ i - Len(p) \in 1 .. Len(s) /\ Len(p) + (i - Len(p)) = i
        BY <1>1, <1>2, <1>4, <1>6, <3>2
      <4>2. (p \o r)[i] = r[i - Len(p)] /\ (p \o s)[i] = s[i - Len(p)]
        BY <1>2, <1>3, <4>1
      <4>3. QED
        BY <1>4, <1>6, <4>1, <4>2
    <3>3. i <= Len(p) \/ i > Len(p)
      BY <1>1
    <3>4. QED
      BY <3>1, <3>2, <3>3
  <2>3. QED
    BY <1>4, <2>1, <2>2
<1>7. QED
  BY <1>5, <1>6

-----------------------------------------------------------------------------
\* What is assumed of the disks and the jobs.

\* What leads to something on a disk is a folder.
Tree(d) ==
    /\ DOMAIN d \subseteq Paths
    /\ << >> \in DOMAIN d /\ d[<< >>] = Folder
    /\ \A q \in DOMAIN d, p \in Paths : IsPrefix(p, q) /\ p # q => p \in DOMAIN d /\ d[p] = Folder

Kinds == {"copy", "duplicate", "move", "delete", "trash", "link", "folder", "file", "template"}

\* Files are transferred or made in a folder that is there.
ProperJobs ==
    /\ Mended \in Names /\ NewNames \subseteq Names
    /\ \A d \in Disks : Tree(d)
    /\ \A j \in Jobs :
          /\ j.kind \in Kinds
          /\ j.files \in Seq(Paths \ {<< >>})
          /\ j.kind \notin {"delete", "trash"} =>
                /\ j.destination \in Paths
                /\ \A d \in Disks : j.destination \in DOMAIN d /\ d[j.destination] = Folder

\* The name a file has where its own may be refused.
Final(src) == IF Last(src) \in Unwritable THEN Mended ELSE Last(src)

\* The places that the files themselves may take, or be in.
TargetNames(j) == {Last(j.files[i]) : i \in DOMAIN j.files} \cup NewNames \cup {Mended}
InTarget(j, p) == \E n \in TargetNames(j) : IsPrefix(Append(j.destination, n), p)

\* A name that the file system of the destination refuses is not there.
WritableTargets ==
    /\ Mended \notin Unwritable
    /\ \A j \in Jobs, d \in Disks : j.kind \in {"copy", "move"} =>
          /\ \A p \in DOMAIN d : InTarget(j, p) => Last(p) \notin Unwritable
          /\ \A i \in DOMAIN j.files : ~IsPrefix(Append(j.destination, Mended), j.files[i])
          /\ j.kind = "move" /\ ~j.crossing =>
                \A i \in DOMAIN j.files, p \in DOMAIN d :
                    IsPrefix(j.files[i], p) /\ Last(p) \in Unwritable => p = j.files[i]

\* Files that are moved are not in each other, and not where one of them may go.
FilesApart ==
    \A j \in Jobs : j.kind = "move" =>
        \A i \in DOMAIN j.files :
            /\ ~InTarget(j, j.files[i])
            /\ \A k \in DOMAIN j.files \ {i} : ~IsPrefix(j.files[i], j.files[k])

\* and take different places.
NamesApart ==
    \A j \in Jobs : j.kind = "move" =>
        \A i \in DOMAIN j.files : \A k \in DOMAIN j.files \ {i} : Final(j.files[i]) # Final(j.files[k])

\* and the user types no name that is taken.
Hypotheses == ProperJobs /\ WritableTargets /\ FilesApart /\ NamesApart /\ "taken" \notin Uses

-----------------------------------------------------------------------------
\* The inductive invariant.

Transfers == Copies \/ Moves
Asking == job.kind \in {"copy", "move"}

PathsOnly == Paths \ {<< >>}
Entry == [src : PathsOnly, over : BOOLEAN]
FileFrame == [kind : {"file"}, step : {"check", "try"}, src : PathsOnly, over : BOOLEAN,
              nr : Nat, dest : PathsOnly]
FolderFrame == [kind : {"folder"}, src : PathsOnly, dest : PathsOnly, left : SUBSET Names,
                skipped : BOOLEAN, mends : BOOLEAN]

\* The disk, the job and the place it works in.
Ground ==
    /\ before \in Disks /\ job \in Jobs
    /\ Tree(disk)
    /\ ~Removes => job.destination \in DOMAIN disk /\ disk[job.destination] = Folder
    /\ flags \in [Flag -> BOOLEAN]
    /\ phase \in Over => stack = << >>

Comparable(p, q) == IsPrefix(p, q) \/ IsPrefix(q, p)

\* The calls lead from a file of the job down to the one on top.
Calls ==
    /\ stack \in Seq(FileFrame \cup FolderFrame)
    /\ phase = "prepare" => Len(stack) <= 1 /\ Moves
    /\ phase = "scan" => stack = << >>
    /\ \A i \in DOMAIN stack :
          /\ i < Len(stack) \/ phase = "prepare" => (stack[i].kind = "folder" <=> i < Len(stack))
          /\ IsPrefix(job.destination, Front(stack[i].dest))
          /\ Asking => InTarget(job, stack[i].dest)
    /\ stack # << >> =>
          /\ \E k \in DOMAIN job.files : job.files[k] = stack[1].src
          /\ Front(stack[1].dest) = job.destination
    /\ \A k \in DOMAIN stack : \A i \in 1 .. k - 1 :
          /\ IsPrefix(stack[i].src, Front(stack[k].src))
          /\ IsPrefix(stack[i].dest, Front(stack[k].dest))
          /\ \A n \in stack[i].left : ~IsPrefix(Append(stack[i].src, n), stack[k].src)
    /\ \A k \in DOMAIN stack : k > 1 => Front(stack[k].dest) = stack[k - 1].dest

\* A folder that is walked is there, and so is its copy, somewhere else.
Walks(f) ==
    /\ f.src \in DOMAIN disk /\ disk[f.src] = Folder
    /\ f.dest \in DOMAIN disk /\ disk[f.dest] = Folder
    /\ ~Comparable(f.src, f.dest)

\* The place that is to be taken is that of the file's own name.
OwnName(c) == c.dest = Append(Front(c.dest), Final(c.src))

Aims(c) ==
    /\ c.step = "try" => ~IsPrefix(c.src, Front(c.dest))
    /\ c.over => Asking /\ OwnName(c)
    /\ Asking /\ c.dest \in DOMAIN disk => OwnName(c)
    /\ Asking /\ phase = "transfer" =>
          \/ ~IsPrefix(Append(Front(c.dest), Final(c.src)), c.src)
          \/ c.step = "check" /\ OwnName(c)

\* What is lost when src takes the place of dest has been agreed to.
Agreed(src, dest) ==
    src \in DOMAIN disk /\ dest \in DOMAIN disk =>
        \/ disk[src] = Folder /\ disk[dest] = Folder
        \/ Contents(dest) \ Contents(src) \subseteq agreed

\* The calls and what waits.
Aimed ==
    /\ \A i \in DOMAIN stack :
          /\ stack[i].kind = "folder" => Walks(stack[i])
          /\ stack[i].kind = "file" => Aims(stack[i])
    /\ Asking => \A p \in DOMAIN disk \ {<< >>} : Last(p) \in Unwritable => p \in DOMAIN before

Waits(e) ==
    /\ e \in Entry
    /\ \E k \in DOMAIN job.files : job.files[k] = e.src
    /\ e.over => Moves

Waiting ==
    /\ todo \in Seq(Entry) /\ fallbacks \in Seq(Entry)
    /\ \A i \in DOMAIN todo : Waits(todo[i])
    /\ \A i \in DOMAIN fallbacks : Waits(fallbacks[i])
    /\ Moves =>
          /\ \A i \in DOMAIN todo : \A k \in DOMAIN todo \ {i} : todo[i].src # todo[k].src
          /\ \A i \in DOMAIN fallbacks : \A k \in DOMAIN fallbacks \ {i} : fallbacks[i].src # fallbacks[k].src
          /\ \A i \in DOMAIN todo, k \in DOMAIN fallbacks : todo[i].src # fallbacks[k].src
          /\ stack # << >> =>
                /\ \A i \in DOMAIN todo : todo[i].src # stack[1].src
                /\ \A i \in DOMAIN fallbacks : fallbacks[i].src # stack[1].src

\* The place a file takes among those of its job.
Place(src) == Append(job.destination, Final(src))

\* What was agreed to for a file that was put off still holds when it is taken up,
\* and no other takes its place meanwhile.
Holds(e) ==
    e.over =>
        /\ Place(e.src) \in DOMAIN disk
        /\ Agreed(e.src, Place(e.src))
        /\ Last(e.src) \in Unwritable => mends
        /\ ~IsPrefix(e.src, job.destination)
PutOff(e) == Holds(e) /\ (e.over /\ stack # << >> => stack[1].dest # Place(e.src))

\* While files are only moved, a name that is taken is known to be a valid one.
CallAgreed(c) ==
    /\ c.over => Agreed(c.src, c.dest)
    /\ phase = "prepare" =>
          /\ c.over => c.dest \in DOMAIN disk
          /\ c.dest \in DOMAIN disk /\ Last(c.src) \in Unwritable => mends

AgreedTo ==
    /\ flags["replaceAll"] => always
    /\ \A i \in DOMAIN stack : stack[i].kind = "file" => CallAgreed(stack[i])
    /\ phase \notin Over =>
          /\ \A i \in DOMAIN todo : PutOff(todo[i])
          /\ \A i \in DOMAIN fallbacks : PutOff(fallbacks[i])

TransferPhases == {"prepare", "scan", "transfer"} \cup Over
TransferInv == Transfers => Calls /\ Aimed /\ Waiting /\ AgreedTo /\ phase \in TransferPhases

\* What the user had is there, or in the trash, or was given up.
Trashed == UNION {{item.tree[r] : r \in DOMAIN item.tree} : item \in trash}
Kept == {Folder} \cup agreed \cup {disk[q] : q \in DOMAIN disk} \cup Trashed

LossInv == \A p \in DOMAIN before : before[p] \in Kept

\* What the views know of and is not there.
Ghosts == known \ DOMAIN disk
Unhaunted(p) == \A q \in Ghosts : ~IsPrefix(p, q)

\* The views know of all there is, and of nothing else but folders that were moved.
ToldInv ==
    /\ DOMAIN disk \subseteq known
    /\ \A p \in Ghosts :
          /\ Moves /\ p \in DOMAIN before /\ before[p] = Folder
          /\ \E i \in DOMAIN job.files : IsPrefix(job.files[i], p)

\* What is to be moved is as it was, and the views know that.
AsBefore ==
    \A k \in DOMAIN job.files : ~IsPrefix(job.files[k], job.destination) =>
        \A q \in DOMAIN disk : IsPrefix(job.files[k], q) => q \in DOMAIN before /\ before[q] = disk[q]

CallUnhaunted(c) ==
    /\ c.kind = "file" => Unhaunted(c.src)
    /\ c.kind = "folder" => \A n \in c.left : Unhaunted(Append(c.src, n))

ViewInv ==
    /\ ToldInv
    /\ known \subseteq Paths
    /\ Moves =>
          /\ AsBefore
          /\ \A i \in DOMAIN todo : Unhaunted(todo[i].src)
          /\ \A i \in DOMAIN fallbacks : Unhaunted(fallbacks[i].src)
          /\ \A i \in DOMAIN stack : CallUnhaunted(stack[i])

\* What is deleted has been agreed to.
DeleteFrame == [kind : {"file"}, src : PathsOnly]
Doomed(p) == Contents(p) \subseteq agreed

TodoDoomed == \A i \in DOMAIN todo : Doomed(todo[i].src)
FallbacksDoomed == \A i \in DOMAIN fallbacks : Doomed(fallbacks[i].src)
CallsDoomed == \A i \in DOMAIN stack : Doomed(stack[i].src)

DeleteCalls ==
    /\ stack \in Seq(DeleteFrame \cup FolderFrame)
    /\ \A i \in DOMAIN stack : i < Len(stack) => stack[i] \in FolderFrame
    /\ phase # "delete" => stack = << >>

RemovalPhases == {"confirm", "confirm_trash", "trash", "scan", "delete", "done", "emptied"}

RemovalInv ==
    Removes =>
        /\ todo \in Seq(Entry) /\ fallbacks \in Seq(Entry)
        /\ DeleteCalls /\ CallsDoomed
        /\ phase \in RemovalPhases
        /\ phase \in {"scan", "delete"} => TodoDoomed
        /\ phase = "confirm_trash" => fallbacks = << >>
        /\ phase = "trash" => FallbacksDoomed
        /\ flags["deleteAll"] => always

NewFrame == [kind : {"new"}, src : PathsOnly, nr : Nat, mended : BOOLEAN, dest : PathsOnly]

CreationInv ==
    Links \/ Creates =>
        /\ todo \in Seq(Entry)
        /\ stack \in Seq(NewFrame) /\ Len(stack) <= 1
        /\ \A i \in DOMAIN stack : Front(stack[i].dest) = job.destination
        /\ phase = "verify" => stack = << >>

\* All of it, as long as nothing has been undone.
Sound ==
    /\ Ground /\ TransferInv /\ RemovalInv /\ CreationInv
    /\ mends \in BOOLEAN
    /\ LossInv /\ ViewInv

FilesInv == ~undoing /\ phase # "undone" => Sound

-----------------------------------------------------------------------------
\* Disks.

\* What a transfer from src to dest may do to the disk: whatever it likes at dest,
\* and elsewhere nothing but take away what is at src.
Changed(src, dest) ==
    /\ Tree(disk')
    /\ \A q \in DOMAIN disk :
          (q \in DOMAIN disk' /\ disk'[q] = disk[q]) \/ IsPrefix(src, q) \/ IsPrefix(dest, q)
    /\ \A q \in DOMAIN disk' : (q \in DOMAIN disk /\ disk'[q] = disk[q]) \/ IsPrefix(dest, q)

LEMMA PathsUp ==
  ASSUME NEW d, Tree(d), NEW q \in DOMAIN d, NEW p \in Paths, IsPrefix(p, q)
  PROVE  p \in DOMAIN d /\ (p # q => d[p] = Folder)
  BY DEF Tree

LEMMA Taking ==
  ASSUME Tree(disk), NEW R \in SUBSET DOMAIN disk, << >> \notin R,
         \A r \in R : Under(r) \subseteq R, disk' = Without(R)
  PROVE  /\ Tree(disk') /\ DOMAIN disk' = DOMAIN disk \ R
         /\ \A q \in DOMAIN disk \ R : disk'[q] = disk[q]
<1>1. DOMAIN disk' = DOMAIN disk \ R /\ \A q \in DOMAIN disk \ R : disk'[q] = disk[q]
  BY DEF Without
<1>2. ASSUME NEW q \in DOMAIN disk', NEW p \in Paths, IsPrefix(p, q), p # q
      PROVE  p \in DOMAIN disk' /\ disk'[p] = Folder
  <2>1. q \in DOMAIN disk \ R /\ p \in DOMAIN disk /\ disk[p] = Folder
    BY <1>1, <1>2 DEF Tree
  <2>2. p \notin R
    BY <1>2, <2>1 DEF Under
  <2>3. QED
    BY <1>1, <2>1, <2>2
<1>3. Tree(disk')
  BY <1>1, <1>2 DEF Tree
<1>4. QED
  BY <1>1, <1>3

LEMMA Putting ==
  ASSUME Tree(disk), NEW dest \in PathsOnly, NEW v,
         Front(dest) \in DOMAIN disk, disk[Front(dest)] = Folder,
         dest \in DOMAIN disk => disk[dest] # Folder,
         disk' = [q \in DOMAIN disk \cup {dest} |-> IF q = dest THEN v ELSE disk[q]]
  PROVE  /\ Tree(disk') /\ DOMAIN disk' = DOMAIN disk \cup {dest} /\ disk'[dest] = v
         /\ \A q \in DOMAIN disk \ {dest} : disk'[q] = disk[q]
<1>1. /\ DOMAIN disk' = DOMAIN disk \cup {dest} /\ disk'[dest] = v
      /\ \A q \in DOMAIN disk \ {dest} : disk'[q] = disk[q]
  OBVIOUS
<1>2. dest \in Paths /\ dest # << >>
  BY DEF PathsOnly
<1>3. ASSUME NEW q \in DOMAIN disk', NEW p \in Paths, IsPrefix(p, q), p # q
      PROVE  p \in DOMAIN disk' /\ disk'[p] = Folder
  <2>1. p \in DOMAIN disk /\ disk[p] = Folder
    <3>1. CASE q = dest
      <4>1. IsPrefix(p, Front(dest)) /\ Front(dest) \in Paths
        BY <1>2, <1>3, <3>1, FrontOfPath
      <4>2. QED
        BY <4>1 DEF Tree
    <3>2. CASE q # dest
      BY <1>1, <1>3, <3>2 DEF Tree
    <3>3. QED
      BY <3>1, <3>2
  <2>2. QED
    BY <1>1, <2>1
<1>4. Tree(disk')
  <2>1. DOMAIN disk' \subseteq Paths /\ << >> \in DOMAIN disk' /\ disk'[<< >>] = Folder
    BY <1>1, <1>2 DEF Tree
  <2>2. QED
    BY <1>3, <2>1 DEF Tree
<1>5. QED
  BY <1>1, <1>4

LEMMA Carrying ==
  ASSUME Tree(disk), NEW src \in PathsOnly, NEW dest \in PathsOnly, src \in DOMAIN disk,
         ~IsPrefix(src, Front(dest)),
         Front(dest) \in DOMAIN disk, disk[Front(dest)] = Folder,
         dest \in DOMAIN disk => disk[dest] # Folder,
         disk' = Carry(src, dest)
  PROVE  /\ Changed(src, dest)
         /\ DOMAIN disk' = (DOMAIN disk \ Under(src)) \cup {dest \o Rest(src, q) : q \in Under(src)}
         /\ \A q \in Under(src) :
               /\ dest \o Rest(src, q) \in DOMAIN disk'
               /\ disk'[dest \o Rest(src, q)] = disk[q]
         /\ \A q \in DOMAIN disk' : IsPrefix(dest, q) =>
               /\ src \o Rest(dest, q) \in Under(src)
               /\ q = dest \o Rest(src, src \o Rest(dest, q))
<1> DEFINE There == {dest \o Rest(src, q) : q \in Under(src)}
<1>1. /\ DOMAIN disk' = (DOMAIN disk \ Under(src)) \cup There
      /\ \A q \in DOMAIN disk' : disk'[q] = IF q \in There THEN disk[src \o Rest(dest, q)] ELSE disk[q]
  BY DEF Carry
<1>2. src \in Paths /\ src # << >> /\ dest \in Paths /\ dest # << >> /\ DOMAIN disk \subseteq Paths
  BY DEF PathsOnly, Tree
<1>3. ASSUME NEW q \in Under(src)
      PROVE  LET r == Rest(src, q)
             IN r \in Paths /\ src \o r = q /\ dest \o r \in Paths /\ IsPrefix(dest, dest \o r)
                /\ Rest(dest, dest \o r) = r /\ src \o Rest(dest, dest \o r) = q
  <2>1. q \in Paths /\ IsPrefix(src, q)
    BY <1>2 DEF Under
  <2>2. Rest(src, q) \in Paths /\ src \o Rest(src, q) = q
    BY <1>2, <2>1, RestOfPath
  <2>3. QED
    BY <1>2, <2>2, ConcatenatedPath
<1>4. \A q \in Under(src) : dest \o Rest(src, q) \in DOMAIN disk' /\ disk'[dest \o Rest(src, q)] = disk[q]
  BY <1>1, <1>3
<1>5. ASSUME NEW q \in DOMAIN disk, IsPrefix(dest, q)
      PROVE  q \in There
  <2>1. dest \in DOMAIN disk
    BY <1>2, <1>5 DEF Tree
  <2>2. q = dest
    BY <1>2, <1>5, <2>1 DEF Tree
  <2>3. src \in Under(src)
    BY <1>2, PrefixReflexive DEF Under
  <2>4. dest \o Rest(src, src) = dest
    <3>1. Rest(src, src) = << >>
      BY <1>2, LenProperties DEF Rest, Paths
    <3>2. QED
      BY <1>2, <3>1, ConcatEmptySeq DEF Paths
  <2>5. QED
    BY <2>2, <2>3, <2>4
<1>6. \A q \in There : q \in Paths /\ IsPrefix(dest, q)
  BY <1>3
<1>7. ASSUME NEW q \in DOMAIN disk', IsPrefix(dest, q)
      PROVE  /\ src \o Rest(dest, q) \in Under(src)
             /\ q = dest \o Rest(src, src \o Rest(dest, q))
  <2>1. q \in There
    BY <1>1, <1>5, <1>7
  <2>2. PICK u \in Under(src) : q = dest \o Rest(src, u)
    BY <2>1
  <2>3. src \o Rest(dest, q) = u
    BY <1>3, <2>2
  <2>4. QED
    BY <2>2, <2>3
<1>8. \A q \in DOMAIN disk' : (q \in DOMAIN disk /\ disk'[q] = disk[q]) \/ IsPrefix(dest, q)
  BY <1>1, <1>6
<1>9. \A q \in DOMAIN disk :
          (q \in DOMAIN disk' /\ disk'[q] = disk[q]) \/ IsPrefix(src, q) \/ IsPrefix(dest, q)
  BY <1>1, <1>6 DEF Under
<1>10. ASSUME NEW q \in DOMAIN disk', NEW p \in Paths, IsPrefix(p, q), p # q
       PROVE  p \in DOMAIN disk' /\ disk'[p] = Folder
  <2>1. CASE IsPrefix(dest, q) /\ IsPrefix(dest, p)
    <3>1. q \in Paths
      BY <1>1, <1>2, <1>6
    <3> DEFINE r == Rest(dest, p)
               u == src \o Rest(dest, q)
    <3>2. r \in Paths /\ dest \o r = p /\ Rest(dest, q) \in Paths /\ dest \o Rest(dest, q) = q
      BY <1>2, <2>1, <3>1, RestOfPath
    <3>3. IsPrefix(r, Rest(dest, q))
      <4>1. IsPrefix(dest \o r, dest \o Rest(dest, q))
        BY <1>10, <3>2
      <4>2. QED
        BY <1>2, <3>2, <4>1, PrefixOfConcat
    <3>4. IsPrefix(src \o r, u) /\ src \o r # u
      <4>1. IsPrefix(src \o r, u)
        BY <1>2, <3>2, <3>3, PrefixOfConcat
      <4>2. r = Rest(src, src \o r) /\ Rest(dest, q) = Rest(src, u)
        BY <1>2, <3>2, ConcatenatedPath
      <4>3. QED
        BY <1>10, <3>2, <4>1, <4>2
    <3>5. u \in Under(src)
      BY <1>7, <2>1
    <3>6. src \o r \in Paths /\ IsPrefix(src, src \o r) /\ Rest(src, src \o r) = r
      BY <1>2, <3>2, ConcatenatedPath
    <3>7. src \o r \in Under(src) /\ disk[src \o r] = Folder
      BY <3>4, <3>5, <3>6 DEF Tree, Under
    <3>8. QED
      BY <1>4, <3>2, <3>6, <3>7
  <2>2. CASE IsPrefix(dest, q) /\ ~IsPrefix(dest, p)
    <3>1. q \in Paths
      BY <1>1, <1>2, <1>6
    <3>2. IsPrefix(p, dest) /\ p # dest
      BY <1>2, <1>10, <2>2, <3>1, PrefixesCompare, PrefixReflexive
    <3>3. IsPrefix(p, Front(dest)) /\ Front(dest) \in Paths
      BY <1>2, <3>2, FrontOfPath
    <3>4. p \in DOMAIN disk /\ disk[p] = Folder
      BY <3>3 DEF Tree
    <3>5. ~IsPrefix(src, p)
      BY <1>2, <3>3, PrefixTransitive
    <3>6. QED
      BY <1>1, <1>6, <2>2, <3>4, <3>5 DEF Under
  <2>3. CASE ~IsPrefix(dest, q)
    <3>1. q \in DOMAIN disk \ Under(src) /\ q \in Paths
      BY <1>1, <1>2, <1>6, <2>3
    <3>2. p \in DOMAIN disk /\ disk[p] = Folder
      BY <1>10, <3>1 DEF Tree
    <3>3. ~IsPrefix(src, p)
      BY <1>2, <1>10, <3>1, PrefixTransitive DEF Under
    <3>4. ~IsPrefix(dest, p)
      BY <1>2, <1>10, <2>3, <3>1, PrefixTransitive
    <3>5. QED
      BY <1>1, <1>6, <3>2, <3>3, <3>4 DEF Under
  <2>4. QED
    BY <2>1, <2>2, <2>3
<1>11. << >> \in DOMAIN disk' /\ disk'[<< >>] = Folder
  <2>1. ~IsPrefix(src, << >>) /\ ~IsPrefix(dest, << >>)
    BY <1>2, PrefixReflexive, PrefixAntisymmetric
  <2>2. QED
    BY <1>9, <2>1 DEF Tree
<1>12. Tree(disk')
  BY <1>1, <1>2, <1>6, <1>10, <1>11 DEF Tree
<1>13. QED
  BY <1>1, <1>4, <1>7, <1>8, <1>9, <1>12 DEF Changed

-----------------------------------------------------------------------------
\* The calls.

LEMMA Continuing ==
  ASSUME NEW S, stack \in Seq(S), stack # << >>, NEW c \in S, Continue(c)
  PROVE  /\ stack' \in Seq(S) /\ Len(stack') = Len(stack) /\ Len(stack) \in Nat \ {0}
         /\ DOMAIN stack = 1 .. Len(stack) /\ DOMAIN stack' = 1 .. Len(stack)
         /\ stack'[Len(stack)] = c
         /\ \A i \in 1 .. Len(stack) - 1 : stack'[i] = stack[i]
<1>1. /\ Front(stack) \in Seq(S) /\ Len(stack) \in Nat \ {0} /\ Len(Front(stack)) = Len(stack) - 1
      /\ \A i \in 1 .. Len(stack) - 1 : Front(stack)[i] = stack[i]
  BY FrontOfSeq
<1>2. stack' = Append(Front(stack), c)
  BY DEF Continue
<1>3. /\ stack' \in Seq(S) /\ Len(stack') = Len(Front(stack)) + 1
      /\ \A i \in 1 .. Len(Front(stack)) : stack'[i] = Front(stack)[i]
      /\ stack'[Len(Front(stack)) + 1] = c
  BY <1>1, <1>2, AppendProperties
<1>4. DOMAIN stack = 1 .. Len(stack) /\ DOMAIN stack' = 1 .. Len(stack')
  BY <1>3, LenProperties
<1>5. QED
  BY <1>1, <1>3, <1>4

LEMMA PushedList ==
  ASSUME NEW S, NEW s \in Seq(S), NEW f \in S, NEW c \in S, NEW t, t = Append(s, f) \o << c >>
  PROVE  /\ t \in Seq(S) /\ Len(t) = Len(s) + 2 /\ DOMAIN t = 1 .. Len(s) + 2
         /\ t[Len(s) + 2] = c /\ t[Len(s) + 1] = f
         /\ \A i \in 1 .. Len(s) : t[i] = s[i]
<1>1. /\ Append(s, f) \in Seq(S) /\ Len(Append(s, f)) = Len(s) + 1 /\ Len(s) \in Nat
      /\ \A i \in 1 .. Len(s) : Append(s, f)[i] = s[i]
      /\ Append(s, f)[Len(s) + 1] = f
  BY AppendProperties, LenProperties
<1>2. << c >> \in Seq(S) /\ Len(<< c >>) = 1 /\ << c >>[1] = c
  OBVIOUS
<1>3. \A p, r \in Seq(S) :
         /\ p \o r \in Seq(S) /\ Len(p \o r) = Len(p) + Len(r)
         /\ \A i \in 1 .. Len(p) : (p \o r)[i] = p[i]
         /\ \A i \in 1 .. Len(r) : (p \o r)[Len(p) + i] = r[i]
  BY Halves
<1>4. PICK p \in Seq(S) : p = Append(s, f)
  BY <1>1
<1>5. PICK r \in Seq(S) : r = << c >>
  BY <1>2
<1>6. /\ p \o r \in Seq(S) /\ Len(p \o r) = Len(p) + Len(r)
      /\ \A i \in 1 .. Len(p) : (p \o r)[i] = p[i]
      /\ \A i \in 1 .. Len(r) : (p \o r)[Len(p) + i] = r[i]
  BY <1>3
<1>7. DOMAIN (p \o r) = 1 .. Len(p \o r)
  BY <1>6, LenProperties
<1>8. Len(p) = Len(s) + 1 /\ Len(r) = 1 /\ r[1] = c /\ p[Len(s) + 1] = f /\ \A i \in 1 .. Len(s) : p[i] = s[i]
  BY <1>1, <1>2, <1>4, <1>5
<1>9. /\ Len(p \o r) = Len(s) + 2 /\ DOMAIN (p \o r) = 1 .. Len(s) + 2
      /\ (p \o r)[Len(s) + 2] = c /\ (p \o r)[Len(s) + 1] = f
      /\ \A i \in 1 .. Len(s) : (p \o r)[i] = s[i]
  <2>1. Len(p) + 1 = Len(s) + 2 /\ 1 \in 1 .. Len(r) /\ Len(s) + 1 \in 1 .. Len(p)
    BY <1>1, <1>8
  <2>2. (p \o r)[Len(p) + 1] = r[1] /\ (p \o r)[Len(s) + 1] = p[Len(s) + 1]
    BY <1>6, <2>1
  <2>3. QED
    BY <1>1, <1>6, <1>7, <1>8, <2>1, <2>2
<1>10. t = p \o r
  BY <1>4, <1>5
<1>11. QED
  BY <1>6, <1>9, <1>10

LEMMA Pushing ==
  ASSUME NEW S, stack \in Seq(S), stack # << >>, NEW f \in S, NEW c \in S,
         stack' = Append(Front(stack), f) \o << c >>
  PROVE  /\ stack' \in Seq(S) /\ Len(stack') = Len(stack) + 1 /\ Len(stack) \in Nat \ {0}
         /\ DOMAIN stack = 1 .. Len(stack) /\ DOMAIN stack' = 1 .. Len(stack) + 1
         /\ stack'[Len(stack) + 1] = c /\ stack'[Len(stack)] = f
         /\ \A i \in 1 .. Len(stack) - 1 : stack'[i] = stack[i]
<1>1. /\ Front(stack) \in Seq(S) /\ Len(stack) \in Nat \ {0} /\ Len(Front(stack)) = Len(stack) - 1
      /\ \A i \in 1 .. Len(stack) - 1 : Front(stack)[i] = stack[i]
  BY FrontOfSeq
<1>2. /\ stack' \in Seq(S) /\ Len(stack') = Len(Front(stack)) + 2
      /\ DOMAIN stack' = 1 .. Len(Front(stack)) + 2
      /\ stack'[Len(Front(stack)) + 2] = c /\ stack'[Len(Front(stack)) + 1] = f
      /\ \A i \in 1 .. Len(Front(stack)) : stack'[i] = Front(stack)[i]
  <2>1. PICK s \in Seq(S) : s = Front(stack)
    BY <1>1
  <2>2. PICK t : t = Append(s, f) \o << c >>
    OBVIOUS
  <2>3. /\ t \in Seq(S) /\ Len(t) = Len(s) + 2 /\ DOMAIN t = 1 .. Len(s) + 2
        /\ t[Len(s) + 2] = c /\ t[Len(s) + 1] = f
        /\ \A i \in 1 .. Len(s) : t[i] = s[i]
    BY <2>2, PushedList
  <2>4. stack' = t
    BY <2>1, <2>2
  <2>5. QED
    BY <2>1, <2>3, <2>4
<1>3. DOMAIN stack = 1 .. Len(stack)
  BY LenProperties
<1>4. QED
  BY <1>1, <1>2, <1>3

\* Only its caller learns that a call returns, and only that something was skipped.
LEMMA Returning ==
  ASSUME NEW S, stack \in Seq(S \cup FolderFrame), stack # << >>,
         \A i \in 1 .. Len(stack) - 1 : stack[i] \in FolderFrame,
         NEW b \in BOOLEAN, Return(b)
  PROVE  /\ stack' \in Seq(S \cup FolderFrame)
         /\ Len(stack') = Len(stack) - 1 /\ Len(stack) \in Nat \ {0}
         /\ DOMAIN stack = 1 .. Len(stack) /\ DOMAIN stack' = 1 .. Len(stack) - 1
         /\ \A i \in 1 .. Len(stack) - 1 :
               /\ stack'[i] \in FolderFrame
               /\ stack'[i].src = stack[i].src /\ stack'[i].dest = stack[i].dest
               /\ stack'[i].left = stack[i].left
<1>1. /\ Front(stack) \in Seq(S \cup FolderFrame) /\ Len(stack) \in Nat \ {0}
      /\ Len(Front(stack)) = Len(stack) - 1
      /\ \A i \in 1 .. Len(stack) - 1 : Front(stack)[i] = stack[i]
  BY FrontOfSeq
<1>2. DOMAIN stack = 1 .. Len(stack) /\ DOMAIN Front(stack) = 1 .. Len(stack) - 1
  BY <1>1, LenProperties
<1>3. CASE Front(stack) = << >>
  BY <1>1, <1>2, <1>3 DEF Return
<1>4. CASE Front(stack) # << >>
  <2> DEFINE n == Len(Front(stack))
             f == [stack[n] EXCEPT !.skipped = @ \/ b]
  <2>1. n \in 1 .. Len(stack) - 1 /\ n \in Nat
    BY <1>1, <1>4, EmptySeq
  <2>2. stack[n] \in FolderFrame
    BY <2>1
  <2>3. f \in FolderFrame /\ f.src = stack[n].src /\ f.dest = stack[n].dest /\ f.left = stack[n].left
    BY <2>2 DEF FolderFrame
  <2>4. stack' = [Front(stack) EXCEPT ![n] = f]
    BY <1>1, <1>4, <2>1 DEF Return
  <2> HIDE DEF f
  <2>5. /\ stack' \in Seq(S \cup FolderFrame) /\ Len(stack') = Len(Front(stack))
        /\ \A i \in 1 .. Len(Front(stack)) : stack'[i] = IF i = n THEN f ELSE Front(stack)[i]
    BY <1>1, <2>1, <2>3, <2>4, ExceptSeq
  <2>6. DOMAIN stack' = 1 .. Len(stack')
    BY <2>5, LenProperties
  <2>7. QED
    BY <1>1, <1>2, <2>3, <2>5, <2>6
<1>5. QED
  BY <1>3, <1>4

LEMMA TopOfStack ==
  ASSUME NEW S, stack \in Seq(S), stack # << >>
  PROVE  /\ Len(stack) \in Nat \ {0} /\ DOMAIN stack = 1 .. Len(stack)
         /\ Len(stack) \in DOMAIN stack /\ Top = stack[Len(stack)] /\ Top \in S
<1>1. Len(stack) \in Nat \ {0} /\ DOMAIN stack = 1 .. Len(stack)
  BY EmptySeq, LenProperties
<1>2. QED
  BY <1>1 DEF Top, Last

LEMMA NextOfList ==
  ASSUME NEW S, NEW s \in Seq(S), s # << >>
  PROVE  /\ Head(s) \in S /\ Head(s) = s[1] /\ Tail(s) \in Seq(S) /\ Len(s) \in Nat \ {0}
         /\ 1 \in DOMAIN s /\ Len(Tail(s)) = Len(s) - 1
         /\ \A i \in DOMAIN Tail(s) : i + 1 \in DOMAIN s /\ Tail(s)[i] = s[i + 1]
<1>1. Len(s) \in Nat \ {0} /\ DOMAIN s = 1 .. Len(s)
  BY EmptySeq, LenProperties
<1>2. /\ Head(s) \in S /\ Tail(s) \in Seq(S) /\ Len(Tail(s)) = Len(s) - 1
      /\ \A i \in 1 .. Len(Tail(s)) : Tail(s)[i] = s[i + 1]
  BY HeadTailProperties
<1>3. DOMAIN Tail(s) = 1 .. Len(s) - 1
  BY <1>2, LenProperties
<1>4. QED
  BY <1>1, <1>2, <1>3

LEMMA AddedToList ==
  ASSUME NEW S, NEW s \in Seq(S), NEW e \in S
  PROVE  /\ Append(s, e) \in Seq(S) /\ Len(s) \in Nat /\ DOMAIN s = 1 .. Len(s)
         /\ DOMAIN Append(s, e) = 1 .. Len(s) + 1
         /\ Append(s, e)[Len(s) + 1] = e
         /\ \A i \in DOMAIN s : Append(s, e)[i] = s[i]
<1>1. /\ Append(s, e) \in Seq(S) /\ Len(Append(s, e)) = Len(s) + 1
      /\ \A i \in 1 .. Len(s) : Append(s, e)[i] = s[i]
      /\ Append(s, e)[Len(s) + 1] = e
  BY AppendProperties
<1>2. DOMAIN s = 1 .. Len(s) /\ DOMAIN Append(s, e) = 1 .. Len(Append(s, e)) /\ Len(s) \in Nat
  BY <1>1, LenProperties
<1>3. QED
  BY <1>1, <1>2

LEMMA Warned ==
  ASSUME flags \in [Flag -> BOOLEAN], Warn \/ WarnOnce
  PROVE  /\ flags' \in [Flag -> BOOLEAN]
         /\ flags'["deleteAll"] = flags["deleteAll"] /\ flags'["replaceAll"] = flags["replaceAll"]
         /\ agreed' = agreed /\ always' = always
  BY DEF Warn, WarnOnce, Flag

-----------------------------------------------------------------------------
\* What is deleted, and what goes to the trash.

\* What the steps of a job that deletes keep.
RemovalGoal == Ground' /\ RemovalInv' /\ Kept \subseteq Kept'

LEMMA DoomedStays ==
  ASSUME NEW p, Doomed(p), agreed \subseteq agreed', DOMAIN disk' \subseteq DOMAIN disk,
         \A q \in DOMAIN disk' : disk'[q] = disk[q]
  PROVE  Doomed(p)'
<1>1. Contents(p)' \subseteq Contents(p)
  BY DEF Contents, Under
<1>2. QED
  BY <1>1 DEF Doomed

\* Nothing but what is agreed to is taken from the disk.
LEMMA KeptStays ==
  ASSUME agreed \subseteq agreed', trash \subseteq trash',
         \A q \in DOMAIN disk : disk[q] \in Kept'
  PROVE  Kept \subseteq Kept'
  BY DEF Kept, Trashed

\* A step that leaves the disk, the trash and the calls alone.
LEMMA QuietRemoval ==
  ASSUME Ground, RemovalInv, Removes, UNCHANGED <<before, job, disk, trash, stack>>,
         stack = << >>,
         flags' \in [Flag -> BOOLEAN], agreed \subseteq agreed',
         flags'["deleteAll"] => always',
         todo' \in Seq(Entry) /\ fallbacks' \in Seq(Entry),
         phase' \in RemovalPhases,
         phase' \in {"scan", "delete"} => TodoDoomed',
         phase' = "confirm_trash" => fallbacks' = << >>,
         phase' = "trash" => FallbacksDoomed'
  PROVE  RemovalGoal
<1>1. Ground'
  BY DEF Ground, Removes, Tree
<1>2. DeleteCalls'
  BY DEF RemovalInv, DeleteCalls
<1>3. CallsDoomed'
  <2>1. DOMAIN stack = {}
    OBVIOUS
  <2>2. QED
    BY <2>1 DEF CallsDoomed
<1>4. RemovalInv'
  BY <1>2, <1>3, Zenon DEF RemovalInv
<1>5. Kept \subseteq Kept'
  BY DEF Kept, Trashed
<1>6. QED
  BY <1>1, <1>4, <1>5 DEF RemovalGoal

LEMMA ConfirmStep ==
  ASSUME Ground, RemovalInv, Removes, Confirm, UNCHANGED <<before, job>>
  PROVE  RemovalGoal
<1>1. UNCHANGED <<before, job, disk, trash, stack>> /\ stack = << >>
  BY Zenon DEF Confirm, RemovalInv, DeleteCalls
<1>2. flags' = flags /\ always' = always /\ agreed \subseteq agreed'
  BY DEF Confirm, Agrees
<1>3. flags' \in [Flag -> BOOLEAN] /\ (flags'["deleteAll"] => always')
  BY <1>2, Zenon DEF Ground, RemovalInv
<1>4. todo' \in Seq(Entry) /\ fallbacks' \in Seq(Entry)
  BY EmptySeq DEF Confirm, RemovalInv
<1>5. phase' \in RemovalPhases /\ phase' # "delete" /\ phase' # "trash"
  BY DEF Confirm, RemovalPhases
<1>6. phase' = "confirm_trash" => fallbacks' = << >>
  BY DEF Confirm
<1>7. phase' = "scan" => TodoDoomed'
  <2>1. ASSUME phase' = "scan"
        PROVE  TodoDoomed'
    <3>1. Agrees({todo[i].src : i \in DOMAIN todo}) /\ todo' = todo
      BY <2>1 DEF Confirm
    <3>2. \A i \in DOMAIN todo : Contents(todo[i].src) \subseteq agreed'
      BY <3>1 DEF Agrees
    <3>3. QED
      BY <1>1, <3>1, <3>2 DEF TodoDoomed, Doomed, Contents, Under
  <2>2. QED
    BY <2>1
<1>8. QED
  BY <1>1, <1>2, <1>3, <1>4, <1>5, <1>6, <1>7, QuietRemoval

LEMMA ConfirmTrashStep ==
  ASSUME Ground, RemovalInv, Removes, ConfirmTrash, UNCHANGED <<before, job>>
  PROVE  RemovalGoal
<1>1. UNCHANGED <<before, job, disk, trash, stack>> /\ stack = << >>
  BY Zenon DEF ConfirmTrash, RemovalInv, DeleteCalls
<1>2. UNCHANGED <<todo, fallbacks, flags, agreed, always>>
  BY DEF ConfirmTrash, Asked
<1>3. flags' \in [Flag -> BOOLEAN] /\ (flags'["deleteAll"] => always') /\ agreed \subseteq agreed'
  BY <1>2, Zenon DEF Ground, RemovalInv
<1>4. todo' \in Seq(Entry) /\ fallbacks' \in Seq(Entry)
  BY <1>2, Zenon DEF RemovalInv
<1>5. phase' \in RemovalPhases /\ phase' \notin {"scan", "delete", "confirm_trash"}
  BY DEF ConfirmTrash, RemovalPhases
<1>6. FallbacksDoomed'
  <2>1. fallbacks' = << >>
    BY <1>2 DEF ConfirmTrash, RemovalInv
  <2>2. DOMAIN fallbacks' = {}
    BY <2>1
  <2>3. QED
    BY <2>2 DEF FallbacksDoomed
<1>7. QED
  BY <1>1, <1>3, <1>4, <1>5, <1>6, QuietRemoval

LEMMA TrashDoneStep ==
  ASSUME Ground, RemovalInv, Removes, TrashDone, UNCHANGED <<before, job>>
  PROVE  RemovalGoal
<1>1. UNCHANGED <<before, job, disk, trash, stack>> /\ stack = << >>
  BY Zenon DEF TrashDone, RemovalInv, DeleteCalls
<1>2. UNCHANGED <<flags, agreed, always>> /\ todo' = fallbacks /\ fallbacks' = << >>
  BY DEF TrashDone, Asked
<1>3. flags' \in [Flag -> BOOLEAN] /\ (flags'["deleteAll"] => always') /\ agreed \subseteq agreed'
  BY <1>2, Zenon DEF Ground, RemovalInv
<1>4. todo' \in Seq(Entry) /\ fallbacks' \in Seq(Entry)
  BY <1>2, EmptySeq DEF RemovalInv
<1>5. phase' \in RemovalPhases /\ phase' \notin {"trash", "confirm_trash"}
  BY DEF TrashDone, RemovalPhases
<1>6. TodoDoomed'
  BY <1>1, <1>2 DEF TrashDone, RemovalInv, FallbacksDoomed, TodoDoomed, Doomed, Contents, Under
<1>7. QED
  BY <1>1, <1>2, <1>3, <1>4, <1>5, <1>6, QuietRemoval

LEMMA ScanFilesStep ==
  ASSUME Ground, RemovalInv, Removes, ScanFiles, UNCHANGED <<before, job>>
  PROVE  RemovalGoal
<1>1. UNCHANGED <<before, job, disk, trash, stack, agreed, always>> /\ stack = << >>
  BY Zenon DEF ScanFiles, RemovalInv, DeleteCalls
<1>2. flags' \in [Flag -> BOOLEAN] /\ flags'["deleteAll"] = flags["deleteAll"]
  BY DEF ScanFiles, Scans, Ground, Flag
<1>3. (flags'["deleteAll"] => always') /\ agreed \subseteq agreed'
  BY <1>1, <1>2, Zenon DEF RemovalInv
<1>4. phase' \in {"delete", Then}
  BY DEF ScanFiles, Scans
<1>5. phase' \in RemovalPhases /\ phase' \notin {"trash", "scan"}
  BY <1>4 DEF Then, RemovalPhases
<1>6. \/ todo' = todo /\ fallbacks' = fallbacks /\ phase' = "delete"
      \/ todo' = fallbacks /\ fallbacks' = << >> /\ phase' # "delete"
  BY Zenon DEF ScanFiles, ThenTodo
<1>7. todo' \in Seq(Entry) /\ fallbacks' \in Seq(Entry)
  BY <1>6, EmptySeq DEF RemovalInv
<1>8. phase' = "delete" => TodoDoomed'
  BY <1>1, <1>6 DEF ScanFiles, RemovalInv, TodoDoomed, Doomed, Contents, Under
<1>9. phase' = "confirm_trash" => fallbacks' = << >>
  BY <1>6
<1>10. QED
  BY <1>1, <1>2, <1>3, <1>5, <1>7, <1>8, <1>9, QuietRemoval

LEMMA DeleteDoneStep ==
  ASSUME Ground, RemovalInv, Removes, DeleteDone, UNCHANGED <<before, job>>
  PROVE  RemovalGoal
<1>1. UNCHANGED <<before, job, disk, trash, stack, flags, agreed, always>> /\ stack = << >>
  BY Zenon DEF DeleteDone, Asked
<1>2. flags' \in [Flag -> BOOLEAN] /\ (flags'["deleteAll"] => always') /\ agreed \subseteq agreed'
  BY <1>1, Zenon DEF Ground, RemovalInv
<1>3. todo' = fallbacks /\ fallbacks' = << >>
  BY DEF DeleteDone, ThenTodo
<1>4. todo' \in Seq(Entry) /\ fallbacks' \in Seq(Entry)
  BY <1>3, EmptySeq DEF RemovalInv
<1>5. phase' \in RemovalPhases /\ phase' \notin {"trash", "scan", "delete"}
  BY DEF DeleteDone, Then, RemovalPhases
<1>6. QED
  BY <1>1, <1>2, <1>3, <1>4, <1>5, QuietRemoval

\* A file that stays is deleted later only if that is agreed to.
LEMMA StaysStep ==
  ASSUME Ground, RemovalInv, Removes, Trash, UNCHANGED <<before, job>>, Stays(Head(todo).src)
  PROVE  RemovalGoal
<1> DEFINE p == Head(todo).src
<1>1. UNCHANGED <<before, job, disk, trash, stack, phase>> /\ stack = << >> /\ phase = "trash"
  BY Zenon DEF Trash, Stays, RemovalInv, DeleteCalls
<1>2. todo \in Seq(Entry) /\ todo # << >> /\ fallbacks \in Seq(Entry) /\ FallbacksDoomed
  BY <1>1, Zenon DEF Trash, RemovalInv
<1>3. p \in PathsOnly /\ todo' \in Seq(Entry)
  <2>1. Head(todo) \in Entry /\ Tail(todo) \in Seq(Entry)
    BY <1>2, NextOfList
  <2>2. QED
    BY <2>1 DEF Entry, Trash
<1> HIDE DEF p
<1>4. /\ fallbacks' = fallbacks \/ (fallbacks' = Append(fallbacks, [src |-> p, over |-> FALSE])
                                    /\ Contents(p) \subseteq agreed')
      /\ agreed \subseteq agreed'
      /\ flags' \in [Flag -> BOOLEAN]
      /\ flags'["deleteAll"] => always'
  <2> USE DEF p
  <2>1. CASE flags["skipErrors"]
    BY <1>1, <2>1 DEF Stays, Asked, Ground, RemovalInv
  <2>2. CASE ~flags["skipErrors"] /\ flags["deleteAll"]
    <3>1. always
      BY <2>2 DEF RemovalInv
    <3>2. QED
      BY <2>2, <3>1 DEF Stays, PutsOff, Ground
  <2>3. CASE ~flags["skipErrors"] /\ ~flags["deleteAll"]
    <3>1. CASE /\ flags' \in {flags} \cup {[flags EXCEPT ![f] = TRUE] : f \in {"aborted", "skipErrors"}}
               /\ UNCHANGED <<fallbacks, agreed, always>>
      BY <2>3, <3>1 DEF Ground, Flag
    <3>2. CASE \E all \in BOOLEAN : /\ PutsOff(p) /\ flags' = [flags EXCEPT !["deleteAll"] = all]
                                    /\ always' = all /\ Agrees({p})
      BY <3>2 DEF Ground, Flag, PutsOff, Agrees
    <3>3. QED
      BY <2>3, <3>1, <3>2 DEF Stays
  <2>4. QED
    BY <2>1, <2>2, <2>3
<1>5. fallbacks' \in Seq(Entry)
  <2>1. [src |-> p, over |-> FALSE] \in Entry
    BY <1>3 DEF Entry
  <2>2. CASE fallbacks' = Append(fallbacks, [src |-> p, over |-> FALSE])
    BY <1>2, <2>1, <2>2, AddedToList
  <2>3. QED
    BY <1>2, <1>4, <2>2
<1>6. FallbacksDoomed'
  <2>1. ASSUME NEW i \in DOMAIN fallbacks'
        PROVE  Contents(fallbacks'[i].src) \subseteq agreed'
    <3>1. CASE i \in DOMAIN fallbacks /\ fallbacks'[i] = fallbacks[i]
      BY <1>2, <1>4, <3>1 DEF FallbacksDoomed, Doomed
    <3>2. CASE fallbacks'[i] = [src |-> p, over |-> FALSE] /\ Contents(p) \subseteq agreed'
      BY <3>2
    <3>3. CASE fallbacks' = fallbacks
      BY <2>1, <3>1, <3>3
    <3>4. CASE fallbacks' = Append(fallbacks, [src |-> p, over |-> FALSE]) /\ Contents(p) \subseteq agreed'
      <4>1. [src |-> p, over |-> FALSE] \in Entry
        BY <1>3 DEF Entry
      <4>2. /\ DOMAIN fallbacks' = 1 .. Len(fallbacks) + 1 /\ DOMAIN fallbacks = 1 .. Len(fallbacks)
            /\ Len(fallbacks) \in Nat
            /\ fallbacks'[Len(fallbacks) + 1] = [src |-> p, over |-> FALSE]
            /\ \A k \in DOMAIN fallbacks : fallbacks'[k] = fallbacks[k]
        BY <1>2, <3>4, <4>1, AddedToList
      <4>3. i \in DOMAIN fallbacks \/ i = Len(fallbacks) + 1
        BY <4>2
      <4>4. QED
        BY <3>1, <3>2, <3>4, <4>2, <4>3
    <3>5. QED
      BY <1>4, <3>3, <3>4
  <2>2. QED
    BY <1>1, <2>1 DEF FallbacksDoomed, Doomed, Contents, Under
<1>7. QED
  BY <1>1, <1>3, <1>4, <1>5, <1>6, QuietRemoval DEF RemovalPhases

\* A file in the trash is all that was below it.
LEMMA GoesStep ==
  ASSUME ProperJobs, Ground, RemovalInv, Removes, Trash, UNCHANGED <<before, job>>,
         Head(todo).src \in DOMAIN disk, Goes(Head(todo).src)
  PROVE  RemovalGoal
<1> DEFINE p == Head(todo).src
<1>1. UNCHANGED <<before, job, stack, phase, fallbacks, flags, agreed, always>>
      /\ stack = << >> /\ phase = "trash"
  BY Zenon DEF Trash, Goes, Asked, RemovalInv, DeleteCalls
<1>2. todo \in Seq(Entry) /\ todo # << >> /\ fallbacks \in Seq(Entry) /\ FallbacksDoomed
  BY <1>1, Zenon DEF Trash, RemovalInv
<1>3. p \in PathsOnly /\ todo' \in Seq(Entry)
  <2>1. Head(todo) \in Entry /\ Tail(todo) \in Seq(Entry)
    BY <1>2, NextOfList
  <2>2. QED
    BY <2>1 DEF Entry, Trash
<1> HIDE DEF p
<1>4. p \in DOMAIN disk /\ disk' = Without(Under(p)) /\ trash' = trash \cup {Item(p)} /\ Tree(disk)
  BY DEF Goes, p, Ground
<1>5. p \in Paths /\ p # << >> /\ DOMAIN disk \subseteq Paths
  BY <1>3, <1>4 DEF PathsOnly, Tree
<1>6. /\ Tree(disk') /\ DOMAIN disk' = DOMAIN disk \ Under(p)
      /\ \A q \in DOMAIN disk \ Under(p) : disk'[q] = disk[q]
  <2>1. << >> \notin Under(p)
    BY <1>5, PrefixReflexive, PrefixAntisymmetric DEF Under
  <2>2. \A r \in Under(p) : Under(r) \subseteq Under(p)
    BY <1>5, PrefixTransitive DEF Under
  <2>3. Under(p) \in SUBSET DOMAIN disk
    BY DEF Under
  <2>4. QED
    BY <1>4, <2>1, <2>2, <2>3, Taking
<1>7. Ground'
  BY <1>1, <1>6 DEF Ground, Removes
<1>8. FallbacksDoomed'
  <2>1. ASSUME NEW i \in DOMAIN fallbacks
        PROVE  Doomed(fallbacks[i].src)'
    <3>1. PICK s : s = fallbacks[i].src
      OBVIOUS
    <3>2. Doomed(s)
      BY <1>2, <3>1 DEF FallbacksDoomed
    <3>3. Doomed(s)'
      BY <1>1, <1>6, <3>2, DoomedStays
    <3>4. QED
      BY <1>1, <3>1, <3>3 DEF Doomed, Contents, Under
  <2>2. QED
    BY <1>1, <2>1 DEF FallbacksDoomed
<1>9. DeleteCalls' /\ CallsDoomed'
  <2>1. DOMAIN stack' = {}
    BY <1>1
  <2>2. CallsDoomed'
    BY <2>1 DEF CallsDoomed
  <2>3. QED
    BY <1>1, <2>2 DEF RemovalInv, DeleteCalls
<1>10. RemovalInv'
  BY <1>1, <1>2, <1>3, <1>8, <1>9 DEF RemovalInv, RemovalPhases
<1>11. Kept \subseteq Kept'
  <2>1. ASSUME NEW q \in DOMAIN disk
        PROVE  disk[q] \in Kept'
    <3>1. CASE q \in Under(p)
      <4>1. Rest(p, q) \in Paths /\ p \o Rest(p, q) = q
        BY <1>5, <3>1, RestOfPath DEF Under
      <4>2. Rest(p, q) \in DOMAIN Item(p).tree /\ Item(p).tree[Rest(p, q)] = disk[q]
        BY <3>1, <4>1 DEF Item
      <4>3. disk[q] \in {Item(p).tree[r] : r \in DOMAIN Item(p).tree} /\ Item(p) \in trash'
        BY <1>4, <4>2
      <4>4. QED
        BY <4>3, Zenon DEF Kept, Trashed
    <3>2. CASE q \notin Under(p)
      BY <1>6, <2>1, <3>2 DEF Kept
    <3>3. QED
      BY <3>1, <3>2
  <2>2. QED
    BY <1>1, <1>4, <2>1, KeptStays
<1>12. QED
  BY <1>7, <1>10, <1>11 DEF RemovalGoal

-----------------------------------------------------------------------------
\* The calls that delete.

\* A step of the calls that deletes nothing.
LEMMA QuietCall ==
  ASSUME Ground, RemovalInv, Removes, phase = "delete",
         UNCHANGED <<before, job, disk, trash, phase, agreed, always, fallbacks>>,
         flags' \in [Flag -> BOOLEAN], flags'["deleteAll"] = flags["deleteAll"],
         todo' \in Seq(Entry), TodoDoomed', DeleteCalls', CallsDoomed'
  PROVE  RemovalGoal
<1>1. Ground'
  BY DEF Ground, Removes, Over
<1>2. RemovalInv'
  BY Zenon DEF RemovalInv, RemovalPhases
<1>3. Kept \subseteq Kept'
  BY DEF Kept, Trashed
<1>4. QED
  BY <1>1, <1>2, <1>3 DEF RemovalGoal

LEMMA NextFileToDeleteStep ==
  ASSUME Ground, RemovalInv, Removes, NextFileToDelete, UNCHANGED <<before, job>>
  PROVE  RemovalGoal
<1>1. /\ UNCHANGED <<before, job, disk, trash, phase, flags, agreed, always, fallbacks>>
      /\ phase = "delete" /\ todo # << >> /\ todo' = Tail(todo)
      /\ stack' = <<[kind |-> "file", src |-> Head(todo).src]>>
  BY DEF NextFileToDelete, Asked
<1>2. todo \in Seq(Entry) /\ TodoDoomed
  BY <1>1 DEF RemovalInv
<1>3. /\ Head(todo) \in Entry /\ Head(todo) = todo[1] /\ todo' \in Seq(Entry) /\ 1 \in DOMAIN todo
      /\ \A i \in DOMAIN todo' : i + 1 \in DOMAIN todo /\ todo'[i] = todo[i + 1]
  BY <1>1, <1>2, NextOfList
<1>4. TodoDoomed'
  BY <1>1, <1>2, <1>3 DEF TodoDoomed, Doomed, Contents, Under
<1>5. PICK c \in DeleteFrame : c = [kind |-> "file", src |-> Head(todo).src]
  BY <1>3 DEF DeleteFrame, Entry
<1>6. stack' = << c >>
  BY <1>1, <1>5
<1>7. DeleteCalls'
  <2>1. stack' \in Seq(DeleteFrame \cup FolderFrame) /\ Len(stack') = 1 /\ DOMAIN stack' = {1}
    BY <1>6
  <2>2. QED
    BY <1>1, <2>1 DEF DeleteCalls
<1>8. CallsDoomed'
  <2>1. DOMAIN stack' = {1} /\ stack'[1] = c /\ c.src = todo[1].src
    BY <1>3, <1>5, <1>6
  <2>2. Contents(todo[1].src) \subseteq agreed
    BY <1>2, <1>3 DEF TodoDoomed, Doomed
  <2>3. QED
    BY <1>1, <2>1, <2>2 DEF CallsDoomed, Doomed, Contents, Under
<1>9. QED
  BY <1>1, <1>3, <1>4, <1>7, <1>8, QuietCall DEF Ground

LEMMA ChildrenNamed ==
  ASSUME Tree(disk), NEW p \in Paths
  PROVE  Children(p) \subseteq Names
<1>1. ASSUME NEW q \in Under(p), Len(q) = Len(p) + 1
      PROVE  Last(q) \in Names
  <2>1. q \in Paths
    BY DEF Under, Tree
  <2>2. q # << >>
    BY <1>1, <2>1, EmptySeq, LenProperties DEF Paths
  <2>3. QED
    BY <2>1, <2>2, FrontOfPath
<1>2. QED
  BY <1>1 DEF Children

\* What is below a place is below what that is in.
LEMMA DoomedBelow ==
  ASSUME Tree(disk), NEW p \in Paths, NEW n \in Names, Doomed(p)
  PROVE  Doomed(Append(p, n))
<1>1. Append(p, n) \in Paths /\ IsPrefix(p, Append(p, n))
  BY AppendToPath
<1>2. Under(Append(p, n)) \subseteq Under(p)
  BY <1>1, PrefixTransitive DEF Under, Tree
<1>3. QED
  BY <1>2 DEF Doomed, Contents

LEMMA TopCall ==
  ASSUME Ground, RemovalInv, Removes, phase = "delete", stack # << >>
  PROVE  /\ stack \in Seq(DeleteFrame \cup FolderFrame)
         /\ \A i \in 1 .. Len(stack) - 1 : stack[i] \in FolderFrame
         /\ Len(stack) \in Nat \ {0} /\ DOMAIN stack = 1 .. Len(stack)
         /\ Top \in DeleteFrame \cup FolderFrame /\ Top.src \in PathsOnly
         /\ Top.kind = "folder" => Top \in FolderFrame
         /\ CallsDoomed /\ Doomed(Top.src) /\ TodoDoomed /\ Tree(disk)
<1>1. stack \in Seq(DeleteFrame \cup FolderFrame) /\ CallsDoomed /\ TodoDoomed /\ Tree(disk)
      /\ \A i \in DOMAIN stack : i < Len(stack) => stack[i] \in FolderFrame
  BY Zenon DEF RemovalInv, DeleteCalls, Ground
<1>2. /\ Len(stack) \in Nat \ {0} /\ DOMAIN stack = 1 .. Len(stack)
      /\ Len(stack) \in DOMAIN stack /\ Top = stack[Len(stack)] /\ Top \in DeleteFrame \cup FolderFrame
  BY <1>1, TopOfStack
<1>3. Top.src \in PathsOnly /\ (Top.kind = "folder" => Top \in FolderFrame)
  BY <1>2 DEF DeleteFrame, FolderFrame
<1>4. Doomed(Top.src)
  BY <1>1, <1>2 DEF CallsDoomed
<1>5. \A i \in 1 .. Len(stack) - 1 : stack[i] \in FolderFrame
  BY <1>1, <1>2
<1>6. QED
  BY <1>1, <1>2, <1>3, <1>4, <1>5

\* A call that returns.
LEMMA Returned ==
  ASSUME Ground, RemovalInv, Removes, phase = "delete", stack # << >>, phase' = phase,
         agreed' = agreed, DOMAIN disk' \subseteq DOMAIN disk, \A q \in DOMAIN disk' : disk'[q] = disk[q],
         NEW b \in BOOLEAN, Return(b)
  PROVE  DeleteCalls' /\ CallsDoomed'
<1>1. /\ stack \in Seq(DeleteFrame \cup FolderFrame)
      /\ \A i \in 1 .. Len(stack) - 1 : stack[i] \in FolderFrame
      /\ CallsDoomed
  BY TopCall
<1>2. /\ stack' \in Seq(DeleteFrame \cup FolderFrame)
      /\ Len(stack') = Len(stack) - 1 /\ Len(stack) \in Nat \ {0}
      /\ DOMAIN stack = 1 .. Len(stack) /\ DOMAIN stack' = 1 .. Len(stack) - 1
      /\ \A i \in 1 .. Len(stack) - 1 : stack'[i] \in FolderFrame /\ stack'[i].src = stack[i].src
  BY <1>1, Returning
<1>3. DeleteCalls'
  BY <1>2 DEF DeleteCalls
<1>4. ASSUME NEW i \in DOMAIN stack'
      PROVE  Doomed(stack[i].src)'
  <2>1. PICK s : s = stack[i].src /\ s = stack'[i].src
    BY <1>2
  <2>2. i \in DOMAIN stack
    BY <1>2
  <2>3. Doomed(s)
    BY <1>1, <2>1, <2>2 DEF CallsDoomed
  <2>4. Doomed(s)'
    BY <2>3, DoomedStays
  <2>5. QED
    BY <2>1, <2>4 DEF Doomed, Contents, Under
<1>5. QED
  BY <1>3, <1>4 DEF CallsDoomed

\* A call that deletes the file, or the empty folder, it was made for.
LEMMA DeletingStep ==
  ASSUME Ground, RemovalInv, Removes, phase = "delete", stack # << >>,
         Under(Top.src) = {Top.src}, Deletes(Top.src), Return(FALSE),
         UNCHANGED <<before, job, trash, phase, todo, fallbacks, skip>>
  PROVE  RemovalGoal
<1>1. PICK p : p = Top.src
  OBVIOUS
<1>2. p \in PathsOnly /\ Doomed(p) /\ TodoDoomed /\ Tree(disk)
  BY <1>1, TopCall
<1>3. Under(p) = {p} /\ disk' = Without({p}) /\ UNCHANGED <<flags, agreed, always>>
  BY <1>1 DEF Deletes, Asked
<1>4. p \in Paths /\ p # << >> /\ p \in DOMAIN disk
  BY <1>2, <1>3 DEF PathsOnly, Under
<1>5. /\ Tree(disk') /\ DOMAIN disk' = DOMAIN disk \ {p}
      /\ \A q \in DOMAIN disk \ {p} : disk'[q] = disk[q]
  <2>1. {p} \in SUBSET DOMAIN disk /\ << >> \notin {p} /\ \A r \in {p} : Under(r) \subseteq {p}
    BY <1>3, <1>4
  <2>2. QED
    BY <1>2, <1>3, <2>1, Taking
<1>6. Ground'
  BY <1>3, <1>5 DEF Ground, Removes, Over
<1>7. DeleteCalls' /\ CallsDoomed'
  BY <1>3, <1>5, Returned
<1>8. TodoDoomed'
  <2>1. ASSUME NEW i \in DOMAIN todo
        PROVE  Doomed(todo[i].src)'
    <3>1. PICK s : s = todo[i].src
      OBVIOUS
    <3>2. Doomed(s)
      BY <1>2, <3>1 DEF TodoDoomed
    <3>3. Doomed(s)'
      BY <1>3, <1>5, <3>2, DoomedStays
    <3>4. QED
      BY <3>1, <3>3 DEF Doomed, Contents, Under
  <2>2. QED
    BY <2>1 DEF TodoDoomed
<1>9. RemovalInv'
  <2>1. phase' = "delete" /\ flags' = flags /\ always' = always
    BY <1>3
  <2>2. QED
    BY <1>7, <1>8, <2>1, Zenon DEF RemovalInv, RemovalPhases
<1>10. Kept \subseteq Kept'
  <2>1. ASSUME NEW q \in DOMAIN disk
        PROVE  disk[q] \in Kept'
    <3>1. CASE q = p
      <4>1. disk[p] \in {Folder} \cup agreed
        BY <1>2, <1>3 DEF Doomed, Contents
      <4>2. QED
        BY <1>3, <3>1, <4>1 DEF Kept
    <3>2. CASE q # p
      BY <1>5, <2>1, <3>2 DEF Kept
    <3>3. QED
      BY <3>1, <3>2
  <2>2. QED
    BY <1>3, <2>1, KeptStays
<1>11. QED
  BY <1>6, <1>9, <1>10 DEF RemovalGoal

\* A call that returns, having deleted nothing.
LEMMA QuietReturn ==
  ASSUME Ground, RemovalInv, Removes, phase = "delete", stack # << >>,
         NEW b \in BOOLEAN, Return(b),
         UNCHANGED <<before, job, disk, trash, phase, todo, fallbacks, agreed, always>>,
         flags' \in [Flag -> BOOLEAN], flags'["deleteAll"] = flags["deleteAll"]
  PROVE  RemovalGoal
<1>1. DeleteCalls' /\ CallsDoomed'
  BY Returned
<1>2. TodoDoomed'
  BY DEF RemovalInv, TodoDoomed, Doomed, Contents, Under
<1>3. todo' \in Seq(Entry)
  BY Zenon DEF RemovalInv
<1>4. QED
  BY <1>1, <1>2, <1>3, QuietCall

LEMMA EntersStep ==
  ASSUME Ground, RemovalInv, Removes, phase = "delete", stack # << >>,
         Enters(Top.src), UNCHANGED <<before, job, disk, trash, phase, todo, fallbacks>>
  PROVE  RemovalGoal
<1>1. /\ stack \in Seq(DeleteFrame \cup FolderFrame)
      /\ \A i \in 1 .. Len(stack) - 1 : stack[i] \in FolderFrame
      /\ Top.src \in PathsOnly /\ CallsDoomed /\ Doomed(Top.src) /\ TodoDoomed /\ Tree(disk)
  BY TopCall
<1>2. Children(Top.src) \subseteq Names
  BY <1>1, ChildrenNamed DEF PathsOnly
<1>3. PICK c \in FolderFrame : c.src = Top.src /\ Continue(c)
  <2>1. /\ FolderCall(Top.src, Top.src, Children(Top.src), FALSE) \in FolderFrame
        /\ FolderCall(Top.src, Top.src, {}, TRUE) \in FolderFrame
    BY <1>1, <1>2 DEF FolderCall, FolderFrame
  <2>2. /\ FolderCall(Top.src, Top.src, Children(Top.src), FALSE).src = Top.src
        /\ FolderCall(Top.src, Top.src, {}, TRUE).src = Top.src
    BY DEF FolderCall
  <2>3. \/ Continue(FolderCall(Top.src, Top.src, Children(Top.src), FALSE))
        \/ Continue(FolderCall(Top.src, Top.src, {}, TRUE))
    BY DEF Enters, Continue
  <2>4. QED
    BY <2>1, <2>2, <2>3
<1>4. /\ stack' \in Seq(DeleteFrame \cup FolderFrame) /\ Len(stack') = Len(stack) /\ Len(stack) \in Nat \ {0}
      /\ DOMAIN stack = 1 .. Len(stack) /\ DOMAIN stack' = 1 .. Len(stack)
      /\ stack'[Len(stack)] = c
      /\ \A i \in 1 .. Len(stack) - 1 : stack'[i] = stack[i]
  <2>1. c \in DeleteFrame \cup FolderFrame
    OBVIOUS
  <2>2. QED
    BY <1>1, <1>3, <2>1, Continuing
<1>5. DeleteCalls'
  BY <1>1, <1>3, <1>4 DEF DeleteCalls
<1>6. /\ flags' \in [Flag -> BOOLEAN] /\ flags'["deleteAll"] = flags["deleteAll"]
      /\ agreed' = agreed /\ always' = always
  <2>1. flags \in [Flag -> BOOLEAN]
    BY DEF Ground
  <2>2. CASE UNCHANGED Asked
    BY <2>1, <2>2 DEF Asked
  <2>3. CASE WarnOnce
    BY <2>1, <2>3, Warned
  <2>4. QED
    BY <2>2, <2>3 DEF Enters
<1>7. CallsDoomed'
  <2>1. ASSUME NEW i \in DOMAIN stack'
        PROVE  Contents(stack'[i].src) \subseteq agreed
    <3>1. CASE i = Len(stack)
      BY <1>1, <1>3, <1>4, <3>1 DEF Doomed
    <3>2. CASE i \in 1 .. Len(stack) - 1
      BY <1>1, <1>4, <3>2 DEF CallsDoomed, Doomed
    <3>3. i = Len(stack) \/ i \in 1 .. Len(stack) - 1
      BY <1>4
    <3>4. QED
      BY <3>1, <3>2, <3>3
  <2>2. QED
    BY <1>6, <2>1 DEF CallsDoomed, Doomed, Contents, Under
<1>8. TodoDoomed'
  BY <1>1, <1>6 DEF TodoDoomed, Doomed, Contents, Under
<1>9. todo' \in Seq(Entry)
  BY Zenon DEF RemovalInv
<1>10. QED
  BY <1>5, <1>6, <1>7, <1>8, <1>9, QuietCall

LEMMA NextInFolderStep ==
  ASSUME Ground, RemovalInv, Removes, phase = "delete", stack # << >>,
         NextInFolder, UNCHANGED <<before, job, trash, phase, todo, fallbacks>>
  PROVE  RemovalGoal
<1>1. /\ stack \in Seq(DeleteFrame \cup FolderFrame)
      /\ \A i \in 1 .. Len(stack) - 1 : stack[i] \in FolderFrame
      /\ Top.src \in PathsOnly /\ CallsDoomed /\ Doomed(Top.src) /\ TodoDoomed /\ Tree(disk)
      /\ Top \in FolderFrame
  BY TopCall DEF NextInFolder
<1>2. UNCHANGED <<disk, flags, agreed, always>>
  BY DEF NextInFolder, Asked
<1>3. PICK n \in Top.left : stack' = Append(Front(stack), [Top EXCEPT !.left = @ \ {n}])
                                     \o <<[kind |-> "file", src |-> Append(Top.src, n)]>>
  BY DEF NextInFolder
<1>4. PICK f : f = [Top EXCEPT !.left = @ \ {n}]
  OBVIOUS
<1>5. f \in FolderFrame /\ f.src = Top.src /\ n \in Names
  BY <1>1, <1>4 DEF FolderFrame
<1>6. Append(Top.src, n) \in PathsOnly /\ Doomed(Append(Top.src, n))
  BY <1>1, <1>5, AppendToPath, DoomedBelow DEF PathsOnly
<1>7. PICK c \in DeleteFrame : c = [kind |-> "file", src |-> Append(Top.src, n)]
  BY <1>6 DEF DeleteFrame
<1>8. /\ stack' \in Seq(DeleteFrame \cup FolderFrame) /\ Len(stack') = Len(stack) + 1 /\ Len(stack) \in Nat \ {0}
      /\ DOMAIN stack = 1 .. Len(stack) /\ DOMAIN stack' = 1 .. Len(stack) + 1
      /\ stack'[Len(stack) + 1] = c /\ stack'[Len(stack)] = f
      /\ \A i \in 1 .. Len(stack) - 1 : stack'[i] = stack[i]
  <2>1. stack' = Append(Front(stack), f) \o << c >>
    BY <1>3, <1>4, <1>7
  <2>2. f \in DeleteFrame \cup FolderFrame /\ c \in DeleteFrame \cup FolderFrame
    BY <1>5, <1>7
  <2>3. QED
    BY <1>1, <2>1, <2>2, Pushing
<1>9. DeleteCalls'
  BY <1>1, <1>5, <1>8 DEF DeleteCalls
<1>10. CallsDoomed'
  <2>1. ASSUME NEW i \in DOMAIN stack'
        PROVE  Contents(stack'[i].src) \subseteq agreed
    <3>1. CASE i = Len(stack)
      BY <1>1, <1>5, <1>8, <3>1 DEF Doomed
    <3>2. CASE i \in 1 .. Len(stack) - 1
      BY <1>1, <1>8, <3>2 DEF CallsDoomed, Doomed
    <3>3. CASE i = Len(stack) + 1
      <4>1. stack'[i].src = Append(Top.src, n)
        BY <1>7, <1>8, <3>3
      <4>2. QED
        BY <1>6, <4>1 DEF Doomed
    <3>4. i = Len(stack) \/ i \in 1 .. Len(stack) - 1 \/ i = Len(stack) + 1
      BY <1>8
    <3>5. QED
      BY <3>1, <3>2, <3>3, <3>4
  <2>2. QED
    BY <1>2, <2>1 DEF CallsDoomed, Doomed, Contents, Under
<1>11. TodoDoomed'
  BY <1>1, <1>2 DEF TodoDoomed, Doomed, Contents, Under
<1>12. todo' \in Seq(Entry) /\ flags' \in [Flag -> BOOLEAN]
  BY <1>2, Zenon DEF RemovalInv, Ground
<1>13. QED
  BY <1>2, <1>9, <1>10, <1>11, <1>12, QuietCall

LEMMA DeleteFileStep ==
  ASSUME Ground, RemovalInv, Removes, phase = "delete", stack # << >>,
         DeleteFile, UNCHANGED <<before, job, trash, phase, todo, fallbacks, skip>>
  PROVE  RemovalGoal
<1>1. flags \in [Flag -> BOOLEAN]
  BY DEF Ground
<1>2. CASE Return(TRUE) /\ UNCHANGED <<disk, Asked, Told>>
  BY <1>1, <1>2, QuietReturn DEF Asked
<1>3. CASE Under(Top.src) = {Top.src} /\ Deletes(Top.src) /\ Return(FALSE)
  BY <1>3, DeletingStep
<1>4. CASE Enters(Top.src) /\ UNCHANGED <<disk, Told>>
  BY <1>4, EntersStep
<1>5. CASE Return(TRUE) /\ Warn /\ UNCHANGED <<disk, Told>>
  <2>1. /\ flags' \in [Flag -> BOOLEAN] /\ flags'["deleteAll"] = flags["deleteAll"]
        /\ agreed' = agreed /\ always' = always
    BY <1>1, <1>5, Warned
  <2>2. QED
    BY <1>5, <2>1, QuietReturn
<1>6. QED
  BY <1>2, <1>3, <1>4, <1>5 DEF DeleteFile

LEMMA LeaveFolderStep ==
  ASSUME Ground, RemovalInv, Removes, phase = "delete", stack # << >>,
         LeaveFolder, UNCHANGED <<before, job, trash, phase, todo, fallbacks, skip>>
  PROVE  RemovalGoal
<1>1. flags \in [Flag -> BOOLEAN] /\ Top.skipped \in BOOLEAN
  <2>1. Top \in FolderFrame
    BY TopCall DEF LeaveFolder
  <2>2. QED
    BY <2>1 DEF Ground, FolderFrame
<1>2. CASE Return(Top.skipped) /\ UNCHANGED <<disk, Asked, Told>>
  BY <1>1, <1>2, QuietReturn DEF Asked
<1>3. CASE Under(Top.src) = {Top.src} /\ Deletes(Top.src) /\ Return(FALSE)
  BY <1>3, DeletingStep
<1>4. CASE Warn /\ Return(~flags["skipErrors"] /\ ~flags'["aborted"]) /\ UNCHANGED <<disk, Told>>
  <2>1. /\ flags' \in [Flag -> BOOLEAN] /\ flags'["deleteAll"] = flags["deleteAll"]
        /\ agreed' = agreed /\ always' = always
    BY <1>1, <1>4, Warned
  <2>2. PICK b \in BOOLEAN : b = (~flags["skipErrors"] /\ ~flags'["aborted"])
    OBVIOUS
  <2>3. QED
    BY <1>4, <2>1, <2>2, QuietReturn
<1>5. QED
  BY <1>2, <1>3, <1>4 DEF LeaveFolder

\* A job that deletes, or trashes, takes nothing away that is not kept in the trash
\* and was not agreed to.
LEMMA RemovalStep ==
  ASSUME ProperJobs, Ground, RemovalInv, Removal
  PROVE  RemovalGoal /\ UNCHANGED <<before, job, undoing>>
<1>1. Removes /\ UNCHANGED <<before, job, mends, undoing>>
  BY DEF Removal
<1>2. CASE Confirm
  BY <1>1, <1>2, ConfirmStep
<1>3. CASE ConfirmTrash
  BY <1>1, <1>3, ConfirmTrashStep
<1>4. CASE Trash
  <2>1. CASE Head(todo).src \in DOMAIN disk /\ Goes(Head(todo).src)
    BY <1>1, <1>4, <2>1, GoesStep
  <2>2. CASE Stays(Head(todo).src)
    BY <1>1, <1>4, <2>2, StaysStep
  <2>3. QED
    BY <1>1, <1>4, <2>1, <2>2 DEF Trash
<1>5. CASE TrashDone
  BY <1>1, <1>5, TrashDoneStep
<1>6. CASE ScanFiles
  BY <1>1, <1>6, ScanFilesStep
<1>7. CASE NextFileToDelete
  BY <1>1, <1>7, NextFileToDeleteStep
<1>8. CASE DeleteDone
  BY <1>1, <1>8, DeleteDoneStep
<1>9. CASE Delete
  <2>1. phase = "delete" /\ stack # << >> /\ UNCHANGED <<before, job, trash, phase, todo, fallbacks, skip>>
    BY <1>1, <1>9 DEF Delete
  <2>2. QED
    BY <1>1, <1>9, <2>1, DeleteFileStep, NextInFolderStep, LeaveFolderStep DEF Delete
<1>10. QED
  BY <1>1, <1>2, <1>3, <1>4, <1>5, <1>6, <1>7, <1>8, <1>9 DEF Removal

-----------------------------------------------------------------------------
\* What is made.

\* What the steps of a job that makes something keep.
CreationGoal == Ground' /\ CreationInv' /\ Kept \subseteq Kept'

LEMMA NumberedName ==
  ASSUME ProperJobs, Ground, NEW src \in PathsOnly, NEW n \in Nat, NEW mended \in BOOLEAN,
         Links \/ Creates
  PROVE  /\ Numbered(src, n, mended) \in PathsOnly
         /\ Front(Numbered(src, n, mended)) = job.destination
<1>1. job.destination \in Paths
  BY DEF ProperJobs, Ground, Links, Creates
<1>2. Last(src) \in Names /\ Mended \in Names
  BY FrontOfPath DEF PathsOnly, ProperJobs
<1>3. PICK name \in Names : name = IF mended /\ Last(src) \in Unwritable THEN Mended ELSE Last(src)
  BY <1>2
<1>4. <<name[1], name[2] + n>> \in Names
  BY DEF Names
<1>5. Numbered(src, n, mended) = Append(job.destination, <<name[1], name[2] + n>>)
  BY <1>3 DEF Numbered
<1>6. QED
  BY <1>1, <1>4, <1>5, AppendToPath DEF PathsOnly

\* A step that makes nothing.
LEMMA QuietCreation ==
  ASSUME Ground, CreationInv, Links \/ Creates, UNCHANGED <<before, job, disk, trash, agreed>>,
         flags' \in [Flag -> BOOLEAN], todo' \in Seq(Entry),
         phase' # "verify", phase' \in Over => stack' = << >>,
         stack' \in Seq(NewFrame) /\ Len(stack') <= 1,
         \A i \in DOMAIN stack' : Front(stack'[i].dest) = job.destination
  PROVE  CreationGoal
<1>1. Ground'
  BY DEF Ground, Removes, Links, Creates, Over, Tree
<1>2. CreationInv'
  BY DEF CreationInv
<1>3. Kept \subseteq Kept'
  BY DEF Kept, Trashed
<1>4. QED
  BY <1>1, <1>2, <1>3 DEF CreationGoal

LEMMA VerifyStep ==
  ASSUME Ground, CreationInv, Links \/ Creates, Verify, UNCHANGED <<before, job, trash>>
  PROVE  CreationGoal
<1>1. UNCHANGED <<before, job, disk, trash, agreed, todo, stack>> /\ stack = << >>
  BY Zenon DEF Verify, CreationInv, Told
<1>2. flags' \in [Flag -> BOOLEAN]
  BY DEF Verify, Ground, Flag
<1>3. phase' # "verify" /\ todo' \in Seq(Entry)
  BY <1>1, Zenon DEF Verify, CreationInv
<1>4. stack' \in Seq(NewFrame) /\ Len(stack') <= 1 /\ DOMAIN stack' = {}
  BY <1>1, EmptySeq
<1>5. QED
  BY <1>1, <1>2, <1>3, <1>4, QuietCreation

LEMMA MakeDoneStep ==
  ASSUME Ground, CreationInv, Links \/ Creates, MakeDone, UNCHANGED <<before, job, trash>>
  PROVE  CreationGoal
<1>1. UNCHANGED <<before, job, disk, trash, agreed, flags, todo, stack>> /\ stack = << >>
  BY Zenon DEF MakeDone, Asked
<1>2. flags' \in [Flag -> BOOLEAN] /\ phase' # "verify" /\ todo' \in Seq(Entry)
  BY <1>1, Zenon DEF MakeDone, Ground, CreationInv
<1>3. stack' \in Seq(NewFrame) /\ Len(stack') <= 1 /\ DOMAIN stack' = {}
  BY <1>1, EmptySeq
<1>4. QED
  BY <1>1, <1>2, <1>3, QuietCreation

\* A step that only changes the one call there is.
LEMMA OneCall ==
  ASSUME Ground, CreationInv, Links \/ Creates, phase = "make", phase' = phase,
         UNCHANGED <<before, job, disk, trash, agreed>>,
         flags' \in [Flag -> BOOLEAN], todo' \in Seq(Entry),
         stack' = << >> \/ \E c \in NewFrame : Front(c.dest) = job.destination /\ stack' = << c >>
  PROVE  CreationGoal
<1>1. stack' \in Seq(NewFrame) /\ Len(stack') <= 1
      /\ \A i \in DOMAIN stack' : Front(stack'[i].dest) = job.destination
  <2>1. CASE stack' = << >>
    <3>1. DOMAIN stack' = {}
      BY <2>1
    <3>2. QED
      BY <2>1, <3>1, EmptySeq
  <2>2. CASE \E c \in NewFrame : Front(c.dest) = job.destination /\ stack' = << c >>
    <3>1. PICK c \in NewFrame : Front(c.dest) = job.destination /\ stack' = << c >>
      BY <2>2
    <3>2. DOMAIN stack' = {1} /\ stack'[1] = c /\ Len(stack') = 1 /\ stack' \in Seq(NewFrame)
      BY <3>1
    <3>3. QED
      BY <3>1, <3>2
  <2>3. QED
    BY <2>1, <2>2
<1>2. phase' # "verify" /\ phase' \notin Over
  BY DEF Over
<1>3. QED
  BY <1>1, <1>2, QuietCreation

LEMMA NextToMakeStep ==
  ASSUME ProperJobs, Ground, CreationInv, Links \/ Creates, NextToMake, mends \in BOOLEAN,
         UNCHANGED <<before, job, trash>>
  PROVE  CreationGoal
<1>1. UNCHANGED <<before, job, disk, trash, agreed, flags, phase>> /\ phase = "make"
      /\ todo # << >> /\ todo' = Tail(todo)
  BY DEF NextToMake, Asked
<1>2. Head(todo) \in Entry /\ Tail(todo) \in Seq(Entry)
  BY <1>1, NextOfList DEF CreationInv
<1>3. PICK src \in PathsOnly : src = Head(todo).src
  BY <1>2 DEF Entry
<1>4. PICK nr \in Nat : stack' = <<[kind |-> "new", src |-> src, nr |-> nr, mended |-> mends,
                                   dest |-> Numbered(src, nr, mends)]>>
  BY <1>3 DEF NextToMake
<1>5. /\ Numbered(src, nr, mends) \in PathsOnly
      /\ Front(Numbered(src, nr, mends)) = job.destination
  BY NumberedName
<1>6. PICK c : c = [kind |-> "new", src |-> src, nr |-> nr, mended |-> mends,
                    dest |-> Numbered(src, nr, mends)]
  OBVIOUS
<1>7. c \in NewFrame /\ Front(c.dest) = job.destination /\ stack' = << c >>
  BY <1>4, <1>5, <1>6 DEF NewFrame
<1>8. flags' \in [Flag -> BOOLEAN] /\ todo' \in Seq(Entry)
  BY <1>1, <1>2 DEF Ground
<1>9. QED
  BY <1>1, <1>7, <1>8, OneCall

LEMMA OnlyCall ==
  ASSUME CreationInv, Links \/ Creates, stack # << >>
  PROVE  /\ Top \in NewFrame /\ Front(Top.dest) = job.destination
         /\ Front(stack) = << >>
         /\ \A b : Return(b) => stack' = << >>
         /\ \A c : Continue(c) => stack' = << c >>
<1>1. stack \in Seq(NewFrame) /\ Len(stack) <= 1 /\ \A i \in DOMAIN stack : Front(stack[i].dest) = job.destination
  BY DEF CreationInv
<1>2. /\ Len(stack) \in Nat \ {0} /\ Len(stack) \in DOMAIN stack /\ Top = stack[Len(stack)] /\ Top \in NewFrame
  BY <1>1, TopOfStack
<1>3. Front(stack) \in Seq(NewFrame) /\ Len(Front(stack)) = Len(stack) - 1
  BY <1>1, FrontOfSeq
<1>4. Front(stack) = << >>
  BY <1>1, <1>2, <1>3, EmptySeq
<1>5. \A c : Append(<< >>, c) = << c >>
  OBVIOUS
<1>6. QED
  BY <1>1, <1>2, <1>4, <1>5 DEF Return, Continue

LEMMA MakeStep ==
  ASSUME ProperJobs, Ground, CreationInv, Links \/ Creates, Make, UNCHANGED <<before, job, trash>>
  PROVE  CreationGoal
<1>1. phase = "make" /\ stack # << >> /\ UNCHANGED <<before, job, trash, phase, todo>>
  BY DEF Make
<1>2. /\ Top \in NewFrame /\ Front(Top.dest) = job.destination
      /\ \A b : Return(b) => stack' = << >>
      /\ \A c : Continue(c) => stack' = << c >>
  BY <1>1, OnlyCall
<1>3. todo' \in Seq(Entry) /\ flags \in [Flag -> BOOLEAN]
  BY <1>1, Zenon DEF CreationInv, Ground
<1>4. PICK c \in NewFrame : c = Top
  BY <1>2
<1>5. CASE /\ Refusal(c.src, c.dest) = "none"
           /\ disk' = [q \in DOMAIN disk \cup {c.dest} |-> IF q = c.dest THEN Made(c.src) ELSE disk[q]]
           /\ Return(FALSE) /\ UNCHANGED Asked
  <2>1. c.dest \in PathsOnly /\ c.dest \notin DOMAIN disk
    BY <1>5 DEF NewFrame, Refusal
  <2>2. Tree(disk) /\ job.destination \in DOMAIN disk /\ disk[job.destination] = Folder
    BY DEF Ground, Removes, Links, Creates
  <2>3. /\ Tree(disk') /\ DOMAIN disk' = DOMAIN disk \cup {c.dest}
        /\ \A q \in DOMAIN disk \ {c.dest} : disk'[q] = disk[q]
    <3>1. Front(c.dest) \in DOMAIN disk /\ disk[Front(c.dest)] = Folder
      BY <1>2, <1>4, <2>2
    <3>2. QED
      BY <1>5, <2>1, <2>2, <3>1, Putting
  <2>4. stack' = << >> /\ DOMAIN stack' = {} /\ flags' = flags /\ agreed' = agreed
    <3>1. stack' = << >>
      BY <1>2, <1>5
    <3>2. UNCHANGED Asked
      BY <1>5
    <3>3. QED
      BY <3>1, <3>2 DEF Asked
  <2>5. Ground'
    BY <1>1, <2>1, <2>2, <2>3, <2>4 DEF Ground, Removes, Links, Creates
  <2>6. CreationInv'
    BY <1>1, <1>3, <2>4, EmptySeq DEF CreationInv
  <2>7. Kept \subseteq Kept'
    <3>1. \A q \in DOMAIN disk : disk[q] \in Kept'
      BY <2>1, <2>3 DEF Kept
    <3>2. QED
      BY <1>1, <2>4, <3>1, KeptStays
  <2>8. QED
    BY <2>5, <2>6, <2>7 DEF CreationGoal
<1>6. CASE /\ \/ TakesNumber(c)
              \/ TakesValidName(c)
              \/ Return(TRUE) /\ UNCHANGED <<mends, Asked>>
              \/ Return(TRUE) /\ Warn
              \/ Return(TRUE) /\ WarnOnce
           /\ UNCHANGED <<disk, Told>>
  <2>1. CASE Return(TRUE) /\ (UNCHANGED Asked \/ Warn \/ WarnOnce)
    <3>1. flags' \in [Flag -> BOOLEAN] /\ agreed' = agreed
      <4>1. CASE UNCHANGED Asked
        BY <1>3, <4>1 DEF Asked
      <4>2. CASE Warn \/ WarnOnce
        BY <1>3, <4>2, Warned
      <4>3. QED
        BY <2>1, <4>1, <4>2
    <3>2. stack' = << >>
      BY <1>2, <2>1
    <3>3. QED
      BY <1>1, <1>3, <1>6, <3>1, <3>2, OneCall
  <2>2. ASSUME NEW n \in Nat, NEW m \in BOOLEAN, NEW nr \in Nat,
               Continue([c EXCEPT !.dest = Numbered(c.src, n, m), !.nr = nr])
               \/ Continue([c EXCEPT !.dest = Numbered(c.src, n, m), !.mended = m]),
               UNCHANGED Asked
        PROVE  CreationGoal
    <3>1. /\ Numbered(c.src, n, m) \in PathsOnly
          /\ Front(Numbered(c.src, n, m)) = job.destination
      BY NumberedName DEF NewFrame
    <3>2. /\ [c EXCEPT !.dest = Numbered(c.src, n, m), !.nr = nr] \in NewFrame
          /\ [c EXCEPT !.dest = Numbered(c.src, n, m), !.mended = m] \in NewFrame
          /\ [c EXCEPT !.dest = Numbered(c.src, n, m), !.nr = nr].dest = Numbered(c.src, n, m)
          /\ [c EXCEPT !.dest = Numbered(c.src, n, m), !.mended = m].dest = Numbered(c.src, n, m)
      BY <3>1 DEF NewFrame
    <3>3. PICK d \in NewFrame : d.dest = Numbered(c.src, n, m) /\ stack' = << d >>
      BY <1>2, <2>2, <3>2
    <3>4. flags' \in [Flag -> BOOLEAN] /\ agreed' = agreed
      BY <1>3, <2>2 DEF Asked
    <3>5. QED
      BY <1>1, <1>3, <1>6, <3>1, <3>3, <3>4, OneCall
  <2>3. CASE TakesNumber(c)
    <3>1. PICK n \in Nat : Continue([c EXCEPT !.dest = Numbered(c.src, n, c.mended), !.nr = c.nr + 1])
                           /\ UNCHANGED Asked
      <4>1. c.nr \in Nat /\ c.nr + 1 \in Nat
        BY DEF NewFrame
      <4>2. QED
        BY <2>3, <4>1 DEF TakesNumber
    <3>2. c.mended \in BOOLEAN /\ c.nr + 1 \in Nat
      BY DEF NewFrame
    <3>3. QED
      BY <2>2, <3>1, <3>2
  <2>4. CASE TakesValidName(c)
    <3>1. CASE Return(TRUE) /\ (UNCHANGED Asked \/ Warn)
      BY <2>1, <3>1
    <3>2. CASE \E n \in Nat : Continue([c EXCEPT !.dest = Numbered(c.src, n, TRUE), !.mended = TRUE])
                              /\ UNCHANGED Asked
      <4>1. PICK n \in Nat : Continue([c EXCEPT !.dest = Numbered(c.src, n, TRUE), !.mended = TRUE])
                             /\ UNCHANGED Asked
        BY <3>2
      <4>2. QED
        BY <2>2, <4>1
    <3>3. c.nr \in Nat /\ c.nr + 1 \in Nat
      BY DEF NewFrame
    <3>4. QED
      BY <2>4, <3>1, <3>2, <3>3 DEF TakesValidName
  <2>5. QED
    BY <1>6, <2>1, <2>3, <2>4
<1>7. QED
  BY <1>1, <1>4, <1>5, <1>6 DEF Make

LEMMA CreationStep ==
  ASSUME ProperJobs, Ground, CreationInv, Creation, mends \in BOOLEAN
  PROVE  CreationGoal /\ UNCHANGED <<before, job, undoing>> /\ mends' \in BOOLEAN
<1>1. (Links \/ Creates) /\ UNCHANGED <<before, trash, job, fallbacks, skip, undoing>>
  BY DEF Creation
<1>2. CreationGoal
  BY <1>1, VerifyStep, NextToMakeStep, MakeDoneStep, MakeStep DEF Creation
<1>3. mends' \in BOOLEAN
  BY DEF Creation, Verify, NextToMake, MakeDone, Make, TakesNumber, TakesValidName, Links
<1>4. QED
  BY <1>1, <1>2, <1>3

-----------------------------------------------------------------------------
\* What is copied or moved, and where it goes.


\* The invariant while a job copies or moves, and what its steps keep.
Steady ==
    /\ Ground /\ Calls /\ Aimed /\ Waiting /\ AgreedTo /\ phase \in TransferPhases
    /\ mends \in BOOLEAN /\ ViewInv
TransferGoal == Steady' /\ Kept \subseteq Kept'

\* What leads to something below a place leads to that place or is below it too.
LEMMA BelowOrAbove ==
  ASSUME NEW d \in Paths, NEW n \in Names, NEW p \in Paths, NEW q \in Paths,
         IsPrefix(Append(d, n), q), IsPrefix(p, q)
  PROVE  IsPrefix(Append(d, n), p) \/ IsPrefix(p, d)
<1>1. PICK a : a = Append(d, n)
  OBVIOUS
<1>2. a \in Paths \ {<< >>} /\ Front(a) = d
  BY <1>1, AppendToPath
<1>3. IsPrefix(a, p) \/ IsPrefix(p, a)
  BY <1>1, <1>2, PrefixesCompare
<1>4. IsPrefix(p, a) => p = a \/ IsPrefix(p, d)
  BY <1>2, FrontOfPath
<1>5. QED
  BY <1>1, <1>2, <1>3, <1>4, PrefixReflexive

LEMMA Siblings ==
  ASSUME NEW a \in PathsOnly, NEW b \in PathsOnly, Front(a) = Front(b), NEW q \in Paths,
         IsPrefix(a, q), IsPrefix(b, q)
  PROVE  a = b
<1>1. a \in Paths \ {<< >>} /\ b \in Paths \ {<< >>}
  BY DEF PathsOnly
<1>2. IsPrefix(a, b) \/ IsPrefix(b, a)
  BY <1>1, PrefixesCompare
<1>3. /\ IsPrefix(a, b) <=> a = b \/ IsPrefix(a, Front(b))
      /\ IsPrefix(b, a) <=> b = a \/ IsPrefix(b, Front(a))
      /\ ~IsPrefix(a, Front(a)) /\ ~IsPrefix(b, Front(b))
  BY <1>1, FrontOfPath
<1>4. QED
  BY <1>2, <1>3

LEMMA JobFacts ==
  ASSUME Hypotheses, Ground, Transfers
  PROVE  /\ ~Removes /\ job.destination \in Paths /\ job.destination \in DOMAIN disk
         /\ disk[job.destination] = Folder
         /\ Tree(disk) /\ DOMAIN disk \subseteq Paths /\ Tree(before)
         /\ Mended \in Names /\ Mended \notin Unwritable
         /\ \A k \in DOMAIN job.files :
               /\ job.files[k] \in PathsOnly /\ job.files[k] \in Paths /\ job.files[k] # << >>
               /\ Last(job.files[k]) \in TargetNames(job) /\ Final(job.files[k]) \in TargetNames(job)
         /\ TargetNames(job) \subseteq Names /\ NewNames \subseteq TargetNames(job)
         /\ Mended \in TargetNames(job)
<1>1. ProperJobs /\ WritableTargets
  BY DEF Hypotheses
<1>2. ~Removes
  BY DEF Transfers, Copies, Moves, Removes
<1>3. /\ job.destination \in Paths /\ job.files \in Seq(Paths \ {<< >>})
      /\ job.destination \in DOMAIN disk /\ disk[job.destination] = Folder
  BY <1>1, <1>2 DEF ProperJobs, Ground, Removes
<1>4. Tree(disk) /\ DOMAIN disk \subseteq Paths /\ Tree(before)
  BY <1>1 DEF ProperJobs, Ground, Tree
<1>5. Mended \in Names /\ Mended \notin Unwritable /\ NewNames \subseteq Names
  BY <1>1 DEF ProperJobs, WritableTargets
<1>6. \A k \in DOMAIN job.files : job.files[k] \in PathsOnly
  BY <1>3 DEF PathsOnly
<1>7. \A k \in DOMAIN job.files :
         /\ job.files[k] \in Paths /\ job.files[k] # << >> /\ Last(job.files[k]) \in Names
         /\ Last(job.files[k]) \in TargetNames(job) /\ Final(job.files[k]) \in TargetNames(job)
  BY <1>6, FrontOfPath DEF PathsOnly, TargetNames, Final
<1>8. TargetNames(job) \subseteq Names /\ NewNames \subseteq TargetNames(job) /\ Mended \in TargetNames(job)
  BY <1>5, <1>7 DEF TargetNames
<1>9. QED
  BY <1>2, <1>3, <1>4, <1>5, <1>6, <1>7, <1>8

LEMMA TargetBelow ==
  ASSUME Hypotheses, Ground, Transfers, NEW p \in Paths, NEW q \in Paths, InTarget(job, p), IsPrefix(p, q)
  PROVE  InTarget(job, q)
<1>1. PICK n \in TargetNames(job) : IsPrefix(Append(job.destination, n), p)
  BY DEF InTarget
<1>2. Append(job.destination, n) \in Paths
  BY JobFacts, AppendToPath
<1>3. IsPrefix(Append(job.destination, n), q)
  BY <1>1, <1>2, PrefixTransitive
<1>4. QED
  BY <1>3 DEF InTarget

LEMMA TargetAbove ==
  ASSUME Hypotheses, Ground, Transfers, NEW p \in Paths, NEW q \in Paths, InTarget(job, q), IsPrefix(p, q)
  PROVE  InTarget(job, p) \/ IsPrefix(p, job.destination)
<1>1. PICK n \in TargetNames(job) : IsPrefix(Append(job.destination, n), q)
  BY DEF InTarget
<1>2. job.destination \in Paths /\ n \in Names
  BY JobFacts
<1>3. IsPrefix(Append(job.destination, n), p) \/ IsPrefix(p, job.destination)
  BY <1>1, <1>2, BelowOrAbove
<1>4. QED
  BY <1>3 DEF InTarget

\* Files that are moved are not where they go.
LEMMA OutOfTarget ==
  ASSUME Hypotheses, Ground, Moves, NEW k \in DOMAIN job.files, NEW q \in Paths,
         IsPrefix(job.files[k], q), ~IsPrefix(job.files[k], job.destination)
  PROVE  ~InTarget(job, q)
<1>1. Transfers /\ job.files[k] \in Paths
  BY JobFacts DEF Transfers
<1>2. ~InTarget(job, job.files[k])
  BY DEF Hypotheses, FilesApart, Ground, Moves
<1>3. QED
  BY <1>1, <1>2, TargetAbove

\* They are not in each other.
LEMMA ApartBelow ==
  ASSUME Hypotheses, Ground, Moves, NEW k \in DOMAIN job.files, NEW m \in DOMAIN job.files,
         job.files[k] # job.files[m], NEW q \in Paths, IsPrefix(job.files[k], q), IsPrefix(job.files[m], q)
  PROVE  FALSE
<1>1. job.files[k] \in Paths /\ job.files[m] \in Paths
  BY JobFacts DEF Transfers
<1>2. ~IsPrefix(job.files[k], job.files[m]) /\ ~IsPrefix(job.files[m], job.files[k])
  BY DEF Hypotheses, FilesApart, Ground, Moves
<1>3. QED
  BY <1>1, <1>2, PrefixesCompare

LEMMA TopFacts ==
  ASSUME Hypotheses, Steady, Transfers, stack # << >>, phase \in {"prepare", "transfer"}
  PROVE  /\ stack \in Seq(FileFrame \cup FolderFrame)
         /\ Len(stack) \in Nat \ {0} /\ DOMAIN stack = 1 .. Len(stack)
         /\ Top = stack[Len(stack)] /\ Top \in FileFrame \cup FolderFrame
         /\ \A i \in 1 .. Len(stack) - 1 :
               /\ stack[i] \in FolderFrame /\ Walks(stack[i])
               /\ IsPrefix(stack[i].src, Front(Top.src)) /\ IsPrefix(stack[i].dest, Front(Top.dest))
               /\ \A n \in stack[i].left : ~IsPrefix(Append(stack[i].src, n), Top.src)
         /\ Top.src \in PathsOnly /\ Top.dest \in PathsOnly
         /\ stack[1].src \in PathsOnly /\ stack[1].dest \in PathsOnly
         /\ IsPrefix(stack[1].src, Top.src) /\ IsPrefix(stack[1].dest, Top.dest)
         /\ Front(stack[1].dest) = job.destination /\ IsPrefix(job.destination, Front(Top.dest))
         /\ \E m \in DOMAIN job.files : job.files[m] = stack[1].src
         /\ Asking => InTarget(job, Top.dest)
         /\ Top.kind = "file" <=> Top \in FileFrame
         /\ Top.kind = "folder" <=> Top \in FolderFrame
         /\ Top.kind = "file" => Aims(Top) /\ CallAgreed(Top)
         /\ Top.kind = "folder" => Walks(Top) /\ phase = "transfer"
         /\ Moves => CallUnhaunted(Top)
<1>1. Calls /\ Aimed /\ AgreedTo /\ ViewInv /\ stack \in Seq(FileFrame \cup FolderFrame)
  BY DEF Steady, Calls
<1>2. /\ Len(stack) \in Nat \ {0} /\ DOMAIN stack = 1 .. Len(stack)
      /\ Len(stack) \in DOMAIN stack /\ Top = stack[Len(stack)] /\ Top \in FileFrame \cup FolderFrame
  BY <1>1, TopOfStack
<1>3. /\ \A f \in FileFrame \cup FolderFrame : f.src \in PathsOnly /\ f.dest \in PathsOnly
      /\ \A f \in FileFrame \cup FolderFrame : f.kind = "folder" <=> f \in FolderFrame
      /\ \A f \in FileFrame \cup FolderFrame : f.kind = "file" <=> f \in FileFrame
  BY DEF FileFrame, FolderFrame
<1>4. \A i \in DOMAIN stack : stack[i] \in FileFrame \cup FolderFrame
  BY <1>1, <1>2
<1>5. ASSUME NEW i \in 1 .. Len(stack) - 1
      PROVE  /\ stack[i] \in FolderFrame /\ Walks(stack[i])
             /\ IsPrefix(stack[i].src, Front(Top.src)) /\ IsPrefix(stack[i].dest, Front(Top.dest))
             /\ \A n \in stack[i].left : ~IsPrefix(Append(stack[i].src, n), Top.src)
  <2>1. i \in DOMAIN stack /\ i < Len(stack) /\ i \in 1 .. Len(stack) - 1 /\ Len(stack) \in DOMAIN stack
    BY <1>2
  <2>2. stack[i].kind = "folder"
    BY <1>1, <2>1 DEF Calls
  <2>3. stack[i] \in FolderFrame
    BY <1>3, <1>4, <2>1, <2>2
  <2>4. Walks(stack[i])
    BY <1>1, <2>1, <2>2 DEF Aimed
  <2>5. QED
    BY <1>1, <1>2, <2>1, <2>3, <2>4 DEF Calls
<1>6. /\ 1 \in DOMAIN stack /\ Front(stack[1].dest) = job.destination
      /\ \E m \in DOMAIN job.files : job.files[m] = stack[1].src
  BY <1>1, <1>2 DEF Calls
<1>7. IsPrefix(stack[1].src, Top.src) /\ IsPrefix(stack[1].dest, Top.dest)
  <2>1. CASE Len(stack) = 1
    BY <1>2, <1>3, <2>1, PrefixReflexive DEF PathsOnly
  <2>2. CASE Len(stack) # 1
    <3>1. 1 \in 1 .. Len(stack) - 1
      BY <1>2, <2>2
    <3>2. IsPrefix(stack[1].src, Front(Top.src)) /\ IsPrefix(stack[1].dest, Front(Top.dest))
      BY <1>5, <3>1
    <3>3. Top.src \in Paths \ {<< >>} /\ Top.dest \in Paths \ {<< >>} /\ stack[1].src \in Paths /\ stack[1].dest \in Paths
      BY <1>2, <1>3, <1>4, <1>6 DEF PathsOnly
    <3>4. QED
      BY <3>2, <3>3, FrontOfPath
  <2>3. QED
    BY <2>1, <2>2
<1>8. IsPrefix(job.destination, Front(Top.dest)) /\ (Asking => InTarget(job, Top.dest))
  BY <1>1, <1>2 DEF Calls
<1>9. /\ Top.kind = "file" => Aims(Top) /\ CallAgreed(Top)
      /\ Top.kind = "folder" => Walks(Top)
      /\ Moves => CallUnhaunted(Top)
  BY <1>1, <1>2 DEF Aimed, AgreedTo, ViewInv
<1>10. Top.kind = "folder" => phase = "transfer"
  BY <1>1, <1>2 DEF Calls
<1>11. Top.src \in PathsOnly /\ Top.dest \in PathsOnly /\ stack[1].src \in PathsOnly /\ stack[1].dest \in PathsOnly
  BY <1>2, <1>3, <1>4, <1>6
<1>12. (Top.kind = "file" <=> Top \in FileFrame) /\ (Top.kind = "folder" <=> Top \in FolderFrame)
  BY <1>2, <1>3
<1>13. QED
  BY <1>1, <1>2, <1>5, <1>6, <1>7, <1>8, <1>9, <1>10, <1>11, <1>12

\* The call on top may write: its file is not where it goes, nor around that.
Acts == Top.kind = "folder" \/ Top.step = "try"

LEMMA Acting ==
  ASSUME Hypotheses, Steady, Transfers, stack # << >>, phase \in {"prepare", "transfer"}, Acts
  PROVE  /\ ~IsPrefix(Top.src, Front(Top.dest)) /\ ~IsPrefix(Top.src, job.destination)
         /\ ~IsPrefix(stack[1].src, job.destination)
<1>1. /\ Top.src \in Paths /\ Top.dest \in Paths \ {<< >>} /\ job.destination \in Paths
      /\ stack[1].src \in Paths /\ stack[1].dest \in Paths \ {<< >>}
      /\ IsPrefix(job.destination, Front(Top.dest)) /\ Front(stack[1].dest) = job.destination
  BY TopFacts, JobFacts DEF Steady, PathsOnly
<1>2. Front(Top.dest) \in Paths /\ Front(stack[1].dest) \in Paths
  BY <1>1, FrontOfPath
<1>3. ASSUME NEW f, Walks(f), f.src \in Paths, f.dest \in Paths \ {<< >>}
      PROVE  ~IsPrefix(f.src, Front(f.dest))
  <2>1. ~IsPrefix(f.src, f.dest)
    BY <1>3 DEF Walks, Comparable
  <2>2. QED
    BY <1>3, <2>1, FrontOfPath
<1>4. ~IsPrefix(Top.src, Front(Top.dest))
  <2>1. CASE Top.kind = "folder"
    <3>1. Walks(Top)
      BY <2>1, TopFacts
    <3>2. QED
      BY <1>1, <1>3, <3>1
  <2>2. CASE Top.kind # "folder"
    <3>1. Top.kind = "file" /\ Top.step = "try"
      <4>1. Top \in FileFrame \cup FolderFrame
        BY TopFacts
      <4>2. QED
        BY <2>2, <4>1 DEF Acts, FileFrame, FolderFrame
    <3>2. QED
      BY <3>1, TopFacts DEF Aims
  <2>3. QED
    BY <2>1, <2>2
<1>5. ~IsPrefix(Top.src, job.destination)
  BY <1>1, <1>2, <1>4, PrefixTransitive
<1>6. ~IsPrefix(stack[1].src, job.destination)
  <2>1. CASE Len(stack) = 1
    BY <1>5, <2>1, TopFacts
  <2>2. CASE Len(stack) # 1
    <3>1. 1 \in 1 .. Len(stack) - 1
      <4>1. Len(stack) \in Nat \ {0}
        BY TopFacts
      <4>2. QED
        BY <2>2, <4>1
    <3>2. Walks(stack[1])
      BY <3>1, TopFacts
    <3>3. QED
      BY <1>1, <1>3, <3>2
  <2>3. QED
    BY <2>1, <2>2
<1>7. QED
  BY <1>4, <1>5, <1>6

-----------------------------------------------------------------------------
\* What the call on top does leaves the rest alone.

\* The call on top is at work; the rest of the job stays; answers are only added; and
\* the disk changes only where the call works.
Working == stack # << >> /\ phase \in {"prepare", "transfer"}
Beside == UNCHANGED <<before, job, phase, todo>>
Answered ==
    /\ flags' \in [Flag -> BOOLEAN] /\ (flags'["replaceAll"] => always')
    /\ agreed \subseteq agreed' /\ mends' \in BOOLEAN /\ (mends => mends')
Writes ==
    /\ disk' = disk \/ (Acts /\ Changed(Top.src, Top.dest))
    /\ Asking => \A p \in DOMAIN disk' \ DOMAIN disk : Last(p) \notin Unwritable

\* What is not changed is as it was, and what leads there too.
LEMMA FolderStays ==
  ASSUME Writes, NEW p \in DOMAIN disk,
         Acts => ~IsPrefix(Top.src, p) /\ ~IsPrefix(Top.dest, p)
  PROVE  p \in DOMAIN disk' /\ disk'[p] = disk[p]
  BY DEF Writes, Changed

LEMMA NothingNew ==
  ASSUME Writes, NEW q \in DOMAIN disk', Acts => ~IsPrefix(Top.dest, q)
  PROVE  q \in DOMAIN disk /\ disk'[q] = disk[q]
  BY DEF Writes, Changed

LEMMA GroundStays ==
  ASSUME Hypotheses, Steady, Transfers, Working, Beside, Answered, Writes
  PROVE  Ground'
<1>1. /\ job.destination \in DOMAIN disk /\ disk[job.destination] = Folder /\ ~Removes /\ Tree(disk)
      /\ job.destination \in Paths
  BY JobFacts DEF Steady
<1>2. Tree(disk')
  BY <1>1 DEF Writes, Changed, Tree
<1>3. ASSUME Acts
      PROVE  ~IsPrefix(Top.src, job.destination) /\ ~IsPrefix(Top.dest, job.destination)
  <2>1. ~IsPrefix(Top.src, job.destination)
    BY <1>3, Acting DEF Working
  <2>2. IsPrefix(job.destination, Front(Top.dest)) /\ Top.dest \in Paths \ {<< >>}
    BY TopFacts DEF PathsOnly, Working
  <2>3. Front(Top.dest) \in Paths /\ ~IsPrefix(Top.dest, Front(Top.dest))
    BY <2>2, FrontOfPath
  <2>4. ~IsPrefix(Top.dest, job.destination)
    BY <1>1, <2>2, <2>3, PrefixTransitive
  <2>5. QED
    BY <2>1, <2>4
<1>4. job.destination \in DOMAIN disk' /\ disk'[job.destination] = Folder
  BY <1>1, <1>3, FolderStays
<1>5. QED
  BY <1>1, <1>2, <1>4 DEF Ground, Steady, Beside, Answered, Removes, Working, Over

LEMMA WalksStay ==
  ASSUME Hypotheses, Steady, Transfers, Working, Writes, NEW f \in FolderFrame, Walks(f),
         IsPrefix(f.src, Front(Top.src)), IsPrefix(f.dest, Front(Top.dest))
  PROVE  Walks(f)'
<1>1. Top.src \in Paths \ {<< >>} /\ Top.dest \in Paths \ {<< >>} /\ f.src \in Paths /\ f.dest \in Paths
  BY TopFacts DEF PathsOnly, FolderFrame, Working
<1>2. /\ Front(Top.src) \in Paths /\ ~IsPrefix(Top.src, Front(Top.src)) /\ IsPrefix(Front(Top.src), Top.src)
      /\ Front(Top.dest) \in Paths /\ ~IsPrefix(Top.dest, Front(Top.dest)) /\ IsPrefix(Front(Top.dest), Top.dest)
  BY <1>1, FrontOfPath
<1>3. IsPrefix(f.src, Top.src) /\ IsPrefix(f.dest, Top.dest)
  BY <1>1, <1>2, PrefixTransitive
<1>4. ~IsPrefix(Top.src, f.src) /\ ~IsPrefix(Top.dest, f.dest)
  BY <1>1, <1>2, PrefixTransitive
<1>5. ~IsPrefix(Top.dest, f.src) /\ ~IsPrefix(Top.src, f.dest)
  BY <1>1, <1>3, PrefixTransitive DEF Walks, Comparable
<1>6. f.src \in DOMAIN disk' /\ disk'[f.src] = Folder
  BY <1>4, <1>5, FolderStays DEF Walks
<1>7. f.dest \in DOMAIN disk' /\ disk'[f.dest] = Folder
  BY <1>4, <1>5, FolderStays DEF Walks
<1>8. QED
  BY <1>6, <1>7 DEF Walks, Comparable

LEMMA WritableStays ==
  ASSUME Steady, Writes, Beside,
         Asking
  PROVE  \A p \in DOMAIN disk' \ {<< >>} : Last(p) \in Unwritable => p \in DOMAIN before'
  BY DEF Steady, Aimed, Writes, Beside

LEMMA AsBeforeStays ==
  ASSUME Hypotheses, Steady, Transfers, Working, Writes, Beside, Moves
  PROVE  AsBefore'
<1>1. ASSUME NEW k \in DOMAIN job.files, ~IsPrefix(job.files[k], job.destination),
             NEW q \in DOMAIN disk', IsPrefix(job.files[k], q)
      PROVE  q \in DOMAIN before /\ before[q] = disk'[q]
  <2>1. q \in Paths
    BY JobFacts DEF Writes, Changed, Tree, Steady
  <2>2. ~InTarget(job, q)
    BY <1>1, <2>1, OutOfTarget DEF Steady
  <2>3. InTarget(job, Top.dest) /\ Top.dest \in Paths
    BY TopFacts DEF Working, PathsOnly, Asking, Moves
  <2>4. ~IsPrefix(Top.dest, q)
    BY <2>1, <2>2, <2>3, TargetBelow DEF Steady
  <2>5. q \in DOMAIN disk /\ disk'[q] = disk[q]
    BY <2>4, NothingNew
  <2>6. AsBefore
    BY DEF Steady, ViewInv
  <2>7. QED
    BY <1>1, <2>5, <2>6 DEF AsBefore
<1>2. QED
  BY <1>1 DEF AsBefore, Beside

LEMMA HoldsStays ==
  ASSUME Hypotheses, Steady, Transfers, Working, Beside, Answered, Writes,
         NEW e \in Entry, Waits(e), Holds(e), e.src # stack[1].src,
         e.over => stack[1].dest # Place(e.src)
  PROVE  Holds(e)'
<1>1. SUFFICES ASSUME e.over
               PROVE  Holds(e)'
  BY DEF Holds
<1>2. Moves /\ (\E k \in DOMAIN job.files : job.files[k] = e.src) /\ Asking
  BY <1>1 DEF Waits, Asking, Moves
<1>3. PICK k \in DOMAIN job.files : job.files[k] = e.src
  BY <1>2
<1>4. PICK m \in DOMAIN job.files : job.files[m] = stack[1].src
  BY TopFacts DEF Working
<1>5. PICK a : a = Place(e.src)
  OBVIOUS
<1>6. /\ e.src \in Paths /\ Final(e.src) \in TargetNames(job) /\ Final(e.src) \in Names
      /\ job.destination \in Paths /\ DOMAIN disk \subseteq Paths
  BY <1>3, JobFacts DEF Steady
<1>7. a \in PathsOnly /\ Front(a) = job.destination /\ a = Append(job.destination, Final(e.src))
  BY <1>5, <1>6, AppendToPath DEF Place, PathsOnly
<1>8. /\ a \in DOMAIN disk /\ Agreed(e.src, a) /\ (Last(e.src) \in Unwritable => mends)
      /\ ~IsPrefix(e.src, job.destination) /\ stack[1].dest # a
  BY <1>1, <1>5 DEF Holds
<1>9. /\ Top.src \in Paths /\ Top.dest \in Paths /\ stack[1].src \in Paths
      /\ stack[1].dest \in PathsOnly /\ Front(stack[1].dest) = job.destination
      /\ IsPrefix(stack[1].src, Top.src) /\ IsPrefix(stack[1].dest, Top.dest)
      /\ InTarget(job, Top.dest)
  BY <1>2, TopFacts DEF Working, PathsOnly
<1>10. ASSUME NEW q \in Paths, IsPrefix(e.src, q), Acts
       PROVE  ~IsPrefix(Top.src, q) /\ ~IsPrefix(Top.dest, q)
  <2>1. ~IsPrefix(Top.src, q)
    <3>1. SUFFICES ASSUME IsPrefix(Top.src, q)
                   PROVE  FALSE
      OBVIOUS
    <3>2. IsPrefix(stack[1].src, q)
      BY <1>9, <1>10, <3>1, PrefixTransitive
    <3>3. QED
      BY <1>2, <1>3, <1>4, <1>10, <3>2, ApartBelow DEF Steady
  <2>2. ~InTarget(job, q)
    BY <1>2, <1>3, <1>8, <1>10, OutOfTarget DEF Steady
  <2>3. ~IsPrefix(Top.dest, q)
    BY <1>9, <1>10, <2>2, TargetBelow DEF Steady
  <2>4. QED
    BY <2>1, <2>3
<1>11. ASSUME NEW q \in Paths, IsPrefix(a, q), Acts
       PROVE  ~IsPrefix(Top.src, q) /\ ~IsPrefix(Top.dest, q)
  <2>1. ~IsPrefix(Top.dest, q)
    <3>1. SUFFICES ASSUME IsPrefix(Top.dest, q)
                   PROVE  FALSE
      OBVIOUS
    <3>2. IsPrefix(stack[1].dest, q)
      BY <1>9, <1>11, <3>1, PrefixTransitive DEF PathsOnly
    <3>3. stack[1].dest = a
      <4>1. PICK b \in PathsOnly : b = stack[1].dest
        BY <1>9
      <4>2. Front(b) = Front(a) /\ IsPrefix(b, q)
        BY <1>7, <1>9, <3>2, <4>1
      <4>3. b = a
        BY <1>7, <1>11, <4>2, Siblings
      <4>4. QED
        BY <4>1, <4>3
    <3>4. QED
      BY <1>8, <3>3
  <2>2. ~IsPrefix(Top.src, q)
    <3>1. SUFFICES ASSUME IsPrefix(Top.src, q)
                   PROVE  FALSE
      OBVIOUS
    <3>2. IsPrefix(job.files[m], q)
      BY <1>4, <1>9, <1>11, <3>1, PrefixTransitive
    <3>3. ~IsPrefix(job.files[m], job.destination)
      BY <1>4, <1>11, Acting DEF Working
    <3>4. ~InTarget(job, q)
      BY <1>2, <1>11, <3>2, <3>3, OutOfTarget DEF Steady
    <3>5. InTarget(job, q)
      BY <1>6, <1>7, <1>11 DEF InTarget
    <3>6. QED
      BY <3>4, <3>5
  <2>3. QED
    BY <2>1, <2>2
<1>12. a \in DOMAIN disk' /\ disk'[a] = disk[a]
  <2>1. IsPrefix(a, a) /\ a \in Paths
    BY <1>7, PrefixReflexive DEF PathsOnly
  <2>2. QED
    BY <1>8, <1>11, <2>1, FolderStays
<1>13. Agreed(e.src, a)'
  <2>1. SUFFICES ASSUME e.src \in DOMAIN disk'
                 PROVE  Agreed(e.src, a)'
    BY DEF Agreed
  <2>2. IsPrefix(e.src, e.src)
    BY <1>6, PrefixReflexive
  <2>3. e.src \in DOMAIN disk /\ disk'[e.src] = disk[e.src]
    BY <1>6, <1>10, <2>1, <2>2, NothingNew
  <2>4. CASE disk[e.src] = Folder /\ disk[a] = Folder
    BY <1>12, <2>3, <2>4 DEF Agreed
  <2>5. CASE Contents(a) \ Contents(e.src) \subseteq agreed
    <3>1. Contents(a)' \subseteq Contents(a)
      <4>1. ASSUME NEW q \in DOMAIN disk', IsPrefix(a, q)
            PROVE  q \in DOMAIN disk /\ disk'[q] = disk[q]
        <5>1. q \in Paths
          BY <1>6 DEF Writes, Changed, Tree
        <5>2. QED
          BY <1>11, <4>1, <5>1, NothingNew
      <4>2. QED
        BY <4>1 DEF Contents, Under
    <3>2. Contents(e.src) \subseteq Contents(e.src)'
      <4>1. ASSUME NEW q \in DOMAIN disk, IsPrefix(e.src, q)
            PROVE  q \in DOMAIN disk' /\ disk'[q] = disk[q]
        BY <1>6, <1>10, <4>1, FolderStays
      <4>2. QED
        BY <4>1 DEF Contents, Under
    <3>3. QED
      BY <2>5, <3>1, <3>2 DEF Agreed, Answered
  <2>6. QED
    BY <1>8, <2>3, <2>4, <2>5 DEF Agreed
<1>14. job' = job /\ (Last(e.src) \in Unwritable => mends')
  BY <1>8 DEF Beside, Answered
<1>15. Place(e.src)' = a
  BY <1>5, <1>14 DEF Place, Final
<1>16. QED
  BY <1>8, <1>12, <1>13, <1>14, <1>15 DEF Holds

-----------------------------------------------------------------------------
\* The calls below the one on top.

SameCallers ==
    \A i \in 1 .. Len(stack) - 1 :
        /\ stack'[i] \in FolderFrame
        /\ stack'[i].src = stack[i].src /\ stack'[i].dest = stack[i].dest
        /\ stack'[i].left = stack[i].left
ReturnsToCaller == stack' \in Seq(FileFrame \cup FolderFrame) /\ Len(stack') = Len(stack) - 1 /\ SameCallers
GoesOn(d) ==
    /\ stack' \in Seq(FileFrame \cup FolderFrame) /\ Len(stack') = Len(stack) /\ SameCallers
    /\ stack'[Len(stack)] = d
    /\ d \in FileFrame \cup FolderFrame
    /\ d.src = Top.src /\ Front(d.dest) = Front(Top.dest)
    /\ Asking => InTarget(job, d.dest)
    /\ phase = "prepare" => d.kind = "file"

LEMMA CallsReturn ==
  ASSUME Hypotheses, Steady, Transfers, Working, Beside, ReturnsToCaller
  PROVE  Calls'
<1>1. /\ Len(stack) \in Nat \ {0} /\ DOMAIN stack = 1 .. Len(stack)
      /\ Len(stack') = Len(stack) - 1 /\ DOMAIN stack' = 1 .. Len(stack) - 1
  <2>1. Len(stack) \in Nat \ {0} /\ DOMAIN stack = 1 .. Len(stack)
    BY TopFacts DEF Working
  <2>2. DOMAIN stack' = 1 .. Len(stack')
    BY LenProperties DEF ReturnsToCaller
  <2>3. QED
    BY <2>1, <2>2 DEF ReturnsToCaller
<1>2. Calls
  BY DEF Steady
<1>3. \A f \in FolderFrame : f.kind = "folder"
  BY DEF FolderFrame
<1>4. ASSUME NEW i \in DOMAIN stack'
      PROVE  /\ i \in DOMAIN stack /\ i < Len(stack) /\ stack'[i].kind = "folder"
             /\ stack'[i].src = stack[i].src /\ stack'[i].dest = stack[i].dest
             /\ stack'[i].left = stack[i].left
  BY <1>1, <1>3 DEF ReturnsToCaller, SameCallers
<1>5. phase' = "prepare" => DOMAIN stack' = {} /\ Len(stack') <= 1 /\ Moves'
  BY <1>1, <1>2 DEF Calls, Beside, Moves
<1>6. phase' # "scan"
  BY DEF Working, Beside
<1>7. ASSUME NEW i \in DOMAIN stack'
      PROVE  /\ i < Len(stack') \/ phase' = "prepare" => (stack'[i].kind = "folder" <=> i < Len(stack'))
             /\ IsPrefix(job'.destination, Front(stack'[i].dest))
             /\ Asking' => InTarget(job', stack'[i].dest)
  <2>1. /\ IsPrefix(job.destination, Front(stack[i].dest))
        /\ Asking => InTarget(job, stack[i].dest)
    BY <1>2, <1>4 DEF Calls
  <2>2. job' = job /\ (Asking' <=> Asking)
    BY DEF Beside, Asking
  <2>3. QED
    BY <1>4, <1>5, <2>1, <2>2
<1>8. stack' # << >> =>
          /\ \E k \in DOMAIN job'.files : job'.files[k] = stack'[1].src
          /\ Front(stack'[1].dest) = job'.destination
  <2>1. ASSUME stack' # << >>
        PROVE  /\ \E k \in DOMAIN job'.files : job'.files[k] = stack'[1].src
               /\ Front(stack'[1].dest) = job'.destination
    <3>1. 1 \in DOMAIN stack'
      <4>1. stack' \in Seq(FileFrame \cup FolderFrame)
        BY DEF ReturnsToCaller
      <4>2. Len(stack') # 0
        BY <2>1, <4>1, EmptySeq
      <4>3. QED
        BY <1>1, <4>2
    <3>2. QED
      BY <1>2, <1>4, <3>1 DEF Calls, Beside, Working
  <2>2. QED
    BY <2>1
<1>9. ASSUME NEW k \in DOMAIN stack', NEW i \in 1 .. k - 1
      PROVE  /\ IsPrefix(stack'[i].src, Front(stack'[k].src))
             /\ IsPrefix(stack'[i].dest, Front(stack'[k].dest))
             /\ \A n \in stack'[i].left : ~IsPrefix(Append(stack'[i].src, n), stack'[k].src)
  <2>1. i \in DOMAIN stack' /\ k \in DOMAIN stack
    BY <1>1
  <2>2. QED
    BY <1>2, <1>4, <2>1 DEF Calls
<1>10. ASSUME NEW k \in DOMAIN stack', k > 1
       PROVE  Front(stack'[k].dest) = stack'[k - 1].dest
  <2>1. k \in DOMAIN stack /\ k - 1 \in DOMAIN stack'
    BY <1>1, <1>10
  <2>2. Front(stack[k].dest) = stack[k - 1].dest
    BY <1>2, <1>10, <2>1 DEF Calls
  <2>3. QED
    BY <1>4, <2>1, <2>2
<1>11. QED
  BY <1>5, <1>6, <1>7, <1>8, <1>9, <1>10 DEF Calls, ReturnsToCaller

LEMMA CallsGoOn ==
  ASSUME Hypotheses, Steady, Transfers, Working, Beside, NEW d, GoesOn(d)
  PROVE  Calls'
<1> DEFINE top == Len(stack)
<1>1. /\ top \in Nat \ {0} /\ DOMAIN stack = 1 .. top /\ Top = stack[top]
      /\ Len(stack') = top /\ DOMAIN stack' = 1 .. top
  <2>1. Len(stack) \in Nat \ {0} /\ DOMAIN stack = 1 .. Len(stack) /\ Top = stack[Len(stack)]
    BY TopFacts DEF Working
  <2>2. DOMAIN stack' = 1 .. Len(stack')
    BY LenProperties DEF GoesOn
  <2>3. QED
    BY <2>1, <2>2 DEF GoesOn
<1>2. Calls
  BY DEF Steady
<1>3. /\ d.src = Top.src /\ Front(d.dest) = Front(Top.dest) /\ stack'[top] = d
      /\ Asking => InTarget(job, d.dest)
      /\ phase = "prepare" => d.kind = "file"
      /\ job' = job /\ phase' = phase /\ (Asking' <=> Asking) /\ (Moves' <=> Moves)
  BY DEF GoesOn, Beside, Asking, Moves
<1>4. ASSUME NEW i \in 1 .. top - 1
      PROVE  /\ i \in DOMAIN stack /\ i < top /\ stack'[i].kind = "folder"
             /\ stack'[i].src = stack[i].src /\ stack'[i].dest = stack[i].dest
             /\ stack'[i].left = stack[i].left
  <2>1. \A f \in FolderFrame : f.kind = "folder"
    BY DEF FolderFrame
  <2>2. QED
    BY <1>1, <2>1 DEF GoesOn, SameCallers
<1>5. \A i \in DOMAIN stack' : i = top \/ i \in 1 .. top - 1
  BY <1>1
<1> HIDE DEF top
<1>6. phase' = "prepare" => Len(stack') <= 1 /\ Moves'
  BY <1>1, <1>2, <1>3 DEF Calls, top
<1>7. phase' # "scan"
  BY DEF Working, Beside
<1>8. ASSUME NEW i \in DOMAIN stack'
      PROVE  /\ i < Len(stack') \/ phase' = "prepare" => (stack'[i].kind = "folder" <=> i < Len(stack'))
             /\ IsPrefix(job'.destination, Front(stack'[i].dest))
             /\ Asking' => InTarget(job', stack'[i].dest)
  <2>1. CASE i = top
    <3>1. IsPrefix(job.destination, Front(Top.dest))
      BY <1>1, <1>2 DEF Calls
    <3>2. stack'[i] = d /\ ~(i < Len(stack'))
      BY <1>1, <1>3, <2>1
    <3>3. phase' = "prepare" => stack'[i].kind # "folder"
      BY <1>3, <3>2
    <3>4. QED
      BY <1>3, <3>1, <3>2, <3>3
  <2>2. CASE i \in 1 .. top - 1
    <3>1. /\ IsPrefix(job.destination, Front(stack[i].dest))
          /\ Asking => InTarget(job, stack[i].dest)
      BY <1>2, <1>4, <2>2 DEF Calls
    <3>2. QED
      BY <1>1, <1>3, <1>4, <2>2, <3>1
  <2>3. QED
    BY <1>5, <2>1, <2>2
<1>9. /\ \E k \in DOMAIN job'.files : job'.files[k] = stack'[1].src
      /\ Front(stack'[1].dest) = job'.destination
  <2>1. /\ \E k \in DOMAIN job.files : job.files[k] = stack[1].src
        /\ Front(stack[1].dest) = job.destination
    BY <1>2 DEF Calls, Working
  <2>2. stack'[1].src = stack[1].src /\ Front(stack'[1].dest) = Front(stack[1].dest)
    <3>1. 1 \in DOMAIN stack'
      BY <1>1
    <3>2. CASE top = 1
      BY <1>1, <1>3, <3>2
    <3>3. CASE 1 \in 1 .. top - 1
      BY <1>4, <3>3
    <3>4. QED
      BY <1>5, <3>1, <3>2, <3>3
  <2>3. QED
    BY <1>3, <2>1, <2>2
<1>10. ASSUME NEW k \in DOMAIN stack', NEW i \in 1 .. k - 1
       PROVE  /\ IsPrefix(stack'[i].src, Front(stack'[k].src))
              /\ IsPrefix(stack'[i].dest, Front(stack'[k].dest))
              /\ \A n \in stack'[i].left : ~IsPrefix(Append(stack'[i].src, n), stack'[k].src)
  <2>1. i \in 1 .. top - 1 /\ k \in DOMAIN stack
    BY <1>1
  <2>2. /\ IsPrefix(stack[i].src, Front(stack[k].src))
        /\ IsPrefix(stack[i].dest, Front(stack[k].dest))
        /\ \A n \in stack[i].left : ~IsPrefix(Append(stack[i].src, n), stack[k].src)
    BY <1>2, <2>1 DEF Calls
  <2>3. stack'[k].src = stack[k].src /\ Front(stack'[k].dest) = Front(stack[k].dest)
    BY <1>1, <1>3, <1>4, <1>5
  <2>4. QED
    BY <1>4, <2>1, <2>2, <2>3
<1>11. ASSUME NEW k \in DOMAIN stack', k > 1
       PROVE  Front(stack'[k].dest) = stack'[k - 1].dest
  <2>1. k \in DOMAIN stack /\ k - 1 \in 1 .. top - 1
    BY <1>1, <1>11
  <2>2. Front(stack[k].dest) = stack[k - 1].dest
    BY <1>2, <1>11, <2>1 DEF Calls
  <2>3. Front(stack'[k].dest) = Front(stack[k].dest)
    BY <1>1, <1>3, <1>4, <1>5
  <2>4. QED
    BY <1>4, <2>1, <2>2, <2>3
<1>12. QED
  BY <1>6, <1>7, <1>8, <1>9, <1>10, <1>11 DEF Calls, GoesOn

\* A place beside the one the call on top was to take.
LEMMA SiblingTarget ==
  ASSUME Hypotheses, Steady, Transfers, Working, Asking, NEW p \in PathsOnly,
         Front(p) = Front(Top.dest), Len(stack) = 1 => Last(p) \in TargetNames(job)
  PROVE  InTarget(job, p)
<1>1. p \in Paths \ {<< >>} /\ Ground
  BY DEF PathsOnly, Steady
<1>2. /\ Front(p) \in Paths /\ p = Append(Front(p), Last(p)) /\ IsPrefix(Front(p), p)
      /\ IsPrefix(p, p)
  BY <1>1, FrontOfPath, PrefixReflexive
<1>3. CASE Len(stack) = 1
  <2>1. Front(p) = job.destination
    BY <1>3, TopFacts DEF Working
  <2>2. QED
    BY <1>2, <1>3, <2>1 DEF InTarget
<1>4. CASE Len(stack) # 1
  <2>1. 1 \in 1 .. Len(stack) - 1
    <3>1. PICK l \in Nat \ {0} : l = Len(stack)
      BY TopFacts DEF Working
    <3>2. l # 1
      BY <1>4, <3>1
    <3>3. 1 \in 1 .. l - 1
      BY <3>2
    <3>4. QED
      BY <3>1, <3>3
  <2>2. IsPrefix(stack[1].dest, Front(p)) /\ stack[1].dest \in PathsOnly
    BY <2>1, TopFacts DEF Working
  <2>3. InTarget(job, stack[1].dest)
    <3>1. Calls /\ 1 \in DOMAIN stack
      BY <2>1, TopFacts DEF Steady, Working
    <3>2. QED
      BY <3>1 DEF Calls
  <2>4. QED
    BY <1>1, <1>2, <2>2, <2>3, TargetBelow DEF PathsOnly
<1>5. QED
  BY <1>3, <1>4

-----------------------------------------------------------------------------
\* What the views are told.

Tells ==
    /\ DOMAIN disk' \subseteq known' /\ known' \subseteq Paths
    /\ \/ Ghosts' \subseteq Ghosts
       \/ Moves /\ Top.kind = "folder" /\ Ghosts' \subseteq Ghosts \cup {Top.src}

LEMMA ToldStays ==
  ASSUME Hypotheses, Steady, Transfers, Working, Beside, Tells
  PROVE  ToldInv'
<1>1. ASSUME NEW p \in Ghosts'
      PROVE  /\ Moves /\ p \in DOMAIN before /\ before[p] = Folder
             /\ \E i \in DOMAIN job.files : IsPrefix(job.files[i], p)
  <2>1. CASE p \in Ghosts
    BY <2>1 DEF Steady, ViewInv, ToldInv
  <2>2. CASE p = Top.src /\ Moves /\ Top.kind = "folder"
    <3>1. Walks(Top) /\ IsPrefix(stack[1].src, p)
      BY <2>2, TopFacts DEF Working
    <3>2. PICK m \in DOMAIN job.files : job.files[m] = stack[1].src
      BY TopFacts DEF Working
    <3>3. ~IsPrefix(job.files[m], job.destination)
      BY <2>2, <3>2, Acting DEF Acts, Working
    <3>4. p \in DOMAIN before /\ before[p] = disk[p]
      BY <2>2, <3>1, <3>2, <3>3 DEF Steady, ViewInv, AsBefore, Walks
    <3>5. QED
      BY <2>2, <3>1, <3>2, <3>4 DEF Walks
  <2>3. QED
    BY <2>1, <2>2 DEF Tells
<1>2. QED
  BY <1>1 DEF ToldInv, Tells, Beside, Moves

LEMMA UnhauntedStays ==
  ASSUME Tells, NEW p, Unhaunted(p), Top.kind = "folder" => ~IsPrefix(p, Top.src)
  PROVE  Unhaunted(p)'
  BY DEF Tells, Unhaunted

LEMMA WaitingUnhaunted ==
  ASSUME Hypotheses, Steady, Transfers, Working, Tells, Moves, NEW e, Waits(e), e.src # stack[1].src,
         Unhaunted(e.src)
  PROVE  Unhaunted(e.src)'
<1>1. PICK k \in DOMAIN job.files : job.files[k] = e.src
  BY DEF Waits
<1>2. PICK m \in DOMAIN job.files : job.files[m] = stack[1].src
  BY TopFacts DEF Working
<1>3. Top.src \in Paths /\ IsPrefix(stack[1].src, Top.src)
  BY TopFacts DEF Working, PathsOnly
<1>4. ~IsPrefix(e.src, Top.src)
  BY <1>1, <1>2, <1>3, ApartBelow DEF Steady
<1>5. QED
  BY <1>4, UnhauntedStays

LEMMA CallersUnhaunted ==
  ASSUME Hypotheses, Steady, Transfers, Working, Tells, Moves, SameCallers, NEW i \in 1 .. Len(stack) - 1
  PROVE  CallUnhaunted(stack[i])'
<1>1. PICK f \in FolderFrame : f = stack[i]
  BY TopFacts DEF Working
<1>2. \A n \in f.left : ~IsPrefix(Append(f.src, n), Top.src)
  BY <1>1, TopFacts DEF Working
<1>3. \A n \in f.left : Unhaunted(Append(f.src, n))
  <2>1. i \in DOMAIN stack /\ f.kind = "folder"
    <3>1. Len(stack) \in Nat /\ DOMAIN stack = 1 .. Len(stack)
      BY TopFacts DEF Working
    <3>2. QED
      BY <3>1 DEF FolderFrame
  <2>2. CallUnhaunted(f)
    BY <1>1, <2>1 DEF Steady, ViewInv
  <2>3. QED
    BY <2>1, <2>2 DEF CallUnhaunted
<1>4. PICK g \in FolderFrame : g = stack'[i] /\ g.src = f.src /\ g.left = f.left
  BY <1>1 DEF SameCallers
<1>5. ASSUME NEW n \in g.left
      PROVE  Unhaunted(Append(g.src, n))'
  <2>1. PICK p : p = Append(g.src, n)
    OBVIOUS
  <2>2. Unhaunted(p) /\ ~IsPrefix(p, Top.src)
    BY <1>2, <1>3, <1>4, <2>1
  <2>3. Unhaunted(p)'
    BY <2>2, UnhauntedStays
  <2>4. QED
    BY <2>1, <2>3
<1>6. g.kind # "file"
  BY DEF FolderFrame
<1>7. CallUnhaunted(g)'
  BY <1>5, <1>6 DEF CallUnhaunted
<1>8. QED
  BY <1>4, <1>7 DEF CallUnhaunted, Unhaunted, Ghosts

-----------------------------------------------------------------------------
\* What every step of the call on top leaves behind.

LEMMA CallersWalk ==
  ASSUME Hypotheses, Steady, Transfers, Working, Writes, SameCallers, NEW i \in 1 .. Len(stack) - 1
  PROVE  Walks(stack[i])' /\ stack'[i].kind = "folder"
<1>1. PICK f \in FolderFrame : f = stack'[i] /\ f.src = stack[i].src /\ f.dest = stack[i].dest
  BY DEF SameCallers
<1>2. /\ Walks(stack[i]) /\ IsPrefix(stack[i].src, Front(Top.src)) /\ IsPrefix(stack[i].dest, Front(Top.dest))
  BY TopFacts DEF Working
<1>3. Walks(f) /\ IsPrefix(f.src, Front(Top.src)) /\ IsPrefix(f.dest, Front(Top.dest))
  BY <1>1, <1>2 DEF Walks
<1>4. Walks(f)'
  BY <1>3, WalksStay
<1>5. f.kind = "folder"
  BY DEF FolderFrame
<1>6. QED
  BY <1>1, <1>4, <1>5 DEF Walks

InLists(e) == (\E i \in DOMAIN todo : e = todo[i]) \/ (\E i \in DOMAIN fallbacks : e = fallbacks[i])

LEMMA EntryStays ==
  ASSUME Hypotheses, Steady, Transfers, Working, Beside, Answered, Writes, Tells, NEW e, InLists(e)
  PROVE  /\ e \in Entry /\ Waits(e)' /\ Holds(e)'
         /\ Moves => e.src # stack[1].src /\ Unhaunted(e.src)'
         /\ e.over => stack[1].dest # Place(e.src)
<1>1. Waiting /\ AgreedTo /\ ViewInv /\ stack # << >> /\ phase \notin Over
  BY DEF Steady, Working, Over
<1>2. Waits(e) /\ e \in Entry
  BY <1>1 DEF InLists, Waiting, Waits
<1>3. PutOff(e)
  BY <1>1 DEF InLists, AgreedTo
<1>4. Moves => e.src # stack[1].src /\ Unhaunted(e.src)
  BY <1>1 DEF InLists, Waiting, ViewInv
<1>5. e.over => Moves /\ stack[1].dest # Place(e.src)
  BY <1>1, <1>2, <1>3 DEF Waits, PutOff
<1>6. Waits(e)'
  BY <1>2 DEF Waits, Beside, Moves
<1>7. Moves => Unhaunted(e.src)'
  BY <1>2, <1>4, WaitingUnhaunted
<1>8. Holds(e)'
  <2>1. CASE e.over
    BY <1>2, <1>3, <1>4, <1>5, <2>1, HoldsStays DEF PutOff
  <2>2. CASE ~e.over
    BY <2>2 DEF Holds
  <2>3. QED
    BY <2>1, <2>2
<1>9. QED
  BY <1>2, <1>4, <1>5, <1>6, <1>7, <1>8

\* The call returns.
LEMMA ReturnGoal ==
  ASSUME Hypotheses, Steady, Transfers, Working, Beside, Answered, Writes, Tells, Kept \subseteq Kept',
         ReturnsToCaller, fallbacks' = fallbacks
  PROVE  TransferGoal
<1>1. /\ Len(stack) \in Nat \ {0} /\ DOMAIN stack = 1 .. Len(stack)
      /\ Len(stack') = Len(stack) - 1 /\ DOMAIN stack' = 1 .. Len(stack) - 1 /\ SameCallers
  <2>1. Len(stack) \in Nat \ {0} /\ DOMAIN stack = 1 .. Len(stack)
    BY TopFacts DEF Working
  <2>2. DOMAIN stack' = 1 .. Len(stack')
    BY LenProperties DEF ReturnsToCaller
  <2>3. QED
    BY <2>1, <2>2 DEF ReturnsToCaller
<1>2. Ground' /\ Calls' /\ ToldInv'
  BY GroundStays, CallsReturn, ToldStays
<1>3. \A i \in DOMAIN stack' : Walks(stack[i])' /\ stack'[i].kind = "folder"
  BY <1>1, CallersWalk
<1>4. Aimed'
  <2>1. Asking' => \A p \in DOMAIN disk' \ {<< >>} : Last(p) \in Unwritable => p \in DOMAIN before'
    BY WritableStays DEF Asking, Beside
  <2>2. QED
    BY <1>3, <2>1, Zenon DEF Aimed
<1>5. stack' # << >> => stack'[1].src = stack[1].src /\ stack'[1].dest = stack[1].dest
  <2>1. ASSUME stack' # << >>
        PROVE  1 \in 1 .. Len(stack) - 1
    <3>1. stack' \in Seq(FileFrame \cup FolderFrame)
      BY DEF ReturnsToCaller
    <3>2. Len(stack') # 0
      BY <2>1, <3>1, EmptySeq
    <3>3. QED
      BY <1>1, <3>2
  <2>2. QED
    BY <1>1, <2>1 DEF SameCallers
<1>6. /\ \A i \in DOMAIN todo : InLists(todo[i])
      /\ \A i \in DOMAIN fallbacks : InLists(fallbacks[i])
  BY DEF InLists
<1>7. todo' = todo /\ (Moves' <=> Moves) /\ Waiting
  BY DEF Beside, Steady, Moves
<1>8. Waiting'
  <2>1. /\ todo' \in Seq(Entry) /\ fallbacks' \in Seq(Entry)
    BY <1>7 DEF Waiting
  <2>2. (\A i \in DOMAIN todo : Waits(todo[i])') /\ (\A i \in DOMAIN fallbacks : Waits(fallbacks[i])')
    <3>1. ASSUME NEW e, InLists(e)
          PROVE  Waits(e)'
      BY <3>1, EntryStays
    <3>2. QED
      BY <1>6, <1>7, <3>1 DEF Waits, Moves
  <2>3. Moves => /\ \A i \in DOMAIN todo : todo[i].src # stack[1].src
                 /\ \A i \in DOMAIN fallbacks : fallbacks[i].src # stack[1].src
    BY <1>7 DEF Waiting, Working
  <2>4. QED
    BY <1>5, <1>7, <2>1, <2>2, <2>3 DEF Waiting
<1>9. AgreedTo'
  <2>1. flags'["replaceAll"] => always'
    BY DEF Answered
  <2>2. ASSUME NEW e, InLists(e)
        PROVE  PutOff(e)'
    <3>1. Holds(e)' /\ (e.over => stack[1].dest # Place(e.src))
      BY <2>2, EntryStays
    <3>2. Place(e.src)' = Place(e.src)
      BY DEF Place, Final, Beside
    <3>3. QED
      BY <1>5, <3>1, <3>2 DEF PutOff
  <2>3. (\A i \in DOMAIN todo : PutOff(todo[i])') /\ (\A i \in DOMAIN fallbacks : PutOff(fallbacks[i])')
    <3>1. ASSUME NEW i \in DOMAIN todo
          PROVE  PutOff(todo[i])'
      <4>1. PICK e : e = todo[i]
        OBVIOUS
      <4>2. PutOff(e)'
        BY <1>6, <2>2, <4>1
      <4>3. QED
        BY <1>7, <4>1, <4>2
    <3>2. ASSUME NEW i \in DOMAIN fallbacks
          PROVE  PutOff(fallbacks[i])'
      <4>1. PICK e : e = fallbacks[i]
        OBVIOUS
      <4>2. PutOff(e)'
        BY <1>6, <2>2, <4>1
      <4>3. QED
        BY <4>1, <4>2
    <3>3. QED
      BY <3>1, <3>2
  <2>4. QED
    BY <1>3, <1>7, <2>1, <2>3 DEF AgreedTo
<1>10. ViewInv'
  <2>1. known' \subseteq Paths
    BY DEF Tells
  <2>2. ASSUME Moves
        PROVE  /\ AsBefore'
               /\ \A i \in DOMAIN todo : Unhaunted(todo[i].src)'
               /\ \A i \in DOMAIN fallbacks : Unhaunted(fallbacks[i].src)'
               /\ \A i \in DOMAIN stack' : CallUnhaunted(stack[i])'
    <3>1. AsBefore'
      BY <2>2, AsBeforeStays
    <3>2. ASSUME NEW e, InLists(e)
          PROVE  Unhaunted(e.src)'
      BY <2>2, <3>2, EntryStays
    <3>3. \A i \in DOMAIN todo : Unhaunted(todo[i].src)'
      BY <1>6, <1>7, <3>2 DEF Unhaunted, Ghosts
    <3>4. \A i \in DOMAIN fallbacks : Unhaunted(fallbacks[i].src)'
      BY <1>6, <3>2 DEF Unhaunted, Ghosts
    <3>5. \A i \in DOMAIN stack' : CallUnhaunted(stack[i])'
      BY <1>1, <2>2, CallersUnhaunted
    <3>6. QED
      BY <3>1, <3>3, <3>4, <3>5
  <2>3. QED
    BY <1>2, <1>7, <2>1, <2>2 DEF ViewInv
<1>11. phase' \in TransferPhases /\ mends' \in BOOLEAN
  BY DEF Beside, Steady, Answered
<1>12. QED
  BY <1>2, <1>4, <1>8, <1>9, <1>10, <1>11 DEF Steady, TransferGoal

\* The call goes on, as d.
LEMMA GoOnGoal ==
  ASSUME Hypotheses, Steady, Transfers, Working, Beside, Answered, Writes, Tells, Kept \subseteq Kept',
         NEW d, GoesOn(d), fallbacks' = fallbacks,
         d.kind = "folder" => Walks(d)',
         d.kind = "file" => Aims(d)' /\ CallAgreed(d)',
         Moves => CallUnhaunted(d)',
         Len(stack) = 1 => \A e : InLists(e) /\ e.over => d.dest # Place(e.src)
  PROVE  TransferGoal
<1>1. /\ Len(stack) \in Nat \ {0} /\ DOMAIN stack = 1 .. Len(stack)
      /\ Len(stack') = Len(stack) /\ DOMAIN stack' = 1 .. Len(stack) /\ SameCallers
      /\ stack'[Len(stack)] = d /\ Top = stack[Len(stack)] /\ d.src = Top.src
  <2>1. Len(stack) \in Nat \ {0} /\ DOMAIN stack = 1 .. Len(stack) /\ Top = stack[Len(stack)]
    BY TopFacts DEF Working
  <2>2. DOMAIN stack' = 1 .. Len(stack')
    BY LenProperties DEF GoesOn
  <2>3. QED
    BY <2>1, <2>2 DEF GoesOn
<1>2. Ground' /\ Calls' /\ ToldInv'
  BY GroundStays, CallsGoOn, ToldStays
<1>3. \A i \in DOMAIN stack' : i = Len(stack) \/ i \in 1 .. Len(stack) - 1
  BY <1>1
<1>4. \A i \in 1 .. Len(stack) - 1 : Walks(stack[i])' /\ stack'[i].kind = "folder"
  BY <1>1, CallersWalk
<1>5. Aimed'
  <2>1. Asking' => \A p \in DOMAIN disk' \ {<< >>} : Last(p) \in Unwritable => p \in DOMAIN before'
    BY WritableStays DEF Asking, Beside
  <2>2. ASSUME NEW i \in DOMAIN stack'
        PROVE  /\ stack'[i].kind = "folder" => Walks(stack[i])'
               /\ stack'[i].kind = "file" => Aims(stack[i])'
    <3>1. CASE i = Len(stack)
      BY <1>1, <3>1 DEF Walks, Aims, OwnName
    <3>2. CASE i \in 1 .. Len(stack) - 1
      BY <1>4, <3>2
    <3>3. QED
      BY <1>3, <3>1, <3>2
  <2>3. QED
    BY <2>1, <2>2, Zenon DEF Aimed
<1>6. stack'[1].src = stack[1].src /\ (Len(stack) # 1 => stack'[1].dest = stack[1].dest)
  <2>1. CASE Len(stack) = 1
    BY <1>1, <2>1
  <2>2. CASE Len(stack) # 1
    <3>1. 1 \in 1 .. Len(stack) - 1
      <4>1. PICK l \in Nat \ {0} : l = Len(stack)
        BY <1>1
      <4>2. l # 1
        BY <2>2, <4>1
      <4>3. 1 \in 1 .. l - 1
        BY <4>2
      <4>4. QED
        BY <4>1, <4>3
    <3>2. QED
      BY <1>1, <3>1 DEF SameCallers
  <2>3. QED
    BY <2>1, <2>2
<1>7. /\ \A i \in DOMAIN todo : InLists(todo[i])
      /\ \A i \in DOMAIN fallbacks : InLists(fallbacks[i])
  BY DEF InLists
<1>8. todo' = todo /\ (Moves' <=> Moves) /\ Waiting
  BY DEF Beside, Steady, Moves
<1>9. Waiting'
  <2>1. /\ todo' \in Seq(Entry) /\ fallbacks' \in Seq(Entry)
    BY <1>8 DEF Waiting
  <2>2. (\A i \in DOMAIN todo : Waits(todo[i])') /\ (\A i \in DOMAIN fallbacks : Waits(fallbacks[i])')
    <3>1. ASSUME NEW e, InLists(e)
          PROVE  Waits(e)'
      BY <3>1, EntryStays
    <3>2. QED
      BY <1>7, <1>8, <3>1 DEF Waits, Moves
  <2>3. Moves => /\ \A i \in DOMAIN todo : todo[i].src # stack[1].src
                 /\ \A i \in DOMAIN fallbacks : fallbacks[i].src # stack[1].src
    BY <1>8 DEF Waiting, Working
  <2>4. QED
    BY <1>6, <1>8, <2>1, <2>2, <2>3 DEF Waiting
<1>10. AgreedTo'
  <2>1. flags'["replaceAll"] => always'
    BY DEF Answered
  <2>2. ASSUME NEW e, InLists(e)
        PROVE  PutOff(e)'
    <3>1. Holds(e)' /\ (e.over => stack[1].dest # Place(e.src))
      BY <2>2, EntryStays
    <3>2. Place(e.src)' = Place(e.src)
      BY DEF Place, Final, Beside
    <3>3. e.over => stack'[1].dest # Place(e.src)
      <4>1. CASE Len(stack) = 1
        <5>1. stack'[1].dest = d.dest
          BY <1>1, <4>1
        <5>2. QED
          BY <2>2, <4>1, <5>1
      <4>2. CASE Len(stack) # 1
        BY <1>6, <3>1, <4>2
      <4>3. QED
        BY <4>1, <4>2
    <3>4. QED
      BY <3>1, <3>2, <3>3 DEF PutOff
  <2>3. (\A i \in DOMAIN todo : PutOff(todo[i])') /\ (\A i \in DOMAIN fallbacks : PutOff(fallbacks[i])')
    <3>1. ASSUME NEW i \in DOMAIN todo
          PROVE  PutOff(todo[i])'
      <4>1. PICK e : e = todo[i]
        OBVIOUS
      <4>2. PutOff(e)'
        BY <1>7, <2>2, <4>1
      <4>3. QED
        BY <1>8, <4>1, <4>2
    <3>2. ASSUME NEW i \in DOMAIN fallbacks
          PROVE  PutOff(fallbacks[i])'
      <4>1. PICK e : e = fallbacks[i]
        OBVIOUS
      <4>2. PutOff(e)'
        BY <1>7, <2>2, <4>1
      <4>3. QED
        BY <4>1, <4>2
    <3>3. QED
      BY <3>1, <3>2
  <2>4. ASSUME NEW i \in DOMAIN stack'
        PROVE  stack'[i].kind = "file" => CallAgreed(stack[i])'
    <3>1. CASE i = Len(stack)
      BY <1>1, <3>1 DEF CallAgreed
    <3>2. CASE i \in 1 .. Len(stack) - 1
      BY <1>4, <3>2
    <3>3. QED
      BY <1>3, <3>1, <3>2
  <2>5. QED
    BY <1>8, <2>1, <2>3, <2>4 DEF AgreedTo
<1>11. ViewInv'
  <2>1. known' \subseteq Paths
    BY DEF Tells
  <2>2. ASSUME Moves
        PROVE  /\ AsBefore'
               /\ \A i \in DOMAIN todo : Unhaunted(todo[i].src)'
               /\ \A i \in DOMAIN fallbacks : Unhaunted(fallbacks[i].src)'
               /\ \A i \in DOMAIN stack' : CallUnhaunted(stack[i])'
    <3>1. AsBefore'
      BY <2>2, AsBeforeStays
    <3>2. ASSUME NEW e, InLists(e)
          PROVE  Unhaunted(e.src)'
      BY <2>2, <3>2, EntryStays
    <3>3. \A i \in DOMAIN todo : Unhaunted(todo[i].src)'
      BY <1>7, <1>8, <3>2 DEF Unhaunted, Ghosts
    <3>4. \A i \in DOMAIN fallbacks : Unhaunted(fallbacks[i].src)'
      BY <1>7, <3>2 DEF Unhaunted, Ghosts
    <3>5. ASSUME NEW i \in DOMAIN stack'
          PROVE  CallUnhaunted(stack[i])'
      <4>1. CASE i = Len(stack)
        BY <1>1, <2>2, <4>1 DEF CallUnhaunted, Unhaunted, Ghosts
      <4>2. CASE i \in 1 .. Len(stack) - 1
        BY <1>1, <2>2, <4>2, CallersUnhaunted
      <4>3. QED
        BY <1>3, <4>1, <4>2
    <3>6. QED
      BY <3>1, <3>3, <3>4, <3>5
  <2>3. QED
    BY <1>2, <1>8, <2>1, <2>2 DEF ViewInv
<1>12. phase' \in TransferPhases /\ mends' \in BOOLEAN
  BY DEF Beside, Steady, Answered
<1>13. QED
  BY <1>2, <1>5, <1>9, <1>10, <1>11, <1>12 DEF Steady, TransferGoal

\* A file that cannot be moved at once is put off, with what was agreed to for it.
LEMMA PutOffGoal ==
  ASSUME Hypotheses, Steady, Transfers, Working, phase = "prepare", Top.step = "try",
         UNCHANGED <<before, job, trash, phase, todo, disk, mends, flags, agreed, always, known>>,
         Return(FALSE), fallbacks' = Append(fallbacks, [src |-> Top.src, over |-> Top.over])
  PROVE  TransferGoal
<1>1. PICK e : e = [src |-> Top.src, over |-> Top.over]
  OBVIOUS
<1>2. PICK c \in FileFrame : c = Top /\ stack = << c >>
  <2>1. stack \in Seq(FileFrame \cup FolderFrame) /\ Len(stack) \in Nat \ {0} /\ Top = stack[Len(stack)]
        /\ Top.kind # "folder" /\ Top \in FileFrame \cup FolderFrame
        /\ (Top.kind = "folder" <=> Top \in FolderFrame)
    BY TopFacts DEF Working
  <2>2. Len(stack) <= 1
    BY DEF Steady, Calls
  <2>3. Len(stack) = 1
    <3>1. PICK l \in Nat \ {0} : l = Len(stack)
      BY <2>1
    <3>2. l = 1
      BY <2>2, <3>1
    <3>3. QED
      BY <3>1, <3>2
  <2>4. stack = << stack[1] >>
    BY <2>1, <2>3, SeqEqual
  <2>5. QED
    BY <2>1, <2>3, <2>4
<1>3. stack' = << >> /\ DOMAIN stack' = {}
  <2>1. Front(stack) = << >>
    BY <1>2 DEF Front
  <2>2. QED
    BY <2>1 DEF Return
<1>4. /\ Waiting /\ AgreedTo /\ ViewInv /\ Ground /\ Aimed /\ Calls /\ mends \in BOOLEAN
      /\ phase \in TransferPhases
  BY DEF Steady
<1>5. Moves
  BY <1>4 DEF Calls
<1>6. /\ c.src \in PathsOnly /\ c.over \in BOOLEAN /\ Aims(c) /\ CallAgreed(c) /\ Unhaunted(c.src)
      /\ Front(c.dest) = job.destination /\ stack[1].src = c.src
      /\ \E k \in DOMAIN job.files : job.files[k] = c.src
      /\ c.step = "try"
  <2>1. c.src \in PathsOnly /\ c.over \in BOOLEAN /\ c.kind = "file" /\ c = Top /\ stack[1] = c
    BY <1>2 DEF FileFrame
  <2>2. QED
    BY <1>5, <2>1, TopFacts DEF Working, CallUnhaunted
<1>7. e \in Entry /\ e.src = c.src /\ e.over = c.over
  BY <1>1, <1>2, <1>6 DEF Entry
<1>8. Waits(e) /\ Holds(e) /\ Unhaunted(e.src)
  <2>1. Waits(e)
    BY <1>5, <1>6, <1>7 DEF Waits
  <2>2. Holds(e)
    <3>1. ASSUME c.over
          PROVE  /\ Place(c.src) \in DOMAIN disk /\ Agreed(c.src, Place(c.src))
                 /\ Last(c.src) \in Unwritable => mends
                 /\ ~IsPrefix(c.src, job.destination)
      <4>1. c.dest = Place(c.src)
        BY <1>6, <3>1 DEF Aims, OwnName, Place
      <4>2. QED
        BY <1>6, <3>1, <4>1 DEF Aims, CallAgreed
    <3>2. QED
      BY <1>7, <3>1 DEF Holds
  <2>3. QED
    BY <1>6, <1>7, <2>1, <2>2
<1>9. /\ fallbacks' \in Seq(Entry) /\ Len(fallbacks) \in Nat /\ DOMAIN fallbacks = 1 .. Len(fallbacks)
      /\ DOMAIN fallbacks' = 1 .. Len(fallbacks) + 1 /\ fallbacks'[Len(fallbacks) + 1] = e
      /\ \A i \in DOMAIN fallbacks : fallbacks'[i] = fallbacks[i]
  BY <1>1, <1>4, <1>7, AddedToList DEF Waiting
<1>10. \A i \in DOMAIN fallbacks' : (i \in DOMAIN fallbacks /\ fallbacks'[i] = fallbacks[i])
                                    \/ (i = Len(fallbacks) + 1 /\ fallbacks'[i] = e)
  BY <1>9
<1>11. Ground' /\ Calls' /\ Aimed'
  <2>1. Ground'
    BY <1>3, <1>4 DEF Ground, Removes, Tree
  <2>2. Calls'
    <3>1. stack' \in Seq(FileFrame \cup FolderFrame) /\ Len(stack') = 0
      BY <1>3, EmptySeq
    <3>2. QED
      BY <1>3, <1>5, <3>1 DEF Calls, Moves
  <2>3. Aimed'
    <3>1. Asking => \A p \in DOMAIN disk \ {<< >>} : Last(p) \in Unwritable => p \in DOMAIN before
      BY <1>4 DEF Aimed
    <3>2. QED
      BY <1>3, <3>1 DEF Aimed, Asking
  <2>4. QED
    BY <2>1, <2>2, <2>3
<1>12. Waiting'
  <2>1. \A x : Waits(x) => Waits(x)'
    BY DEF Waits, Moves
  <2>2. \A i \in DOMAIN fallbacks' : Waits(fallbacks'[i])
    BY <1>4, <1>8, <1>10 DEF Waiting
  <2>3. /\ \A i \in DOMAIN todo : todo[i].src # c.src
        /\ \A i \in DOMAIN fallbacks : fallbacks[i].src # c.src
    BY <1>4, <1>5, <1>6 DEF Waiting, Working
  <2>4. \A i \in DOMAIN fallbacks' : \A k \in DOMAIN fallbacks' \ {i} : fallbacks'[i].src # fallbacks'[k].src
    BY <1>4, <1>5, <1>7, <1>10, <2>3 DEF Waiting
  <2>5. \A i \in DOMAIN todo, k \in DOMAIN fallbacks' : todo[i].src # fallbacks'[k].src
    BY <1>4, <1>5, <1>7, <1>10, <2>3 DEF Waiting
  <2>6. /\ todo' = todo /\ stack' = << >> /\ todo \in Seq(Entry)
        /\ \A i \in DOMAIN todo : Waits(todo[i])
        /\ \A i \in DOMAIN todo : \A k \in DOMAIN todo \ {i} : todo[i].src # todo[k].src
    BY <1>3, <1>4, <1>5 DEF Waiting
  <2>7. (\A i \in DOMAIN todo : Waits(todo[i])') /\ (\A i \in DOMAIN fallbacks' : Waits(fallbacks[i])')
    BY <2>2, <2>6 DEF Waits, Moves
  <2>8. QED
    BY <1>9, <2>4, <2>5, <2>6, <2>7 DEF Waiting
<1>13. AgreedTo'
  <2>1. \A x : Holds(x) => PutOff(x)'
    BY <1>3 DEF Holds, PutOff, Place, Final, Agreed, Contents, Under
  <2>2. /\ \A i \in DOMAIN todo : Holds(todo[i])
        /\ \A i \in DOMAIN fallbacks' : Holds(fallbacks'[i])
    <3>1. phase \notin Over
      BY DEF Over
    <3>2. QED
      BY <1>4, <1>8, <1>10, <3>1 DEF AgreedTo, PutOff
  <2>3. (\A i \in DOMAIN todo : PutOff(todo[i])') /\ (\A i \in DOMAIN fallbacks' : PutOff(fallbacks[i])')
    <3>1. ASSUME NEW i \in DOMAIN todo
          PROVE  PutOff(todo[i])'
      <4>1. PICK x : x = todo[i]
        OBVIOUS
      <4>2. PutOff(x)' /\ todo' = todo
        BY <2>1, <2>2, <4>1
      <4>3. QED
        BY <4>1, <4>2
    <3>2. ASSUME NEW i \in DOMAIN fallbacks'
          PROVE  PutOff(fallbacks[i])'
      <4>1. PICK x : x = fallbacks'[i]
        OBVIOUS
      <4>2. PutOff(x)'
        BY <2>1, <2>2, <4>1
      <4>3. QED
        BY <4>1, <4>2
    <3>3. QED
      BY <3>1, <3>2
  <2>4. flags'["replaceAll"] => always'
    BY <1>4 DEF AgreedTo
  <2>5. QED
    BY <1>3, <2>3, <2>4 DEF AgreedTo
<1>14. ViewInv'
  <2>1. Ghosts' = Ghosts /\ \A p : Unhaunted(p) => Unhaunted(p)'
    BY DEF Ghosts, Unhaunted
  <2>2. ToldInv'
    BY <1>4, <2>1 DEF ViewInv, ToldInv, Moves
  <2>3. AsBefore'
    BY <1>4, <1>5 DEF ViewInv, AsBefore
  <2>4. /\ \A i \in DOMAIN todo : Unhaunted(todo[i].src)
        /\ \A i \in DOMAIN fallbacks' : Unhaunted(fallbacks'[i].src)
    BY <1>4, <1>5, <1>8, <1>10 DEF ViewInv
  <2>5. /\ \A i \in DOMAIN todo' : Unhaunted(todo[i].src)'
        /\ \A i \in DOMAIN fallbacks' : Unhaunted(fallbacks[i].src)'
    BY <2>1, <2>4 DEF Unhaunted
  <2>6. QED
    BY <1>3, <1>4, <2>2, <2>3, <2>5 DEF ViewInv
<1>15. Kept \subseteq Kept'
  BY DEF Kept, Trashed
<1>16. QED
  BY <1>4, <1>11, <1>12, <1>13, <1>14, <1>15 DEF Steady, TransferGoal

-----------------------------------------------------------------------------
\* Steps of the call on top that leave the disk alone.

LEMMA StackReturn ==
  ASSUME Hypotheses, Steady, Transfers, Working, NEW b \in BOOLEAN, Return(b)
  PROVE  ReturnsToCaller
<1>1. /\ stack \in Seq(FileFrame \cup FolderFrame) /\ stack # << >>
      /\ \A i \in 1 .. Len(stack) - 1 : stack[i] \in FolderFrame
  BY TopFacts DEF Working
<1>2. /\ stack' \in Seq(FileFrame \cup FolderFrame) /\ Len(stack') = Len(stack) - 1
      /\ \A i \in 1 .. Len(stack) - 1 :
            /\ stack'[i] \in FolderFrame
            /\ stack'[i].src = stack[i].src /\ stack'[i].dest = stack[i].dest
            /\ stack'[i].left = stack[i].left
  BY <1>1, Returning
<1>3. QED
  BY <1>2 DEF ReturnsToCaller, SameCallers

LEMMA StackContinue ==
  ASSUME Hypotheses, Steady, Transfers, Working, NEW d \in FileFrame \cup FolderFrame, Continue(d),
         d.src = Top.src, Front(d.dest) = Front(Top.dest), Asking => InTarget(job, d.dest),
         phase = "prepare" => d.kind = "file"
  PROVE  GoesOn(d)
<1>1. /\ stack \in Seq(FileFrame \cup FolderFrame) /\ stack # << >>
      /\ \A i \in 1 .. Len(stack) - 1 : stack[i] \in FolderFrame
  BY TopFacts DEF Working
<1>2. /\ stack' \in Seq(FileFrame \cup FolderFrame) /\ Len(stack') = Len(stack)
      /\ stack'[Len(stack)] = d
      /\ \A i \in 1 .. Len(stack) - 1 : stack'[i] = stack[i]
  BY <1>1, Continuing
<1>3. QED
  BY <1>1, <1>2 DEF GoesOn, SameCallers

LEMMA Untouched ==
  ASSUME Steady, UNCHANGED <<disk, known, trash>>, agreed \subseteq agreed'
  PROVE  Writes /\ Tells /\ Ghosts' = Ghosts /\ Kept \subseteq Kept'
<1>1. ViewInv
  BY DEF Steady
<1>2. Writes
  BY DEF Writes
<1>3. Ghosts' = Ghosts
  BY DEF Ghosts
<1>4. Tells
  BY <1>1, <1>3 DEF Tells, ViewInv, ToldInv
<1>5. Kept \subseteq Kept'
  BY DEF Kept, Trashed
<1>6. QED
  BY <1>2, <1>3, <1>4, <1>5

LEMMA QuietReturnGoal ==
  ASSUME Hypotheses, Steady, Transfers, Working, Beside, Answered, UNCHANGED <<disk, known, trash, fallbacks>>,
         NEW b \in BOOLEAN, Return(b)
  PROVE  TransferGoal
<1>1. agreed \subseteq agreed'
  BY DEF Answered
<1>2. Writes /\ Tells /\ Kept \subseteq Kept'
  BY <1>1, Untouched
<1>3. ReturnsToCaller
  BY StackReturn
<1>4. QED
  BY <1>2, <1>3, ReturnGoal

\* Who asks nothing, and who warns.
LEMMA AnsweredByAsked ==
  ASSUME Steady, UNCHANGED Asked \/ Warn \/ WarnOnce, mends' = mends
  PROVE  Answered /\ UNCHANGED <<agreed, always>>
<1>1. flags \in [Flag -> BOOLEAN] /\ (flags["replaceAll"] => always) /\ mends \in BOOLEAN
  BY DEF Steady, Ground, AgreedTo
<1>2. CASE UNCHANGED Asked
  BY <1>1, <1>2 DEF Asked, Answered
<1>3. CASE Warn \/ WarnOnce
  <2>1. /\ flags' \in [Flag -> BOOLEAN] /\ flags'["replaceAll"] = flags["replaceAll"]
        /\ agreed' = agreed /\ always' = always
    BY <1>1, <1>3, Warned
  <2>2. QED
    BY <1>1, <2>1 DEF Answered
<1>4. QED
  BY <1>2, <1>3

\* The call goes on as another with the disk as it was.
LEMMA QuietGoOn ==
  ASSUME Hypotheses, Steady, Transfers, Working, Beside, Answered, UNCHANGED <<disk, known, trash, fallbacks>>,
         NEW d \in FileFrame, GoesOn(d), Aims(d), CallAgreed(d)',
         Moves => Unhaunted(d.src),
         Len(stack) = 1 => \A e : InLists(e) /\ e.over => d.dest # Place(e.src)
  PROVE  TransferGoal
<1>1. agreed \subseteq agreed'
  BY DEF Answered
<1>2. Writes /\ Tells /\ Kept \subseteq Kept' /\ Ghosts' = Ghosts
  BY <1>1, Untouched
<1>3. d.kind = "file"
  BY DEF FileFrame
<1>4. Aims(d)'
  BY DEF Aims, OwnName, Asking, Beside
<1>5. Moves => CallUnhaunted(d)'
  BY <1>2, <1>3 DEF CallUnhaunted, Unhaunted
<1>6. QED
  BY <1>2, <1>3, <1>4, <1>5, GoOnGoal

LEMMA TopFile ==
  ASSUME Hypotheses, Steady, Transfers, Working, Top.kind = "file"
  PROVE  /\ Top \in FileFrame /\ Aims(Top) /\ CallAgreed(Top) /\ (Moves => Unhaunted(Top.src))
         /\ Top.src \in Paths \ {<< >>} /\ Top.dest \in Paths \ {<< >>}
         /\ Last(Top.src) \in Names /\ Final(Top.src) \in Names /\ Final(Top.src) \notin Unwritable
         /\ Front(Top.dest) \in Paths
         /\ Asking => InTarget(job, Top.dest)
         /\ Len(stack) = 1 => \A e : InLists(e) /\ e.over => Top.dest # Place(e.src)
<1>1. /\ Top \in FileFrame /\ Aims(Top) /\ CallAgreed(Top) /\ (Moves => Unhaunted(Top.src))
      /\ Top.src \in Paths \ {<< >>} /\ Top.dest \in Paths \ {<< >>}
      /\ Asking => InTarget(job, Top.dest)
      /\ Top = stack[Len(stack)]
  BY TopFacts DEF Working, PathsOnly, CallUnhaunted
<1>2. Last(Top.src) \in Names /\ Front(Top.dest) \in Paths
  BY <1>1, FrontOfPath
<1>3. Final(Top.src) \in Names /\ Final(Top.src) \notin Unwritable
  BY <1>2, JobFacts DEF Final, Steady
<1>4. ASSUME Len(stack) = 1, NEW e, InLists(e), e.over
      PROVE  Top.dest # Place(e.src)
  <2>1. AgreedTo /\ phase \notin Over
    BY DEF Steady, Working, Over
  <2>2. PutOff(e)
    BY <1>4, <2>1 DEF AgreedTo, InLists
  <2>3. QED
    BY <1>1, <1>4, <2>2 DEF PutOff, Working
<1>5. QED
  BY <1>1, <1>2, <1>3, <1>4

\* From the check to the try.
LEMMA TriesGoal ==
  ASSUME Hypotheses, Steady, Transfers, Working, Beside, UNCHANGED <<disk, known, trash, fallbacks, mends, Asked>>,
         Top.kind = "file", Continue([Top EXCEPT !.step = "try"]),
         ~IsPrefix(Top.src, Front(Top.dest)), phase = "transfer" => ~IsPrefix(Top.dest, Top.src)
  PROVE  TransferGoal
<1>1. PICK d : d = [Top EXCEPT !.step = "try"]
  OBVIOUS
<1>2. /\ Top \in FileFrame /\ Aims(Top) /\ CallAgreed(Top) /\ (Moves => Unhaunted(Top.src))
      /\ Asking => InTarget(job, Top.dest)
      /\ Len(stack) = 1 => \A e : InLists(e) /\ e.over => Top.dest # Place(e.src)
  BY TopFile
<1>3. d \in FileFrame /\ d.src = Top.src /\ d.dest = Top.dest /\ d.over = Top.over /\ d.step = "try"
      /\ d.kind = "file"
  BY <1>1, <1>2 DEF FileFrame
<1>4. GoesOn(d)
  BY <1>1, <1>2, <1>3, StackContinue
<1>5. Aims(d)
  BY <1>2, <1>3 DEF Aims, OwnName, Working
<1>6. CallAgreed(d)'
  BY <1>2, <1>3 DEF CallAgreed, Agreed, Contents, Under, Asked, Beside
<1>7. Answered
  BY AnsweredByAsked
<1>8. QED
  BY <1>2, <1>3, <1>4, <1>5, <1>6, <1>7, QuietGoOn

\* What is in the way is to be lost, and that is agreed to.
LEMMA ReplacesGoal ==
  ASSUME Hypotheses, Steady, Transfers, Working, Beside, Answered, UNCHANGED <<disk, known, trash, fallbacks, mends>>,
         Asking, Top.kind = "file", Top.step = "try", Top.dest \in DOMAIN disk,
         Continue([Top EXCEPT !.over = TRUE]),
         IsMerge(Top) \/ InTheWay(Top) \subseteq agreed'
  PROVE  TransferGoal
<1>1. PICK d : d = [Top EXCEPT !.over = TRUE]
  OBVIOUS
<1>2. /\ Top \in FileFrame /\ Aims(Top) /\ CallAgreed(Top) /\ (Moves => Unhaunted(Top.src))
      /\ Asking => InTarget(job, Top.dest)
      /\ Len(stack) = 1 => \A e : InLists(e) /\ e.over => Top.dest # Place(e.src)
  BY TopFile
<1>3. d \in FileFrame /\ d.src = Top.src /\ d.dest = Top.dest /\ d.over = TRUE /\ d.step = Top.step
      /\ d.kind = "file"
  BY <1>1, <1>2 DEF FileFrame
<1>4. GoesOn(d)
  BY <1>1, <1>2, <1>3, StackContinue
<1>5. Aims(d)
  BY <1>2, <1>3 DEF Aims, OwnName
<1>6. Agreed(d.src, d.dest)'
  <2>1. IsMerge(d) \/ Contents(d.dest) \ Contents(d.src) \subseteq agreed'
    BY <1>3 DEF InTheWay, IsMerge
  <2>2. QED
    BY <2>1 DEF IsMerge, IsFolder, Agreed, Contents, Under
<1>7. CallAgreed(d)'
  BY <1>2, <1>3, <1>6 DEF CallAgreed, Agreed, Contents, Under, Beside
<1>8. QED
  BY <1>2, <1>3, <1>4, <1>5, <1>7, QuietGoOn

\* Another name in the same folder, which is free.
LEMMA RenamesGoal ==
  ASSUME Hypotheses, Steady, Transfers, Working, Beside, UNCHANGED <<disk, known, trash, fallbacks, mends, Asked>>,
         Asking, Top.kind = "file", Top.step = "try", ~Top.over, NEW n \in NewNames, AnswersRename(Top, n)
  PROVE  TransferGoal
<1>1. PICK d : d = [Top EXCEPT !.dest = Append(Front(Top.dest), n)]
  OBVIOUS
<1>2. /\ Top \in FileFrame /\ Aims(Top) /\ (Moves => Unhaunted(Top.src))
      /\ Front(Top.dest) \in Paths
  BY TopFile
<1>3. n \in Names /\ n \in TargetNames(job)
  BY JobFacts DEF Steady
<1>4. Append(Front(Top.dest), n) \in PathsOnly /\ Front(Append(Front(Top.dest), n)) = Front(Top.dest)
      /\ Last(Append(Front(Top.dest), n)) = n
  BY <1>2, <1>3, AppendToPath DEF PathsOnly
<1>5. d \in FileFrame /\ d.src = Top.src /\ d.dest = Append(Front(Top.dest), n) /\ d.over = Top.over
      /\ d.step = Top.step /\ d.kind = "file"
  BY <1>1, <1>2, <1>4 DEF FileFrame
<1>6. d.dest \notin DOMAIN disk
  BY <1>5 DEF AnswersRename, Hypotheses
<1>7. InTarget(job, d.dest)
  BY <1>3, <1>4, <1>5, SiblingTarget
<1>8. GoesOn(d)
  <2>1. Continue(d)
    BY <1>1 DEF AnswersRename
  <2>2. QED
    BY <1>4, <1>5, <1>7, <2>1, StackContinue
<1>9. Aims(d)
  BY <1>2, <1>4, <1>5, <1>6 DEF Aims, OwnName
<1>10. CallAgreed(d)'
  BY <1>5, <1>6 DEF CallAgreed
<1>11. ASSUME NEW e, InLists(e), e.over
       PROVE  d.dest # Place(e.src)
  <2>1. AgreedTo /\ phase \notin Over
    BY DEF Steady, Working, Over
  <2>2. Place(e.src) \in DOMAIN disk
    BY <1>11, <2>1 DEF AgreedTo, InLists, PutOff, Holds
  <2>3. QED
    BY <1>6, <2>2
<1>12. Answered
  BY AnsweredByAsked
<1>13. QED
  BY <1>2, <1>5, <1>8, <1>9, <1>10, <1>11, <1>12, QuietGoOn

-----------------------------------------------------------------------------
\* What GIO answers, and where it may write.

LEMMA ResultFacts ==
  ASSUME Hypotheses, Steady, Transfers, Working, NEW noFallback \in BOOLEAN,
         NEW r \in Result(Top.src, Top.dest, Top.over, noFallback)
  PROVE  /\ r = "done" => /\ Top.src \in DOMAIN disk /\ Last(Top.dest) \notin Unwritable
                          /\ IsFolder(Top.src) => Moves /\ ~job.crossing
                          /\ Top.dest \in DOMAIN disk => Top.over /\ ~IsFolder(Top.dest)
         /\ r = "exists" => Top.dest \in DOMAIN disk /\ ~Top.over
         /\ r = "is_directory" => /\ Top.src \in DOMAIN disk /\ Top.dest \in DOMAIN disk /\ Top.over
                                  /\ IsFolder(Top.dest) /\ ~IsFolder(Top.src)
         /\ r = "would_merge" => IsFolder(Top.src) /\ IsFolder(Top.dest) /\ Top.over
         /\ r = "would_recurse" => /\ IsFolder(Top.src)
                                   /\ Top.dest \in DOMAIN disk => Top.over /\ ~IsFolder(Top.dest)
         /\ r = "invalid_filename" => Last(Top.dest) \in Unwritable
         /\ r \in {"done", "exists", "is_directory", "would_merge", "would_recurse", "invalid_filename",
                   "cancelled", "not_supported", "error"}
  BY DEF Result, IsFolder

LEMMA TargetFolder ==
  ASSUME Hypotheses, Steady, Transfers, Working
  PROVE  Front(Top.dest) \in DOMAIN disk /\ disk[Front(Top.dest)] = Folder
<1>1. /\ Len(stack) \in Nat \ {0} /\ DOMAIN stack = 1 .. Len(stack) /\ Top = stack[Len(stack)]
      /\ Front(stack[1].dest) = job.destination
      /\ \A i \in 1 .. Len(stack) - 1 : Walks(stack[i])
  BY TopFacts DEF Working
<1>2. CASE Len(stack) = 1
  BY <1>1, <1>2, JobFacts DEF Steady
<1>3. CASE Len(stack) # 1
  <2>1. PICK l \in Nat \ {0} : l = Len(stack)
    BY <1>1
  <2>2. l # 1
    BY <1>3, <2>1
  <2>3. l > 1 /\ l \in 1 .. l /\ l - 1 \in 1 .. l - 1
    BY <2>2
  <2>4. Front(stack[l].dest) = stack[l - 1].dest
    BY <1>1, <2>1, <2>3 DEF Steady, Calls
  <2>5. Walks(stack[l - 1])
    BY <1>1, <2>1, <2>3
  <2>6. QED
    BY <1>1, <2>1, <2>4, <2>5 DEF Walks
<1>4. QED
  BY <1>2, <1>3

\* What is to be overwritten is not around the file that takes its place.
LEMMA NotAround ==
  ASSUME Hypotheses, Steady, Transfers, Working, Top.kind = "file", Top.step = "try",
         Top.over \/ Top.dest \notin DOMAIN disk, Top.src \in DOMAIN disk
  PROVE  ~Comparable(Top.src, Top.dest)
<1>1. /\ Aims(Top) /\ Top.src \in Paths \ {<< >>} /\ Top.dest \in Paths \ {<< >>}
      /\ Asking => InTarget(job, Top.dest)
  BY TopFile
<1>2. ~IsPrefix(Top.src, Front(Top.dest))
  BY Acting DEF Acts, Working
<1>3. ~IsPrefix(Top.dest, Top.src)
  <2>1. CASE Top.dest \notin DOMAIN disk
    <3>1. Tree(disk)
      BY JobFacts DEF Steady
    <3>2. QED
      BY <1>1, <2>1, <3>1, PathsUp
  <2>2. CASE Top.over /\ phase = "transfer"
    BY <1>1, <2>2 DEF Aims, OwnName
  <2>3. CASE Top.over /\ phase = "prepare"
    <3>1. Moves /\ Asking
      BY <2>3 DEF Steady, Calls, Asking, Moves
    <3>2. Top = stack[1]
      <4>1. Len(stack) <= 1
        BY <2>3 DEF Steady, Calls
      <4>2. PICK l \in Nat \ {0} : l = Len(stack) /\ Top = stack[l]
        BY TopFacts DEF Working
      <4>3. l = 1
        BY <4>1, <4>2
      <4>4. QED
        BY <4>2, <4>3
    <3>3. PICK m \in DOMAIN job.files : job.files[m] = Top.src
      BY <3>2, TopFacts DEF Working
    <3>4. ~InTarget(job, Top.src)
      BY <3>1, <3>3 DEF Hypotheses, FilesApart, Steady, Ground, Moves
    <3>5. QED
      BY <1>1, <3>1, <3>4, TargetBelow DEF Steady
  <2>4. QED
    BY <2>1, <2>2, <2>3 DEF Working
<1>4. ~IsPrefix(Top.src, Top.dest)
  BY <1>1, <1>2, <1>3, FrontOfPath, PrefixReflexive
<1>5. QED
  BY <1>3, <1>4 DEF Comparable

\* What is lost at the place that is taken is kept elsewhere or was agreed to.
LEMMA LosesAgreed ==
  ASSUME Steady, Agreed(Top.src, Top.dest), Top.src \in DOMAIN disk, Top.dest \in DOMAIN disk,
         ~IsFolder(Top.src) \/ ~IsFolder(Top.dest), agreed \subseteq agreed',
         \A u \in Under(Top.src) : disk[u] \in Kept',
         NEW q \in Under(Top.dest)
  PROVE  disk[q] \in Kept'
<1>1. Contents(Top.dest) \ Contents(Top.src) \subseteq agreed
  BY DEF Agreed, IsFolder
<1>2. disk[q] = Folder \/ disk[q] \in Contents(Top.dest)
  BY DEF Contents
<1>3. CASE disk[q] = Folder
  BY <1>3 DEF Kept
<1>4. CASE disk[q] \in agreed
  BY <1>4 DEF Kept
<1>5. CASE disk[q] \in Contents(Top.src)
  <2>1. PICK u \in Under(Top.src) : disk[u] = disk[q]
    BY <1>5 DEF Contents
  <2>2. QED
    BY <2>1
<1>6. QED
  BY <1>1, <1>2, <1>3, <1>4, <1>5

\* A file is copied, or an empty folder is made for one that is.
LEMMA PutWrites ==
  ASSUME Hypotheses, Steady, Transfers, Working, Top.kind = "file", Top.step = "try",
         Top.src \in DOMAIN disk, Last(Top.dest) \notin Unwritable,
         Top.dest \in DOMAIN disk => Top.over /\ ~IsFolder(Top.dest),
         disk' = Put(Top.src, Top.dest), Added(Top.dest), trash' = trash, agreed \subseteq agreed'
  PROVE  /\ Writes /\ Tells /\ Ghosts' \subseteq Ghosts /\ Kept \subseteq Kept'
         /\ Top.dest \in DOMAIN disk' /\ disk'[Top.dest] = disk[Top.src]
         /\ Top.src \in DOMAIN disk' /\ disk'[Top.src] = disk[Top.src]
<1>1. /\ Top.src \in Paths /\ Top.dest \in Paths \ {<< >>} /\ Top.dest \in PathsOnly /\ CallAgreed(Top)
      /\ Tree(disk) /\ DOMAIN disk \subseteq Paths
  BY TopFile, JobFacts DEF Steady, PathsOnly
<1>2. ~Comparable(Top.src, Top.dest)
  BY NotAround
<1>3. PICK p \in PathsOnly : p = Top.dest
  BY <1>1
<1>4. PICK v : v = disk[Top.src]
  OBVIOUS
<1>5. /\ Tree(disk') /\ DOMAIN disk' = DOMAIN disk \cup {p} /\ disk'[p] = v
      /\ \A q \in DOMAIN disk \ {p} : disk'[q] = disk[q]
  <2>1. Front(p) \in DOMAIN disk /\ disk[Front(p)] = Folder
    BY <1>3, TargetFolder
  <2>2. p \in DOMAIN disk => disk[p] # Folder
    BY <1>3 DEF IsFolder
  <2>3. disk' = [q \in DOMAIN disk \cup {p} |-> IF q = p THEN v ELSE disk[q]]
    BY <1>3, <1>4 DEF Put
  <2>4. QED
    BY <1>1, <2>1, <2>2, <2>3, Putting
<1>6. IsPrefix(p, p)
  BY <1>1, <1>3, PrefixReflexive
<1>7. Writes
  BY <1>3, <1>5, <1>6 DEF Writes, Changed, Acts
<1>8. Tells /\ Ghosts' \subseteq Ghosts
  <2>1. known' = known \cup {p} /\ known \subseteq Paths /\ DOMAIN disk \subseteq known
    BY <1>3 DEF Added, Steady, ViewInv, ToldInv
  <2>2. QED
    BY <1>1, <1>3, <1>5, <2>1 DEF Tells, Ghosts
<1>9. Top.src \in DOMAIN disk' /\ disk'[Top.src] = disk[Top.src]
  BY <1>2, <1>3, <1>5, <1>6 DEF Comparable
<1>10. Kept \subseteq Kept'
  <2>1. ASSUME NEW q \in DOMAIN disk
        PROVE  disk[q] \in Kept'
    <3>1. CASE q # p
      BY <1>5, <2>1, <3>1 DEF Kept
    <3>2. CASE q = p
      <4>1. Agreed(Top.src, Top.dest) /\ Top.dest \in DOMAIN disk /\ ~IsFolder(Top.dest)
        BY <1>1, <1>3, <2>1, <3>2 DEF CallAgreed
      <4>2. \A u \in Under(Top.src) : disk[u] \in Kept'
        BY <1>2, <1>3, <1>5 DEF Under, Comparable, Kept
      <4>3. q \in Under(Top.dest)
        BY <1>3, <1>6, <2>1, <3>2 DEF Under
      <4>4. QED
        BY <4>1, <4>2, <4>3, LosesAgreed
    <3>3. QED
      BY <3>1, <3>2
  <2>2. QED
    BY <2>1, KeptStays
<1>11. QED
  BY <1>3, <1>4, <1>5, <1>7, <1>8, <1>9, <1>10

\* A file or a folder is moved, with all that is in it.
LEMMA CarryWrites ==
  ASSUME Hypotheses, Steady, Transfers, Working, Moves, Top.kind = "file", Top.step = "try",
         Top.src \in DOMAIN disk, Last(Top.dest) \notin Unwritable,
         IsFolder(Top.src) => ~job.crossing,
         Top.dest \in DOMAIN disk => Top.over /\ ~IsFolder(Top.dest),
         disk' = Carry(Top.src, Top.dest), Relocated(Top.src, Top.dest), trash' = trash,
         agreed \subseteq agreed'
  PROVE  Writes /\ Tells /\ Kept \subseteq Kept'
<1>1. /\ Top.src \in PathsOnly /\ Top.dest \in PathsOnly /\ CallAgreed(Top) /\ Unhaunted(Top.src)
      /\ Tree(disk) /\ DOMAIN disk \subseteq Paths
  BY TopFile, JobFacts DEF Steady, PathsOnly
<1>2. PICK s \in PathsOnly, p \in PathsOnly : s = Top.src /\ p = Top.dest
  BY <1>1
<1>3. s \in Paths /\ p \in Paths /\ s # << >> /\ p # << >> /\ s \in DOMAIN disk /\ Unhaunted(s)
  BY <1>1, <1>2 DEF PathsOnly
<1>4. /\ Changed(s, p)
      /\ DOMAIN disk' = (DOMAIN disk \ Under(s)) \cup {p \o Rest(s, q) : q \in Under(s)}
      /\ \A q \in Under(s) : p \o Rest(s, q) \in DOMAIN disk' /\ disk'[p \o Rest(s, q)] = disk[q]
      /\ \A q \in DOMAIN disk' : IsPrefix(p, q) =>
            /\ s \o Rest(p, q) \in Under(s)
            /\ q = p \o Rest(s, s \o Rest(p, q))
  <2>1. Front(p) \in DOMAIN disk /\ disk[Front(p)] = Folder
    BY <1>2, TargetFolder
  <2>2. ~IsPrefix(s, Front(p))
    BY <1>2, Acting DEF Acts, Working
  <2>3. p \in DOMAIN disk => disk[p] # Folder
    BY <1>2, <1>3 DEF IsFolder
  <2>4. disk' = Carry(s, p)
    BY <1>2
  <2>5. QED
    BY <1>1, <1>3, <2>1, <2>2, <2>3, <2>4, Carrying
<1>5. ASSUME Asking, NEW q \in DOMAIN disk' \ DOMAIN disk
      PROVE  Last(q) \notin Unwritable
  <2>1. IsPrefix(p, q) /\ q \in Paths
    BY <1>4, <1>5 DEF Changed, Tree
  <2>2. PICK r \in Paths : r = Rest(p, q) /\ p \o r = q
    BY <1>3, <2>1, RestOfPath
  <2>3. s \o r \in Under(s)
    BY <1>4, <2>1, <2>2
  <2>4. CASE r = << >>
    <3>1. q = p
      BY <1>3, <2>2, <2>4, ConcatEmptySeq DEF Paths
    <3>2. QED
      BY <1>2, <3>1
  <2>5. CASE r # << >>
    <3>0. Last(q) = Last(r)
      <4>1. Last(p \o r) = Last(r)
        BY <1>3, <2>5, ConcatenatedFront
      <4>2. QED
        BY <2>2, <4>1
    <3>1. Last(q) = Last(r) /\ Last(s \o r) = Last(r) /\ s \o r # << >> /\ s \o r # s
      <4>1. Last(s \o r) = Last(r) /\ s \o r # << >> /\ s \o r # s
        BY <1>3, <2>5, ConcatenatedFront
      <4>2. QED
        BY <3>0, <4>1
    <3>2. PICK u \in Paths : u = s \o r /\ u \in DOMAIN disk /\ IsPrefix(s, u) /\ u # s /\ u # << >>
      BY <1>1, <2>3, <3>1 DEF Under
    <3>3. disk[s] = Folder
      BY <1>1, <1>3, <3>2, PathsUp
    <3>4. ~job.crossing
      BY <1>2, <1>3, <3>3 DEF IsFolder
    <3>5. SUFFICES ASSUME Last(u) \in Unwritable
                   PROVE  FALSE
      BY <3>1, <3>2
    <3>6. u \in DOMAIN before
      BY <1>5, <3>2, <3>5 DEF Steady, Aimed
    <3>7. PICK m \in DOMAIN job.files : job.files[m] = stack[1].src
      BY TopFacts DEF Working
    <3>8. job.files[m] \in Paths /\ IsPrefix(job.files[m], s)
      BY <1>2, <3>7, TopFacts DEF Working, PathsOnly
    <3>9. IsPrefix(job.files[m], u)
      BY <1>3, <3>2, <3>8, PrefixTransitive
    <3>10. u = job.files[m]
      BY <3>4, <3>5, <3>6, <3>9 DEF Hypotheses, WritableTargets, Steady, Ground, Moves
    <3>11. QED
      BY <1>3, <3>2, <3>8, <3>10, PrefixAntisymmetric
  <2>6. QED
    BY <2>4, <2>5
<1>6. Writes
  BY <1>2, <1>4, <1>5 DEF Writes, Acts
<1>7. Tells
  <2>1. /\ known' = {q \in known : ~IsPrefix(s, q)} \cup {p \o Rest(s, q) : q \in {r \in known : IsPrefix(s, r)}}
        /\ known \subseteq Paths /\ DOMAIN disk \subseteq known
    BY <1>2 DEF Relocated, Steady, ViewInv, ToldInv
  <2>2. known' \subseteq Paths
    <3>1. ASSUME NEW q \in known, IsPrefix(s, q)
          PROVE  p \o Rest(s, q) \in Paths
      <4>1. Rest(s, q) \in Paths
        BY <1>3, <2>1, <3>1, RestOfPath
      <4>2. QED
        BY <1>3, <4>1, ConcatenatedPath
    <3>2. QED
      BY <2>1, <3>1
  <2>3. DOMAIN disk' \subseteq known'
    BY <1>4, <2>1 DEF Under
  <2>4. Ghosts' \subseteq Ghosts
    <3>1. ASSUME NEW g \in known', g \notin DOMAIN disk'
          PROVE  g \in Ghosts
      <4>1. CASE g \in known /\ ~IsPrefix(s, g)
        BY <1>4, <3>1, <4>1 DEF Under, Ghosts
      <4>2. CASE \E q \in known : IsPrefix(s, q) /\ g = p \o Rest(s, q)
        <5>1. PICK q \in known : IsPrefix(s, q) /\ g = p \o Rest(s, q)
          BY <4>2
        <5>2. q \in DOMAIN disk
          BY <1>3, <5>1 DEF Unhaunted, Ghosts
        <5>3. QED
          BY <1>4, <3>1, <5>1, <5>2 DEF Under
      <4>3. QED
        BY <2>1, <3>1, <4>1, <4>2
    <3>2. QED
      BY <3>1 DEF Ghosts
  <2>5. QED
    BY <2>2, <2>3, <2>4 DEF Tells
<1>8. Kept \subseteq Kept'
  <2>1. \A u \in Under(s) : disk[u] \in Kept'
    BY <1>4 DEF Kept
  <2>2. ASSUME NEW q \in DOMAIN disk
        PROVE  disk[q] \in Kept'
    <3>1. CASE q \in Under(s)
      BY <2>1, <3>1
    <3>2. CASE ~IsPrefix(p, q) /\ q \notin Under(s)
      BY <1>4, <2>2, <3>2 DEF Changed, Under, Kept
    <3>3. CASE IsPrefix(p, q)
      <4>1. p \in DOMAIN disk
        BY <1>1, <1>3, <3>3, PathsUp
      <4>2. Agreed(Top.src, Top.dest) /\ Top.dest \in DOMAIN disk /\ ~IsFolder(Top.dest)
        BY <1>1, <1>2, <4>1 DEF CallAgreed
      <4>3. q \in Under(Top.dest)
        BY <1>2, <3>3 DEF Under
      <4>4. \A u \in Under(Top.src) : disk[u] \in Kept'
        BY <1>2, <2>1
      <4>5. QED
        BY <4>2, <4>3, <4>4, LosesAgreed
    <3>4. QED
      BY <3>1, <3>2, <3>3
  <2>3. QED
    BY <2>2, KeptStays
<1>9. QED
  BY <1>6, <1>7, <1>8

-----------------------------------------------------------------------------
\* A name that is refused, a name that is taken.

\* The caller learns something, and the call goes on as d.
LEMMA Mending ==
  ASSUME NEW S, stack \in Seq(S \cup FolderFrame), stack # << >>,
         \A i \in 1 .. Len(stack) - 1 : stack[i] \in FolderFrame,
         NEW d \in S \cup FolderFrame,
         stack' = Append(IF Len(Front(stack)) = 0 THEN Front(stack)
                         ELSE [Front(stack) EXCEPT ![Len(Front(stack))].mends = TRUE], d)
  PROVE  /\ stack' \in Seq(S \cup FolderFrame) /\ Len(stack') = Len(stack)
         /\ stack'[Len(stack)] = d
         /\ \A i \in 1 .. Len(stack) - 1 :
               /\ stack'[i] \in FolderFrame
               /\ stack'[i].src = stack[i].src /\ stack'[i].dest = stack[i].dest
               /\ stack'[i].left = stack[i].left
<1>1. /\ Front(stack) \in Seq(S \cup FolderFrame) /\ Len(stack) \in Nat \ {0}
      /\ Len(Front(stack)) = Len(stack) - 1
      /\ \A i \in 1 .. Len(stack) - 1 : Front(stack)[i] = stack[i]
  BY FrontOfSeq
<1>2. PICK callers : callers = IF Len(Front(stack)) = 0 THEN Front(stack)
                               ELSE [Front(stack) EXCEPT ![Len(Front(stack))].mends = TRUE]
  OBVIOUS
<1>3. /\ callers \in Seq(S \cup FolderFrame) /\ Len(callers) = Len(stack) - 1
      /\ \A i \in 1 .. Len(stack) - 1 :
            /\ callers[i] \in FolderFrame
            /\ callers[i].src = stack[i].src /\ callers[i].dest = stack[i].dest
            /\ callers[i].left = stack[i].left
  <2>1. CASE Len(Front(stack)) = 0
    BY <1>1, <1>2, <2>1
  <2>2. CASE Len(Front(stack)) # 0
    <3> DEFINE n == Len(Front(stack))
               f == [stack[n] EXCEPT !.mends = TRUE]
    <3>1. n \in 1 .. Len(stack) - 1 /\ n \in Nat
      BY <1>1, <2>2
    <3>2. stack[n] \in FolderFrame
      BY <3>1
    <3>3. f \in FolderFrame /\ f.src = stack[n].src /\ f.dest = stack[n].dest /\ f.left = stack[n].left
      BY <3>2 DEF FolderFrame
    <3>4. callers = [Front(stack) EXCEPT ![n] = f]
      BY <1>1, <1>2, <2>2, <3>1
    <3> HIDE DEF f
    <3>5. /\ callers \in Seq(S \cup FolderFrame) /\ Len(callers) = Len(Front(stack))
          /\ \A i \in 1 .. Len(Front(stack)) : callers[i] = IF i = n THEN f ELSE Front(stack)[i]
      BY <1>1, <3>1, <3>3, <3>4, ExceptSeq
    <3>6. QED
      BY <1>1, <3>3, <3>5
  <2>3. QED
    BY <2>1, <2>2
<1>4. stack' = Append(callers, d)
  BY <1>2
<1>5. /\ stack' \in Seq(S \cup FolderFrame) /\ Len(stack') = Len(callers) + 1
      /\ \A i \in 1 .. Len(callers) : stack'[i] = callers[i]
      /\ stack'[Len(callers) + 1] = d
  <2>1. PICK R : R = S \cup FolderFrame
    OBVIOUS
  <2>2. callers \in Seq(R) /\ d \in R
    BY <1>3, <2>1
  <2>3. /\ Append(callers, d) \in Seq(R) /\ Len(Append(callers, d)) = Len(callers) + 1
        /\ \A i \in 1 .. Len(callers) : Append(callers, d)[i] = callers[i]
        /\ Append(callers, d)[Len(callers) + 1] = d
    BY <2>2, AppendProperties
  <2>4. QED
    BY <1>4, <2>1, <2>3
<1>6. QED
  <2>1. Len(callers) + 1 = Len(stack)
    BY <1>1, <1>3
  <2>2. stack' \in Seq(S \cup FolderFrame) /\ Len(stack') = Len(stack) /\ stack'[Len(stack)] = d
    BY <1>5, <2>1
  <2>3. \A i \in 1 .. Len(stack) - 1 : stack'[i] = callers[i]
    BY <1>3, <1>5
  <2>4. QED
    BY <1>3, <2>2, <2>3

\* Where the names of two files differ, so do their places.
LEMMA PlacesApart ==
  ASSUME Hypotheses, Steady, Transfers, Working, NEW e, InLists(e), e.over
  PROVE  Place(e.src) # Place(stack[1].src)
<1>1. e \in Entry /\ Waits(e)
  BY DEF InLists, Steady, Waiting, Waits
<1>2. Moves /\ e.src # stack[1].src
  <2>1. Moves
    BY <1>1 DEF Waits
  <2>2. stack # << >>
    BY DEF Working
  <2>3. QED
    BY <2>1, <2>2 DEF InLists, Steady, Waiting
<1>3. PICK k \in DOMAIN job.files, m \in DOMAIN job.files :
         job.files[k] = e.src /\ job.files[m] = stack[1].src
  BY <1>1, TopFacts DEF Waits, Working
<1>4. job \in Jobs /\ job.kind = "move" /\ k # m
  BY <1>2, <1>3 DEF Steady, Ground, Moves
<1>5. Final(job.files[k]) # Final(job.files[m])
  BY <1>4 DEF Hypotheses, NamesApart
<1>6. Final(job.files[k]) \in Names /\ Final(job.files[m]) \in Names /\ job.destination \in Paths
  BY JobFacts DEF Steady
<1>7. Append(job.destination, Final(job.files[k])) # Append(job.destination, Final(job.files[m]))
  BY <1>5, <1>6, AppendToPath
<1>8. QED
  BY <1>3, <1>7 DEF Place

\* The name is made valid, which it was not.
LEMMA MendsGoal ==
  ASSUME Hypotheses, Steady, Transfers, Working, Beside, UNCHANGED <<trash, fallbacks>>,
         Top.kind = "file", Top.step = "try", Mends(Top), Last(Top.dest) \in Unwritable
  PROVE  TransferGoal
<1>1. PICK d : d = [Top EXCEPT !.dest = Target(Top.src, Front(Top.dest), TRUE)]
  OBVIOUS
<1>2. /\ Top \in FileFrame /\ Aims(Top) /\ (Moves => Unhaunted(Top.src))
      /\ Last(Top.src) \in Names /\ Final(Top.src) \in Names /\ Final(Top.src) \notin Unwritable
      /\ Front(Top.dest) \in Paths
  BY TopFile
<1>3. Target(Top.src, Front(Top.dest), TRUE) = Append(Front(Top.dest), Final(Top.src))
  BY DEF Target, Final
<1>4. Append(Front(Top.dest), Final(Top.src)) \in PathsOnly
      /\ Front(Append(Front(Top.dest), Final(Top.src))) = Front(Top.dest)
      /\ Last(Append(Front(Top.dest), Final(Top.src))) = Final(Top.src)
  BY <1>2, AppendToPath DEF PathsOnly
<1>5. d \in FileFrame /\ d.src = Top.src /\ d.dest = Append(Front(Top.dest), Final(Top.src))
      /\ d.over = Top.over /\ d.step = Top.step /\ d.kind = "file"
  BY <1>1, <1>2, <1>3, <1>4 DEF FileFrame
<1>6. ~Top.over
  <2>1. ASSUME Top.over
        PROVE  FALSE
    <3>1. Top.dest = Append(Front(Top.dest), Final(Top.src))
      BY <1>2, <2>1 DEF Aims, OwnName
    <3>2. Last(Top.dest) = Final(Top.src)
      BY <1>4, <3>1
    <3>3. QED
      BY <1>2, <3>2
  <2>2. QED
    BY <2>1
<1>7. Len(stack) = 1 => Top = stack[1] /\ Last(d.dest) \in TargetNames(job) /\ d.dest = Place(d.src)
  <2>1. SUFFICES ASSUME Len(stack) = 1
                 PROVE  Top = stack[1] /\ Last(d.dest) \in TargetNames(job) /\ d.dest = Place(d.src)
    OBVIOUS
  <2>2. Top = stack[1] /\ Front(Top.dest) = job.destination
    BY <2>1, TopFacts DEF Working
  <2>3. PICK m \in DOMAIN job.files : job.files[m] = Top.src
    BY <2>2, TopFacts DEF Working
  <2>4. Final(Top.src) \in TargetNames(job)
    BY <2>3, JobFacts DEF Steady
  <2>5. QED
    BY <1>4, <1>5, <2>2, <2>4 DEF Place
<1>8. Asking => InTarget(job, d.dest)
  BY <1>4, <1>5, <1>7, SiblingTarget
<1>9. GoesOn(d)
  <2>1. /\ stack \in Seq(FileFrame \cup FolderFrame) /\ stack # << >>
        /\ \A i \in 1 .. Len(stack) - 1 : stack[i] \in FolderFrame
    BY TopFacts DEF Working
  <2>2. stack' = Append(IF Len(Front(stack)) = 0 THEN Front(stack)
                        ELSE [Front(stack) EXCEPT ![Len(Front(stack))].mends = TRUE], d)
    BY <1>1 DEF Mends
  <2>3. d \in FileFrame \cup FolderFrame
    BY <1>5
  <2>4. /\ stack' \in Seq(FileFrame \cup FolderFrame) /\ Len(stack') = Len(stack)
        /\ stack'[Len(stack)] = d
        /\ \A i \in 1 .. Len(stack) - 1 :
              /\ stack'[i] \in FolderFrame
              /\ stack'[i].src = stack[i].src /\ stack'[i].dest = stack[i].dest
              /\ stack'[i].left = stack[i].left
    BY <2>1, <2>2, <2>3, Mending
  <2>5. QED
    BY <1>4, <1>5, <1>8, <2>3, <2>4 DEF GoesOn, SameCallers
<1>10. Aims(d)
  BY <1>2, <1>4, <1>5, <1>6 DEF Aims, OwnName
<1>11. UNCHANGED <<disk, known, flags, agreed, always>> /\ mends' \in BOOLEAN /\ (mends => mends')
       /\ (Len(Front(stack)) = 0 => mends')
  <2>1. mends \in BOOLEAN
    BY DEF Steady
  <2>2. QED
    BY <2>1 DEF Mends, Told, Asked
<1>12. Answered
  BY <1>11 DEF Answered, Steady, Ground, AgreedTo
<1>13. CallAgreed(d)'
  <2>1. phase = "prepare" => mends'
    <3>1. phase = "prepare" => Len(stack) <= 1
      BY DEF Steady, Calls
    <3>2. Len(stack) \in Nat \ {0} /\ Len(Front(stack)) = Len(stack) - 1
      BY TopFacts, FrontOfSeq DEF Working
    <3>3. QED
      BY <1>11, <3>1, <3>2
  <2>2. phase' = phase /\ ~d.over
    BY <1>5, <1>6 DEF Beside
  <2>3. QED
    BY <2>1, <2>2 DEF CallAgreed
<1>14. ASSUME Len(stack) = 1, NEW e, InLists(e), e.over
       PROVE  d.dest # Place(e.src)
  BY <1>5, <1>7, <1>14, PlacesApart
<1>15. QED
  BY <1>2, <1>5, <1>9, <1>10, <1>11, <1>12, <1>13, <1>14, QuietGoOn

\* The user is asked, or has said what to do with all such names.
LEMMA ConflictGoal ==
  ASSUME Hypotheses, Steady, Transfers, Working, Beside, UNCHANGED <<disk, known, trash, fallbacks, mends>>,
         Asking, Top.kind = "file", Top.step = "try", Top.dest \in DOMAIN disk, ~Top.over, Conflict(Top)
  PROVE  TransferGoal
<1>1. flags \in [Flag -> BOOLEAN] /\ (flags["replaceAll"] => always) /\ mends \in BOOLEAN
  BY DEF Steady, Ground, AgreedTo
<1>2. {"aborted", "skipConflicts", "mergeAll", "replaceAll"} \subseteq Flag
  BY DEF Flag
<1>3. CASE Overwrites(Top)
  <2>1. Continue([Top EXCEPT !.over = TRUE])
    BY <1>3 DEF Overwrites
  <2>2. agreed \subseteq agreed'
    BY <1>3 DEF Overwrites
  <2>3. flags' = flags /\ always' = always
    BY <1>3 DEF Overwrites
  <2>4. IsMerge(Top) \/ InTheWay(Top) \subseteq agreed'
    BY <1>1, <1>3 DEF Overwrites
  <2>5. Answered
    BY <1>1, <2>2, <2>3 DEF Answered
  <2>6. QED
    BY <2>1, <2>4, <2>5, ReplacesGoal
<1>4. CASE Return(TRUE) /\ UNCHANGED Asked
  <2>1. Answered
    BY <1>4, AnsweredByAsked
  <2>2. QED
    BY <1>4, <2>1, QuietReturnGoal
<1>5. CASE AnswersCancel
  <2>1. Return(TRUE) /\ flags' = [flags EXCEPT !["aborted"] = TRUE] /\ UNCHANGED <<agreed, always>>
    BY <1>5 DEF AnswersCancel
  <2>2. Answered
    BY <1>1, <1>2, <2>1 DEF Answered
  <2>3. QED
    BY <2>1, <2>2, QuietReturnGoal
<1>6. ASSUME NEW all \in BOOLEAN, AnswersSkip(all)
      PROVE  TransferGoal
  <2>1. Return(TRUE) /\ flags' = [flags EXCEPT !["skipConflicts"] = all] /\ UNCHANGED <<agreed, always>>
    BY <1>6 DEF AnswersSkip
  <2>2. Answered
    BY <1>1, <1>2, <2>1 DEF Answered
  <2>3. QED
    BY <2>1, <2>2, QuietReturnGoal
<1>7. ASSUME NEW all \in BOOLEAN, AnswersReplace(Top, all)
      PROVE  TransferGoal
  <2>1. /\ Continue([Top EXCEPT !.over = TRUE]) /\ agreed' = agreed \cup InTheWay(Top)
        /\ always' = (always \/ (all /\ ~IsMerge(Top)))
        /\ flags' = IF all THEN [flags EXCEPT ![IF IsMerge(Top) THEN "mergeAll" ELSE "replaceAll"] = TRUE]
                    ELSE flags
    BY <1>7 DEF AnswersReplace
  <2>2. flags' \in [Flag -> BOOLEAN]
    BY <1>1, <1>2, <2>1
  <2>3. flags'["replaceAll"] => always'
    <3>1. CASE all /\ ~IsMerge(Top)
      BY <2>1, <3>1
    <3>2. CASE ~all \/ IsMerge(Top)
      BY <1>1, <1>2, <2>1, <3>2
    <3>3. QED
      BY <3>1, <3>2
  <2>4. Answered
    BY <1>1, <2>1, <2>2, <2>3 DEF Answered
  <2>5. QED
    BY <2>1, <2>4, ReplacesGoal
<1>8. ASSUME NEW n \in NewNames, AnswersRename(Top, n)
      PROVE  TransferGoal
  <2>1. UNCHANGED Asked
    BY <1>8 DEF AnswersRename
  <2>2. QED
    BY <1>8, <2>1, RenamesGoal
<1>9. QED
  BY <1>3, <1>4, <1>5, <1>6, <1>7, <1>8 DEF Conflict

\* The next number for a duplicate.
LEMMA NextNameGoal ==
  ASSUME Hypotheses, Steady, Transfers, Working, Beside, UNCHANGED <<trash, fallbacks>>,
         ~Asking, Top.kind = "file", Top.step = "try", NextName(Top), phase = "transfer"
  PROVE  TransferGoal
<1>1. PICK d : d = [Top EXCEPT !.dest = Unique(Top.src, Front(Top.dest), Top.nr), !.nr = @ + 1]
  OBVIOUS
<1>2. /\ Top \in FileFrame /\ Aims(Top) /\ Last(Top.src) \in Names /\ Front(Top.dest) \in Paths
  BY TopFile
<1>3. /\ Unique(Top.src, Front(Top.dest), Top.nr) \in PathsOnly
      /\ Front(Unique(Top.src, Front(Top.dest), Top.nr)) = Front(Top.dest)
  <2>1. PICK n : n = <<Last(Top.src)[1], Last(Top.src)[2] + Top.nr>>
    OBVIOUS
  <2>2. n \in Names
    BY <1>2, <2>1 DEF Names, FileFrame
  <2>3. Append(Front(Top.dest), n) \in PathsOnly /\ Front(Append(Front(Top.dest), n)) = Front(Top.dest)
    BY <1>2, <2>2, AppendToPath DEF PathsOnly
  <2>4. QED
    BY <2>1, <2>3 DEF Unique
<1>4. d \in FileFrame /\ d.src = Top.src /\ d.dest = Unique(Top.src, Front(Top.dest), Top.nr)
      /\ d.over = Top.over /\ d.step = Top.step /\ d.kind = "file"
  <2>1. PICK u \in PathsOnly : u = Unique(Top.src, Front(Top.dest), Top.nr)
    BY <1>3
  <2>2. Top.nr + 1 \in Nat
    BY <1>2 DEF FileFrame
  <2>3. d = [[Top EXCEPT !.dest = u] EXCEPT !.nr = Top.nr + 1]
    BY <1>1, <1>2, <2>1 DEF FileFrame
  <2>4. QED
    BY <1>2, <2>1, <2>2, <2>3 DEF FileFrame
<1>5. GoesOn(d)
  <2>1. Continue(d)
    BY <1>1 DEF NextName
  <2>2. QED
    BY <1>3, <1>4, <2>1, StackContinue
<1>6. ~Moves /\ ~d.over /\ UNCHANGED <<disk, known, mends, Asked>>
  BY <1>2, <1>4 DEF Aims, Asking, Moves, NextName, Told, Asked
<1>7. Aims(d)
  BY <1>2, <1>3, <1>4, <1>6 DEF Aims
<1>8. CallAgreed(d)'
  BY <1>6 DEF CallAgreed, Beside
<1>9. Answered
  BY <1>6, AnsweredByAsked
<1>10. \A e : InLists(e) => ~e.over
  BY <1>6 DEF InLists, Steady, Waiting, Waits
<1>11. QED
  BY <1>4, <1>5, <1>6, <1>7, <1>8, <1>9, <1>10, QuietGoOn

-----------------------------------------------------------------------------
\* Steps of the call on top that write.

LEMMA FailsGoal ==
  ASSUME Hypotheses, Steady, Transfers, Working, Beside, UNCHANGED <<trash, fallbacks>>,
         Return(TRUE), UNCHANGED Asked \/ Warn \/ WarnOnce, UNCHANGED <<disk, mends, Told>>
  PROVE  TransferGoal
<1>1. UNCHANGED <<disk, known, mends>>
  BY DEF Told
<1>2. Answered
  BY <1>1, AnsweredByAsked
<1>3. QED
  BY <1>1, <1>2, QuietReturnGoal

LEMMA TransferredGoal ==
  ASSUME Hypotheses, Steady, Transfers, Working, Beside, UNCHANGED <<trash, fallbacks>>,
         Top.kind = "file", Top.step = "try", Transferred(Top),
         Top.src \in DOMAIN disk, Last(Top.dest) \notin Unwritable,
         IsFolder(Top.src) => Moves /\ ~job.crossing,
         Top.dest \in DOMAIN disk => Top.over /\ ~IsFolder(Top.dest)
  PROVE  TransferGoal
<1>1. Return(FALSE) /\ UNCHANGED mends /\ UNCHANGED Asked
  BY DEF Transferred
<1>2. Answered /\ agreed \subseteq agreed'
  BY <1>1, AnsweredByAsked
<1>3. ReturnsToCaller
  BY <1>1, StackReturn
<1>4. Writes /\ Tells /\ Kept \subseteq Kept'
  <2>1. CASE Moves
    <3>1. disk' = Carry(Top.src, Top.dest) /\ Relocated(Top.src, Top.dest)
      BY <2>1 DEF Transferred
    <3>2. IsFolder(Top.src) => ~job.crossing
      OBVIOUS
    <3>3. QED
      BY <1>2, <2>1, <3>1, <3>2, CarryWrites
  <2>2. CASE ~Moves
    <3>1. disk' = Put(Top.src, Top.dest) /\ Added(Top.dest)
      BY <2>2 DEF Transferred
    <3>2. QED
      BY <1>2, <3>1, PutWrites
  <2>3. QED
    BY <2>1, <2>2
<1>5. QED
  BY <1>2, <1>3, <1>4, ReturnGoal

\* What is in the way is removed, or some of it.
LEMMA ClearingWrites ==
  ASSUME Hypotheses, Steady, Transfers, Working, Top.kind = "file", Top.step = "try",
         Top.over, Top.src \in DOMAIN disk, Top.dest \in DOMAIN disk,
         ~IsFolder(Top.src) \/ ~IsFolder(Top.dest),
         NEW rs \in SUBSET Under(Top.dest), \A r \in rs : Under(r) \subseteq rs,
         disk' = Without(rs), Removed(rs), trash' = trash, agreed \subseteq agreed'
  PROVE  /\ Writes /\ Tells /\ Ghosts' \subseteq Ghosts /\ Kept \subseteq Kept'
         /\ DOMAIN disk' = DOMAIN disk \ rs
<1>1. /\ Top.src \in Paths /\ Top.dest \in Paths \ {<< >>} /\ CallAgreed(Top)
      /\ Tree(disk) /\ DOMAIN disk \subseteq Paths
  BY TopFile, JobFacts DEF Steady
<1>2. ~Comparable(Top.src, Top.dest)
  BY NotAround
<1>3. PICK p, s : p = Top.dest /\ s = Top.src
  OBVIOUS
<1>4. rs \subseteq DOMAIN disk /\ (\A q \in rs : IsPrefix(p, q))
  BY <1>3 DEF Under
<1>5. << >> \notin rs
  <2>1. ~IsPrefix(p, << >>)
    BY <1>1, <1>3, PrefixReflexive, PrefixAntisymmetric
  <2>2. QED
    BY <1>4, <2>1
<1>6. /\ Tree(disk') /\ DOMAIN disk' = DOMAIN disk \ rs
      /\ \A q \in DOMAIN disk \ rs : disk'[q] = disk[q]
  BY <1>1, <1>4, <1>5, Taking
<1>7. Writes
  BY <1>3, <1>4, <1>6 DEF Writes, Changed, Acts
<1>8. known' = known \ rs /\ known \subseteq Paths /\ DOMAIN disk \subseteq known
  BY DEF Removed, Steady, ViewInv, ToldInv
<1>9. Tells /\ Ghosts' \subseteq Ghosts
  BY <1>6, <1>8 DEF Tells, Ghosts
<1>10. \A u \in Under(Top.src) : disk[u] \in Kept'
  <2>1. ASSUME NEW u \in DOMAIN disk, IsPrefix(s, u)
        PROVE  disk[u] \in Kept'
    <3>1. u \notin rs
      BY <1>1, <1>2, <1>3, <1>4, <2>1, PrefixesCompare DEF Comparable
    <3>2. QED
      BY <1>6, <2>1, <3>1 DEF Kept
  <2>2. QED
    BY <1>3, <2>1 DEF Under
<1>11. Kept \subseteq Kept'
  <2>1. ASSUME NEW q \in DOMAIN disk
        PROVE  disk[q] \in Kept'
    <3>1. CASE q \notin rs
      BY <1>6, <2>1, <3>1 DEF Kept
    <3>2. CASE q \in rs
      <4>1. Agreed(Top.src, Top.dest)
        BY <1>1 DEF CallAgreed
      <4>2. q \in Under(Top.dest)
        BY <3>2
      <4>3. QED
        BY <1>10, <4>1, <4>2, LosesAgreed
    <3>3. QED
      BY <3>1, <3>2
  <2>2. QED
    BY <2>1, KeptStays
<1>12. QED
  BY <1>6, <1>7, <1>9, <1>11

\* The call goes on as it was: nothing is in its way any more.
LEMMA ClearedGoal ==
  ASSUME Hypotheses, Steady, Transfers, Working, Beside, UNCHANGED <<trash, fallbacks, mends, Asked>>,
         Top.kind = "file", Top.step = "try", phase = "transfer", Continue(Top),
         Writes, Tells, Ghosts' \subseteq Ghosts, Kept \subseteq Kept', Top.dest \notin DOMAIN disk'
  PROVE  TransferGoal
<1>1. PICK d : d = Top
  OBVIOUS
<1>2. /\ d \in FileFrame /\ Aims(d) /\ (Moves => Unhaunted(d.src))
      /\ Asking => InTarget(job, d.dest)
      /\ Len(stack) = 1 => \A e : InLists(e) /\ e.over => d.dest # Place(e.src)
  BY <1>1, TopFile
<1>3. d.kind = "file" /\ d.dest \notin DOMAIN disk'
  BY <1>1
<1>4. GoesOn(d)
  <2>1. Continue(d) /\ d.src = Top.src /\ Front(d.dest) = Front(Top.dest) /\ d \in FileFrame \cup FolderFrame
    BY <1>1, <1>2
  <2>2. QED
    BY <1>2, <1>3, <2>1, StackContinue
<1>5. Aims(d)'
  BY <1>2, <1>3 DEF Aims, OwnName, Asking, Beside
<1>6. CallAgreed(d)'
  BY <1>3 DEF CallAgreed, Agreed, Beside
<1>7. Moves => CallUnhaunted(d)'
  BY <1>2, <1>3 DEF CallUnhaunted, Unhaunted
<1>8. Answered
  BY AnsweredByAsked DEF Asked
<1>9. QED
  BY <1>2, <1>3, <1>4, <1>5, <1>6, <1>7, <1>8, GoOnGoal

LEMMA ClearsGoal ==
  ASSUME Hypotheses, Steady, Transfers, Working, Beside, UNCHANGED <<trash, fallbacks>>,
         Top.kind = "file", Top.step = "try", phase = "transfer", Clears(Top),
         Top.over, Top.src \in DOMAIN disk, Top.dest \in DOMAIN disk, ~IsFolder(Top.src)
  PROVE  TransferGoal
<1>1. PICK rs \in {Under(Top.dest)} \cup (IF "error" \in Uses THEN Removable(Top.dest) ELSE {}) :
         /\ disk' = Without(rs) /\ Removed(rs)
         /\ IF Top.dest \in rs THEN Continue(Top) /\ UNCHANGED Asked ELSE Return(TRUE) /\ Warn
  BY DEF Clears
<1>2. mends' = mends
  BY DEF Clears
<1>3. rs \in SUBSET Under(Top.dest) /\ \A r \in rs : Under(r) \subseteq rs
  <2>1. CASE rs = Under(Top.dest)
    <3>1. Top.dest \in Paths /\ DOMAIN disk \subseteq Paths
      BY TopFile, JobFacts DEF Steady
    <3>2. QED
      BY <2>1, <3>1, PrefixTransitive DEF Under
  <2>2. CASE rs \in Removable(Top.dest)
    BY <2>2 DEF Removable
  <2>3. QED
    BY <1>1, <2>1, <2>2
<1>4. UNCHANGED Asked \/ Warn
  BY <1>1
<1>5. Answered /\ agreed \subseteq agreed'
  BY <1>2, <1>4, AnsweredByAsked
<1>6. /\ Writes /\ Tells /\ Ghosts' \subseteq Ghosts /\ Kept \subseteq Kept'
      /\ DOMAIN disk' = DOMAIN disk \ rs
  BY <1>1, <1>3, <1>5, ClearingWrites
<1>7. CASE Top.dest \in rs
  <2>1. Continue(Top) /\ UNCHANGED Asked /\ Top.dest \notin DOMAIN disk'
    BY <1>1, <1>6, <1>7
  <2>2. QED
    BY <1>2, <1>6, <2>1, ClearedGoal DEF Asked
<1>8. CASE Top.dest \notin rs
  <2>1. ReturnsToCaller
    BY <1>1, <1>8, StackReturn
  <2>2. QED
    BY <1>5, <1>6, <2>1, ReturnGoal
<1>9. QED
  BY <1>7, <1>8

LEMMA MakesRoomGoal ==
  ASSUME Hypotheses, Steady, Transfers, Working, Beside, UNCHANGED <<trash, fallbacks>>,
         Top.kind = "file", Top.step = "try", phase = "transfer", MakesRoom(Top),
         Top.over, Top.src \in DOMAIN disk, Top.dest \in DOMAIN disk, ~IsFolder(Top.dest)
  PROVE  TransferGoal
<1>1. PICK rs : rs = {Top.dest}
  OBVIOUS
<1>2. disk' = Without(rs) /\ Removed(rs) /\ Continue(Top) /\ mends' = mends /\ UNCHANGED Asked
  BY <1>1 DEF MakesRoom
<1>3. rs \in SUBSET Under(Top.dest) /\ \A r \in rs : Under(r) \subseteq rs
  <2>1. Top.dest \in Paths /\ Tree(disk)
    BY TopFile, JobFacts DEF Steady
  <2>2. IsPrefix(Top.dest, Top.dest)
    BY <2>1, PrefixReflexive
  <2>3. ASSUME NEW q \in Under(Top.dest)
        PROVE  q = Top.dest
    BY <2>1, <2>3, PathsUp DEF Under, IsFolder
  <2>4. QED
    BY <1>1, <2>2, <2>3 DEF Under
<1>4. agreed \subseteq agreed'
  BY <1>2 DEF Asked
<1>5. /\ Writes /\ Tells /\ Ghosts' \subseteq Ghosts /\ Kept \subseteq Kept'
      /\ DOMAIN disk' = DOMAIN disk \ rs
  BY <1>2, <1>3, <1>4, ClearingWrites
<1>6. Top.dest \notin DOMAIN disk'
  BY <1>1, <1>5
<1>7. QED
  BY <1>2, <1>5, <1>6, ClearedGoal DEF Asked

\* The call becomes that of a folder.
LEMMA ListsGoal ==
  ASSUME Hypotheses, Steady, Transfers, Working, Beside, UNCHANGED <<trash, fallbacks, mends>>,
         Top.kind = "file", phase = "transfer", Lists(Top),
         Writes, Tells, Ghosts' \subseteq Ghosts, Kept \subseteq Kept', ~Comparable(Top.src, Top.dest),
         Top.src \in DOMAIN disk', disk'[Top.src] = Folder,
         Top.dest \in DOMAIN disk', disk'[Top.dest] = Folder
  PROVE  TransferGoal
<1>1. /\ Top \in FileFrame /\ (Moves => Unhaunted(Top.src))
      /\ Top.src \in PathsOnly /\ Top.dest \in PathsOnly
      /\ Asking => InTarget(job, Top.dest)
      /\ Len(stack) = 1 => \A e : InLists(e) /\ e.over => Top.dest # Place(e.src)
  BY TopFile DEF PathsOnly
<1>2. PICK left \in SUBSET Names, skipped \in BOOLEAN :
         Continue(FolderCall(Top.src, Top.dest, left, skipped))
  <2>1. Children(Top.src) \in SUBSET Names
    BY <1>1, JobFacts, ChildrenNamed DEF Steady, PathsOnly
  <2>2. QED
    BY <2>1 DEF Lists
<1>3. PICK d : d = FolderCall(Top.src, Top.dest, left, skipped)
  OBVIOUS
<1>4. /\ d \in FolderFrame /\ d.kind = "folder" /\ d.src = Top.src /\ d.dest = Top.dest
      /\ d.left = left
  BY <1>1, <1>3 DEF FolderCall, FolderFrame
<1>5. UNCHANGED Asked \/ WarnOnce
  BY DEF Lists
<1>6. Answered
  BY <1>5, AnsweredByAsked
<1>7. GoesOn(d)
  <2>1. d \in FileFrame \cup FolderFrame /\ Continue(d)
    BY <1>2, <1>3, <1>4
  <2>2. QED
    BY <1>1, <1>4, <2>1, StackContinue
<1>8. Walks(d)'
  BY <1>4 DEF Walks
<1>9. Moves => CallUnhaunted(d)'
  <2>1. SUFFICES ASSUME Moves
                 PROVE  CallUnhaunted(d)'
    OBVIOUS
  <2>2. ASSUME NEW n \in d.left, NEW q \in Ghosts'
        PROVE  ~IsPrefix(Append(d.src, n), q)
    <3>1. q \in Ghosts /\ q \in Paths
      BY <2>2 DEF Ghosts, Steady, ViewInv
    <3>2. ~IsPrefix(d.src, q)
      BY <1>1, <1>4, <2>1, <3>1 DEF Unhaunted
    <3>3. d.src \in Paths /\ n \in Names
      BY <1>1, <1>4, <2>2 DEF PathsOnly
    <3>4. Append(d.src, n) \in Paths /\ IsPrefix(d.src, Append(d.src, n))
      BY <3>3, AppendToPath
    <3>5. QED
      BY <3>1, <3>2, <3>3, <3>4, PrefixTransitive
  <2>3. QED
    BY <1>4, <2>2 DEF CallUnhaunted, Unhaunted
<1>10. Len(stack) = 1 => \A e : InLists(e) /\ e.over => d.dest # Place(e.src)
  BY <1>1, <1>4
<1>11. d.kind # "file"
  BY <1>4
<1>12. QED
  BY <1>6, <1>7, <1>8, <1>9, <1>10, <1>11, GoOnGoal

\* A folder is merged with one that is there.
LEMMA MergesGoal ==
  ASSUME Hypotheses, Steady, Transfers, Working, Beside, UNCHANGED <<trash, fallbacks>>,
         Top.kind = "file", Top.step = "try", phase = "transfer", Merges(Top),
         Top.over, IsFolder(Top.src), IsFolder(Top.dest)
  PROVE  TransferGoal
<1>1. Lists(Top) /\ UNCHANGED <<disk, mends, known>>
  BY DEF Merges, Told
<1>2. UNCHANGED Asked \/ WarnOnce
  BY <1>1 DEF Lists
<1>3. agreed \subseteq agreed'
  BY <1>1, <1>2, AnsweredByAsked
<1>4. Writes /\ Tells /\ Ghosts' \subseteq Ghosts /\ Kept \subseteq Kept'
  BY <1>1, <1>3, Untouched
<1>5. ~Comparable(Top.src, Top.dest)
  BY NotAround DEF IsFolder
<1>6. /\ Top.src \in DOMAIN disk' /\ disk'[Top.src] = Folder
      /\ Top.dest \in DOMAIN disk' /\ disk'[Top.dest] = Folder
  BY <1>1 DEF IsFolder
<1>7. QED
  BY <1>1, <1>4, <1>5, <1>6, ListsGoal

\* A folder is made, to be filled.
LEMMA MakesGoal ==
  ASSUME Hypotheses, Steady, Transfers, Working, Beside, UNCHANGED <<trash, fallbacks>>,
         Top.kind = "file", Top.step = "try", phase = "transfer", Makes(Top),
         IsFolder(Top.src), Top.dest \notin DOMAIN disk
  PROVE  TransferGoal
<1>1. /\ Last(Top.dest) \notin Unwritable /\ disk' = Put(Top.src, Top.dest)
      /\ Added(Top.dest) /\ Lists(Top) /\ mends' = mends
  BY DEF Makes
<1>2. UNCHANGED Asked \/ WarnOnce
  BY <1>1 DEF Lists
<1>3. agreed \subseteq agreed'
  BY <1>1, <1>2, AnsweredByAsked
<1>4. Top.src \in DOMAIN disk /\ disk[Top.src] = Folder
  BY DEF IsFolder
<1>5. /\ Writes /\ Tells /\ Ghosts' \subseteq Ghosts /\ Kept \subseteq Kept'
      /\ Top.dest \in DOMAIN disk' /\ disk'[Top.dest] = disk[Top.src]
      /\ Top.src \in DOMAIN disk' /\ disk'[Top.src] = disk[Top.src]
  BY <1>1, <1>3, <1>4, PutWrites
<1>6. ~Comparable(Top.src, Top.dest)
  BY <1>4, NotAround
<1>7. QED
  BY <1>1, <1>4, <1>5, <1>6, ListsGoal

LEMMA RecursesGoal ==
  ASSUME Hypotheses, Steady, Transfers, Working, Beside, UNCHANGED <<trash, fallbacks>>,
         Top.kind = "file", Top.step = "try", phase = "transfer", Recurses(Top),
         IsFolder(Top.src), Top.dest \in DOMAIN disk => Top.over /\ ~IsFolder(Top.dest)
  PROVE  TransferGoal
<1>1. CASE Top.dest \in DOMAIN disk /\ MakesRoom(Top)
  BY <1>1, MakesRoomGoal DEF IsFolder
<1>2. CASE Fails
  BY <1>2, FailsGoal DEF Fails
<1>3. CASE Top.dest \notin DOMAIN disk /\ Makes(Top)
  BY <1>3, MakesGoal
<1>4. CASE Last(Top.dest) \in Unwritable /\ Mends(Top)
  BY <1>4, MendsGoal
<1>5. CASE CannotMake(Top)
  BY <1>5, FailsGoal DEF CannotMake
<1>6. QED
  BY <1>1, <1>2, <1>3, <1>4, <1>5 DEF Recurses

-----------------------------------------------------------------------------
\* copy_move_file and move_file_prepare.

LEMMA CheckStep ==
  ASSUME Hypotheses, Steady, Transfers, Working, Beside, UNCHANGED <<trash, fallbacks>>,
         Top.kind = "file", phase = "transfer", Check
  PROVE  TransferGoal
<1>1. UNCHANGED <<disk, mends, Told>> /\ UNCHANGED known
  BY DEF Check, Told
<1>2. CASE Return(TRUE) /\ (UNCHANGED Asked \/ Warn)
  BY <1>1, <1>2, FailsGoal
<1>3. CASE /\ Continue([Top EXCEPT !.step = "try"]) /\ UNCHANGED Asked
           /\ ~IsPrefix(Top.src, Front(Top.dest)) /\ ~IsPrefix(Top.dest, Top.src)
  BY <1>1, <1>3, TriesGoal
<1>4. QED
  BY <1>2, <1>3 DEF Check

LEMMA TryStep ==
  ASSUME Hypotheses, Steady, Transfers, Working, Beside, UNCHANGED <<trash, fallbacks>>,
         Top.kind = "file", phase = "transfer", Try
  PROVE  TransferGoal
<1>1. Top.step = "try"
  BY DEF Try
<1>2. PICK r \in Result(Top.src, Top.dest, Top.over, FALSE) :
         CASE r = "done" -> Transferred(Top)
           [] r = "exists" /\ job.kind = "duplicate" -> NextName(Top)
           [] r = "exists" /\ job.kind # "duplicate" -> Conflict(Top) /\ UNCHANGED <<disk, mends, Told>>
           [] r = "is_directory" -> Clears(Top)
           [] r = "would_merge" -> Merges(Top)
           [] r = "would_recurse" -> Recurses(Top)
           [] r = "invalid_filename" /\ ~KnowsFs -> Mends(Top)
           [] r = "cancelled" -> Return(TRUE) /\ UNCHANGED <<disk, mends, Told, Asked>>
           [] OTHER -> Fails
  BY DEF Try
<1>3. /\ r = "done" => /\ Top.src \in DOMAIN disk /\ Last(Top.dest) \notin Unwritable
                       /\ IsFolder(Top.src) => Moves /\ ~job.crossing
                       /\ Top.dest \in DOMAIN disk => Top.over /\ ~IsFolder(Top.dest)
      /\ r = "exists" => Top.dest \in DOMAIN disk /\ ~Top.over
      /\ r = "is_directory" => /\ Top.src \in DOMAIN disk /\ Top.dest \in DOMAIN disk /\ Top.over
                               /\ IsFolder(Top.dest) /\ ~IsFolder(Top.src)
      /\ r = "would_merge" => IsFolder(Top.src) /\ IsFolder(Top.dest) /\ Top.over
      /\ r = "would_recurse" => /\ IsFolder(Top.src)
                                /\ Top.dest \in DOMAIN disk => Top.over /\ ~IsFolder(Top.dest)
      /\ r = "invalid_filename" => Last(Top.dest) \in Unwritable
      /\ r \in {"done", "exists", "is_directory", "would_merge", "would_recurse", "invalid_filename",
                "cancelled", "not_supported", "error"}
  BY ResultFacts
<1>4. CASE r = "done"
  <2>1. Transferred(Top)
    BY <1>2, <1>4
  <2>2. QED
    BY <1>1, <1>3, <1>4, <2>1, TransferredGoal
<1>5. CASE r = "exists" /\ job.kind = "duplicate"
  <2>1. NextName(Top) /\ ~Asking
    BY <1>2, <1>5 DEF Asking
  <2>2. QED
    BY <1>1, <2>1, NextNameGoal
<1>6. CASE r = "exists" /\ job.kind # "duplicate"
  <2>1. Conflict(Top) /\ UNCHANGED <<disk, mends, known>>
    BY <1>2, <1>6 DEF Told
  <2>2. Asking
    BY <1>6 DEF Asking, Transfers, Copies, Moves
  <2>3. QED
    BY <1>1, <1>3, <1>6, <2>1, <2>2, ConflictGoal
<1>7. CASE r = "is_directory"
  <2>1. Clears(Top)
    BY <1>2, <1>7
  <2>2. QED
    BY <1>1, <1>3, <1>7, <2>1, ClearsGoal
<1>8. CASE r = "would_merge"
  <2>1. Merges(Top)
    BY <1>2, <1>8
  <2>2. QED
    BY <1>1, <1>3, <1>8, <2>1, MergesGoal
<1>9. CASE r = "would_recurse"
  <2>1. Recurses(Top)
    BY <1>2, <1>9
  <2>2. QED
    BY <1>1, <1>3, <1>9, <2>1, RecursesGoal
<1>10. CASE r = "invalid_filename" /\ ~KnowsFs
  <2>1. Mends(Top)
    BY <1>2, <1>10
  <2>2. QED
    BY <1>1, <1>3, <1>10, <2>1, MendsGoal
<1>11. CASE r = "cancelled"
  <2>1. Return(TRUE) /\ UNCHANGED <<disk, mends, Told>> /\ UNCHANGED Asked
    BY <1>2, <1>11 DEF Asked, Told
  <2>2. QED
    BY <2>1, FailsGoal
<1>12. CASE r \in {"not_supported", "error"} \/ (r = "invalid_filename" /\ KnowsFs)
  <2>1. Fails
    BY <1>2, <1>12
  <2>2. QED
    BY <2>1, FailsGoal DEF Fails
<1>13. QED
  BY <1>3, <1>4, <1>5, <1>6, <1>7, <1>8, <1>9, <1>10, <1>11, <1>12

LEMMA PrepareStep ==
  ASSUME Hypotheses, Steady, Transfers, Working, Beside, trash' = trash, phase = "prepare", Prepare
  PROVE  TransferGoal
<1>1. Moves /\ Asking /\ Top.kind = "file" /\ Top.step \in {"check", "try"}
  <2>1. Moves
    BY DEF Steady, Calls
  <2>2. Top \in FileFrame
    BY TopFacts DEF Working
  <2>3. QED
    BY <2>1, <2>2 DEF FileFrame, Moves, Asking
<1>2. CASE Top.step = "check"
  <2>1. UNCHANGED <<disk, mends, Told>> /\ UNCHANGED known /\ UNCHANGED fallbacks
    BY <1>2 DEF Prepare, Told
  <2>2. CASE Return(TRUE) /\ Warn
    BY <2>1, <2>2, FailsGoal
  <2>3. CASE Continue([Top EXCEPT !.step = "try"]) /\ UNCHANGED Asked /\ ~IsPrefix(Top.src, Front(Top.dest))
    BY <1>1, <2>1, <2>3, TriesGoal
  <2>4. QED
    BY <1>2, <2>2, <2>3 DEF Prepare
<1>3. CASE Top.step # "check"
  <2>1. Top.step = "try"
    BY <1>1, <1>3
  <2>2. PICK r \in Result(Top.src, Top.dest, Top.over, TRUE) :
         CASE r = "done" -> Transferred(Top) /\ UNCHANGED fallbacks
           [] r = "exists" -> Conflict(Top) /\ UNCHANGED <<disk, mends, fallbacks, Told>>
           [] r \in {"would_merge", "not_supported", "is_directory"} ->
                /\ fallbacks' = Append(fallbacks, [src |-> Top.src, over |-> Top.over])
                /\ Return(FALSE)
                /\ UNCHANGED <<disk, mends, Told, Asked>>
           [] r = "invalid_filename" /\ ~KnowsFs -> Mends(Top) /\ UNCHANGED fallbacks
           [] r = "cancelled" ->
                Return(TRUE) /\ UNCHANGED <<disk, mends, fallbacks, Told, Asked>>
           [] OTHER -> Fails /\ UNCHANGED fallbacks
    BY <1>3 DEF Prepare
  <2>3. /\ r = "done" => /\ Top.src \in DOMAIN disk /\ Last(Top.dest) \notin Unwritable
                         /\ IsFolder(Top.src) => Moves /\ ~job.crossing
                         /\ Top.dest \in DOMAIN disk => Top.over /\ ~IsFolder(Top.dest)
        /\ r = "exists" => Top.dest \in DOMAIN disk /\ ~Top.over
        /\ r = "invalid_filename" => Last(Top.dest) \in Unwritable
        /\ r \in {"done", "exists", "is_directory", "would_merge", "would_recurse", "invalid_filename",
                  "cancelled", "not_supported", "error"}
    BY ResultFacts
  <2>4. CASE r = "done"
    <3>1. Transferred(Top) /\ UNCHANGED fallbacks
      BY <2>2, <2>4
    <3>2. QED
      BY <1>1, <2>1, <2>3, <2>4, <3>1, TransferredGoal
  <2>5. CASE r = "exists"
    <3>1. Conflict(Top) /\ UNCHANGED <<disk, mends, fallbacks, known>>
      BY <2>2, <2>5 DEF Told
    <3>2. QED
      BY <1>1, <2>1, <2>3, <2>5, <3>1, ConflictGoal
  <2>6. CASE r \in {"would_merge", "not_supported", "is_directory"}
    <3>1. /\ fallbacks' = Append(fallbacks, [src |-> Top.src, over |-> Top.over])
          /\ Return(FALSE)
          /\ UNCHANGED <<disk, mends, known, flags, agreed, always>>
      BY <2>2, <2>6 DEF Told, Asked
    <3>2. UNCHANGED <<before, job, trash, phase, todo, disk, mends, flags, agreed, always, known>>
      BY <3>1 DEF Beside
    <3>3. QED
      BY <2>1, <3>1, <3>2, PutOffGoal
  <2>7. CASE r = "invalid_filename" /\ ~KnowsFs
    <3>1. Mends(Top) /\ UNCHANGED fallbacks
      BY <2>2, <2>7
    <3>2. QED
      BY <1>1, <2>1, <2>3, <2>7, <3>1, MendsGoal
  <2>8. CASE r = "cancelled"
    <3>1. Return(TRUE) /\ UNCHANGED <<disk, mends, Told>> /\ UNCHANGED Asked /\ UNCHANGED fallbacks
      BY <2>2, <2>8 DEF Asked, Told
    <3>2. QED
      BY <3>1, FailsGoal
  <2>9. CASE r \in {"would_recurse", "error"} \/ (r = "invalid_filename" /\ KnowsFs)
    <3>1. Fails /\ UNCHANGED fallbacks
      BY <2>2, <2>9
    <3>2. QED
      BY <3>1, FailsGoal DEF Fails
  <2>10. QED
    BY <2>3, <2>4, <2>5, <2>6, <2>7, <2>8, <2>9
<1>4. QED
  BY <1>2, <1>3

-----------------------------------------------------------------------------
\* copy_move_directory.

\* The call that is made for a child of the folder on top.
ChildCall(n) == FileCall(Append(Top.src, n), ChildDest(n), FALSE)

LEMMA ChildFacts ==
  ASSUME Hypotheses, Steady, Transfers, Working, Top.kind = "folder", NEW n \in Top.left,
         NEW c, c = ChildCall(n)
  PROVE  /\ Top \in FolderFrame /\ phase = "transfer" /\ n \in Names
         /\ c \in FileFrame /\ c.kind = "file" /\ c.src = Append(Top.src, n)
         /\ c.src \in PathsOnly /\ Front(c.src) = Top.src
         /\ c.dest \in PathsOnly /\ Front(c.dest) = Top.dest
         /\ Asking => InTarget(job, c.dest)
         /\ IsPrefix(job.destination, Top.dest)
         /\ Aims(c) /\ CallAgreed(c) /\ (Moves => CallUnhaunted(c))
<1>1. /\ Top \in FolderFrame /\ phase = "transfer" /\ Walks(Top) /\ (Moves => CallUnhaunted(Top))
      /\ Top.src \in PathsOnly /\ Top.dest \in PathsOnly /\ (Asking => InTarget(job, Top.dest))
      /\ IsPrefix(job.destination, Front(Top.dest))
  BY TopFacts DEF Working
<1>2. /\ Mended \in Names /\ Mended \notin Unwritable /\ job.destination \in Paths
      /\ Tree(disk) /\ DOMAIN disk \subseteq Paths
  BY JobFacts DEF Steady
<1>3. n \in Names
  BY <1>1 DEF FolderFrame
<1>4. PICK s \in PathsOnly, d \in PathsOnly : s = Top.src /\ d = Top.dest
  BY <1>1
<1>5. s \in Paths /\ d \in Paths /\ s # << >> /\ d # << >>
  BY <1>4 DEF PathsOnly
<1>6. /\ Append(s, n) \in PathsOnly /\ Front(Append(s, n)) = s /\ Last(Append(s, n)) = n
      /\ IsPrefix(s, Append(s, n))
  BY <1>3, <1>5, AppendToPath DEF PathsOnly
<1>7. PICK m \in Names : /\ c.dest = Append(d, m)
                         /\ m = IF Top.mends /\ n \in Unwritable THEN Mended ELSE n
  BY <1>2, <1>3, <1>4, <1>6 DEF ChildCall, ChildDest, FileCall, Target
<1>8. Append(d, m) \in PathsOnly /\ Front(Append(d, m)) = d /\ Last(Append(d, m)) = m
      /\ IsPrefix(d, Append(d, m))
  BY <1>5, AppendToPath DEF PathsOnly
<1>9. /\ c \in FileFrame /\ c.kind = "file" /\ c.src = Append(s, n) /\ c.step = "check" /\ c.over = FALSE
      /\ c.dest \in PathsOnly /\ Front(c.dest) = d
  <2>1. PICK e : e = c.dest
    OBVIOUS
  <2>2. c = [kind |-> "file", step |-> "check", src |-> Append(s, n), over |-> FALSE, nr |-> 2, dest |-> e]
    BY <1>4, <2>1 DEF ChildCall, FileCall
  <2>3. e \in PathsOnly /\ Front(e) = d
    BY <1>7, <1>8, <2>1
  <2>4. PICK a \in PathsOnly : a = Append(s, n)
    BY <1>6
  <2>5. c = [kind |-> "file", step |-> "check", src |-> a, over |-> FALSE, nr |-> 2, dest |-> e]
    BY <2>2, <2>4
  <2>6. c \in FileFrame
    BY <2>3, <2>5 DEF FileFrame
  <2>7. c.kind = "file" /\ c.src = a /\ c.step = "check" /\ c.over = FALSE /\ c.dest = e
    BY <2>5
  <2>8. QED
    BY <2>3, <2>4, <2>6, <2>7
<1>10. Asking => InTarget(job, c.dest)
  <2>1. SUFFICES ASSUME Asking
                 PROVE  InTarget(job, c.dest)
    OBVIOUS
  <2>2. InTarget(job, d) /\ Append(d, m) \in Paths
    BY <1>1, <1>4, <1>8, <2>1 DEF PathsOnly
  <2>3. InTarget(job, Append(d, m))
    BY <1>5, <1>8, <2>2, TargetBelow DEF Steady
  <2>4. QED
    BY <1>7, <2>3
<1>11. IsPrefix(job.destination, Top.dest)
  BY <1>1, <1>2, <1>4, <1>5, FrontOfPath
<1>12. Aims(c)
  <2>1. ASSUME Asking
        PROVE  /\ c.dest \in DOMAIN disk => OwnName(c)
               /\ \/ ~IsPrefix(Append(Front(c.dest), Final(c.src)), c.src)
                  \/ OwnName(c)
    <3>1. m = IF Top.mends /\ n \in Unwritable THEN Mended ELSE n
      BY <1>7, <2>1 DEF Asking
    <3>2. Final(c.src) = IF n \in Unwritable THEN Mended ELSE n
      BY <1>6, <1>9 DEF Final
    <3>3. CASE m = Final(c.src)
      BY <1>7, <1>8, <3>3 DEF OwnName
    <3>4. CASE m # Final(c.src)
      <4>1. n \in Unwritable /\ m = n /\ Final(c.src) = Mended
        BY <3>1, <3>2, <3>4
      <4>2. c.dest \notin DOMAIN disk
        <5>1. SUFFICES ASSUME c.dest \in DOMAIN disk
                       PROVE  FALSE
          OBVIOUS
        <5>2. c.dest # << >> /\ Last(c.dest) \in Unwritable
          BY <1>7, <1>8, <1>9, <4>1 DEF PathsOnly
        <5>3. c.dest \in DOMAIN before
          BY <2>1, <5>1, <5>2 DEF Steady, Aimed
        <5>4. before \in Disks /\ job \in Jobs /\ job.kind \in {"copy", "move"} /\ InTarget(job, c.dest)
          BY <1>10, <2>1 DEF Steady, Ground, Asking
        <5>5. QED
          BY <5>2, <5>3, <5>4 DEF Hypotheses, WritableTargets
      <4>3. ~IsPrefix(Append(d, Mended), Append(s, n))
        <5>1. /\ Append(d, Mended) \in Paths /\ Last(Append(d, Mended)) = Mended
              /\ IsPrefix(d, Append(d, Mended))
          BY <1>2, <1>5, AppendToPath
        <5>2. Append(d, Mended) # Append(s, n)
          BY <1>2, <1>6, <4>1, <5>1
        <5>3. ~IsPrefix(d, s)
          BY <1>1, <1>4 DEF Walks, Comparable
        <5>4. ~IsPrefix(Append(d, Mended), s)
          BY <1>5, <5>1, <5>3, PrefixTransitive
        <5>5. Append(s, n) \in Paths \ {<< >>}
          BY <1>6 DEF PathsOnly
        <5>6. IsPrefix(Append(d, Mended), Append(s, n))
              <=> Append(d, Mended) = Append(s, n) \/ IsPrefix(Append(d, Mended), Front(Append(s, n)))
          BY <5>1, <5>5, FrontOfPath
        <5>7. QED
          BY <1>6, <5>2, <5>4, <5>6
      <4>4. QED
        BY <1>9, <4>1, <4>2, <4>3
    <3>5. QED
      BY <3>3, <3>4
  <2>2. c.step = "check" /\ ~c.over
    BY <1>9
  <2>3. QED
    BY <2>1, <2>2 DEF Aims
<1>13. CallAgreed(c)
  BY <1>1, <1>9 DEF CallAgreed
<1>14. Moves => CallUnhaunted(c)
  BY <1>1, <1>4, <1>9 DEF CallUnhaunted, FolderFrame
<1>15. QED
  BY <1>1, <1>3, <1>4, <1>6, <1>9, <1>10, <1>11, <1>12, <1>13, <1>14

\* A call on top of the others.
Pushed(f, c) ==
    /\ stack' \in Seq(FileFrame \cup FolderFrame)
    /\ Len(stack') = Len(stack) + 1 /\ DOMAIN stack' = 1 .. Len(stack) + 1
    /\ stack'[Len(stack) + 1] = c /\ stack'[Len(stack)] = f
    /\ \A i \in 1 .. Len(stack) - 1 : stack'[i] = stack[i]
    /\ f \in FolderFrame /\ f.kind = "folder" /\ f.src = Top.src /\ f.dest = Top.dest

LEMMA CallsPush ==
  ASSUME Hypotheses, Steady, Transfers, Working, Beside, Top.kind = "folder", NEW n \in Top.left,
         NEW c, c = ChildCall(n),
         NEW f, Pushed(f, c), f.left = Top.left \ {n}
  PROVE  Calls'
<1>1. PICK l \in Nat \ {0} : l = Len(stack)
  BY TopFacts DEF Working
<1>2. DOMAIN stack = 1 .. l /\ Top = stack[l] /\ stack # << >> /\ Calls
  BY <1>1, TopFacts DEF Working, Steady
<1>3. /\ phase = "transfer" /\ n \in Names /\ Top \in FolderFrame
      /\ c.kind = "file" /\ c.src = Append(Top.src, n)
      /\ c.src \in PathsOnly /\ Front(c.src) = Top.src
      /\ c.dest \in PathsOnly /\ Front(c.dest) = Top.dest
      /\ Asking => InTarget(job, c.dest)
      /\ IsPrefix(job.destination, Top.dest)
  BY ChildFacts
<1>4. /\ Len(stack') = l + 1 /\ DOMAIN stack' = 1 .. l + 1
      /\ stack'[l + 1] = c
      /\ \A i \in 1 .. l : /\ stack'[i].src = stack[i].src /\ stack'[i].dest = stack[i].dest
                           /\ stack'[i].left \subseteq stack[i].left
                           /\ stack'[i].kind = "folder" /\ i \in DOMAIN stack
  <2>1. \A i \in 1 .. l - 1 : stack'[i] = stack[i] /\ stack[i].kind = "folder"
    BY <1>1, TopFacts DEF Pushed, Working, FolderFrame
  <2>2. stack'[l] = f /\ f.src = stack[l].src /\ f.dest = stack[l].dest /\ f.left \subseteq stack[l].left
        /\ f.kind = "folder"
    BY <1>1, <1>2 DEF Pushed
  <2>3. \A i \in 1 .. l : i = l \/ i \in 1 .. l - 1
    OBVIOUS
  <2>4. Len(stack') = l + 1 /\ DOMAIN stack' = 1 .. l + 1 /\ stack'[l + 1] = c
    BY <1>1 DEF Pushed
  <2>5. QED
    BY <1>2, <2>1, <2>2, <2>3, <2>4
<1>5. \A i \in DOMAIN stack' : i = l + 1 \/ i \in 1 .. l
  BY <1>4
<1>6. job' = job /\ phase' = phase /\ (Asking' <=> Asking)
  BY DEF Beside, Asking
<1>7. ASSUME NEW i \in DOMAIN stack'
      PROVE  /\ i < Len(stack') \/ phase' = "prepare" => (stack'[i].kind = "folder" <=> i < Len(stack'))
             /\ IsPrefix(job'.destination, Front(stack'[i].dest))
             /\ Asking' => InTarget(job', stack'[i].dest)
  <2>1. CASE i = l + 1
    <3>1. stack'[i] = c /\ ~(i < Len(stack')) /\ phase' # "prepare"
      BY <1>1, <1>3, <1>4, <1>6, <2>1
    <3>2. IsPrefix(job'.destination, Front(stack'[i].dest))
      BY <1>3, <1>6, <3>1
    <3>3. Asking' => InTarget(job', stack'[i].dest)
      BY <1>3, <1>6, <3>1
    <3>4. QED
      BY <3>1, <3>2, <3>3
  <2>2. CASE i \in 1 .. l
    <3>1. /\ IsPrefix(job.destination, Front(stack[i].dest))
          /\ Asking => InTarget(job, stack[i].dest)
      BY <1>2, <1>4, <2>2 DEF Calls
    <3>2. QED
      BY <1>4, <1>6, <2>2, <3>1
  <2>3. QED
    BY <1>5, <2>1, <2>2
<1>8. /\ \E k \in DOMAIN job'.files : job'.files[k] = stack'[1].src
      /\ Front(stack'[1].dest) = job'.destination
  <2>1. /\ \E k \in DOMAIN job.files : job.files[k] = stack[1].src
        /\ Front(stack[1].dest) = job.destination
    BY <1>2 DEF Calls
  <2>2. 1 \in 1 .. l
    OBVIOUS
  <2>3. QED
    BY <1>4, <1>6, <2>1, <2>2
<1>9. \A i \in 1 .. l : stack[i].src \in Paths /\ stack[i].dest \in Paths /\ stack[i].left \subseteq Names
  <2>1. \A i \in 1 .. l : stack[i] \in FolderFrame
    <3>1. \A i \in 1 .. l - 1 : stack[i] \in FolderFrame
      BY <1>1, TopFacts DEF Working
    <3>2. QED
      BY <1>2, <1>3, <3>1
  <2>2. QED
    BY <2>1 DEF FolderFrame, PathsOnly
<1>10. /\ Top.src \in Paths /\ Top.dest \in Paths /\ Top.src # << >> /\ Top.dest # << >>
       /\ c.src \in Paths \ {<< >>} /\ c.dest \in Paths \ {<< >>}
  BY <1>3 DEF FolderFrame, PathsOnly
<1>11. ASSUME NEW i \in 1 .. l
       PROVE  /\ IsPrefix(stack[i].src, Top.src)
              /\ IsPrefix(stack[i].dest, Top.dest)
              /\ \A k \in stack'[i].left : ~IsPrefix(Append(stack[i].src, k), c.src)
  <2>1. CASE i = l
    <3>1. stack[i].src = Top.src /\ stack[i].dest = Top.dest /\ stack'[i].left = Top.left \ {n}
      BY <1>1, <1>2, <2>1 DEF Pushed
    <3>2. ASSUME NEW k \in Top.left \ {n}
          PROVE  ~IsPrefix(Append(Top.src, k), c.src)
      <4>1. k \in Names
        BY <1>3 DEF FolderFrame
      <4>2. /\ Append(Top.src, k) \in Paths /\ Last(Append(Top.src, k)) = k
            /\ ~IsPrefix(Append(Top.src, k), Top.src)
        BY <1>10, <4>1, AppendToPath
      <4>3. Last(c.src) = n
        <5>1. Last(Append(Top.src, n)) = n
          BY <1>3, <1>10, AppendToPath
        <5>2. QED
          BY <1>3, <5>1
      <4>4. Append(Top.src, k) # c.src
        BY <4>2, <4>3
      <4>5. IsPrefix(Append(Top.src, k), c.src)
            <=> Append(Top.src, k) = c.src \/ IsPrefix(Append(Top.src, k), Front(c.src))
        BY <1>10, <4>2, FrontOfPath
      <4>6. QED
        BY <1>3, <4>2, <4>4, <4>5
    <3>3. QED
      BY <1>10, <3>1, <3>2, PrefixReflexive
  <2>2. CASE i # l
    <3>1. i \in 1 .. l - 1 /\ l \in DOMAIN stack
      BY <1>2, <2>2
    <3>2. /\ IsPrefix(stack[i].src, Front(stack[l].src))
          /\ IsPrefix(stack[i].dest, Front(stack[l].dest))
          /\ \A k \in stack[i].left : ~IsPrefix(Append(stack[i].src, k), stack[l].src)
      BY <1>2, <3>1 DEF Calls
    <3>3. /\ IsPrefix(stack[i].src, Front(Top.src))
          /\ IsPrefix(stack[i].dest, Front(Top.dest))
          /\ \A k \in stack[i].left : ~IsPrefix(Append(stack[i].src, k), Top.src)
      BY <1>2, <3>2
    <3>4. /\ IsPrefix(stack[i].src, Top.src) /\ IsPrefix(stack[i].dest, Top.dest)
          /\ stack[i].src # Top.src
      BY <1>9, <1>10, <3>3, FrontOfPath
    <3>5. ASSUME NEW k \in stack'[i].left
          PROVE  ~IsPrefix(Append(stack[i].src, k), c.src)
      <4>1. k \in stack[i].left /\ k \in Names
        BY <1>4, <1>9, <3>5
      <4>2. Append(stack[i].src, k) \in Paths /\ Front(Append(stack[i].src, k)) = stack[i].src
        BY <1>9, <4>1, AppendToPath
      <4>3. Append(stack[i].src, k) # c.src
        BY <1>3, <3>4, <4>2
      <4>4. ~IsPrefix(Append(stack[i].src, k), Top.src)
        BY <3>3, <4>1
      <4>5. IsPrefix(Append(stack[i].src, k), c.src)
            <=> Append(stack[i].src, k) = c.src \/ IsPrefix(Append(stack[i].src, k), Front(c.src))
        BY <1>10, <4>2, FrontOfPath
      <4>6. QED
        BY <1>3, <4>3, <4>4, <4>5
    <3>6. QED
      BY <3>4, <3>5
  <2>3. QED
    BY <2>1, <2>2
<1>12. ASSUME NEW k \in DOMAIN stack', NEW i \in 1 .. k - 1
       PROVE  /\ IsPrefix(stack'[i].src, Front(stack'[k].src))
              /\ IsPrefix(stack'[i].dest, Front(stack'[k].dest))
              /\ \A m \in stack'[i].left : ~IsPrefix(Append(stack'[i].src, m), stack'[k].src)
  <2>1. CASE k = l + 1
    <3>1. i \in 1 .. l
      BY <2>1
    <3>2. stack'[k] = c
      BY <1>4, <2>1
    <3>3. QED
      BY <1>3, <1>4, <1>11, <3>1, <3>2
  <2>2. CASE k \in 1 .. l
    <3>1. i \in 1 .. l /\ k \in DOMAIN stack
      BY <1>2, <2>2
    <3>2. /\ IsPrefix(stack[i].src, Front(stack[k].src))
          /\ IsPrefix(stack[i].dest, Front(stack[k].dest))
          /\ \A m \in stack[i].left : ~IsPrefix(Append(stack[i].src, m), stack[k].src)
      BY <1>2, <3>1 DEF Calls
    <3>3. QED
      BY <1>4, <2>2, <3>1, <3>2
  <2>3. QED
    BY <1>5, <2>1, <2>2
<1>13. ASSUME NEW k \in DOMAIN stack', k > 1
       PROVE  Front(stack'[k].dest) = stack'[k - 1].dest
  <2>1. CASE k = l + 1
    <3>1. stack'[k] = c /\ k - 1 = l /\ l \in 1 .. l
      BY <1>1, <1>4, <2>1
    <3>2. stack'[l].dest = Top.dest
      BY <1>2, <1>4, <3>1
    <3>3. QED
      BY <1>3, <3>1, <3>2
  <2>2. CASE k \in 1 .. l
    <3>1. k \in DOMAIN stack /\ k - 1 \in 1 .. l
      BY <1>2, <1>13, <2>2
    <3>2. Front(stack[k].dest) = stack[k - 1].dest
      BY <1>2, <1>13, <3>1 DEF Calls
    <3>3. QED
      BY <1>4, <2>2, <3>1, <3>2
  <2>3. QED
    BY <1>5, <2>1, <2>2
<1>14. QED
  BY <1>3, <1>6, <1>7, <1>8, <1>12, <1>13 DEF Calls, Pushed

LEMMA NextChildGoal ==
  ASSUME Hypotheses, Steady, Transfers, Working, Beside, UNCHANGED <<trash, fallbacks>>,
         Top.kind = "folder", NextChild
  PROVE  TransferGoal
<1>1. PICK n \in Top.left :
         stack' = Append(Front(stack), [Top EXCEPT !.left = @ \ {n}])
                  \o << ChildCall(n) >>
  BY DEF NextChild, ChildCall
<1>2. UNCHANGED <<disk, mends, known, flags, agreed, always>>
  BY DEF NextChild, Told, Asked
<1>3. PICK c : c = ChildCall(n)
  OBVIOUS
<1>4. PICK f : f = [Top EXCEPT !.left = @ \ {n}]
  OBVIOUS
<1>5. /\ Top \in FolderFrame /\ phase = "transfer" /\ n \in Names
      /\ c \in FileFrame /\ c.kind = "file"
      /\ Aims(c) /\ CallAgreed(c) /\ (Moves => CallUnhaunted(c))
  BY <1>3, ChildFacts
<1>6. /\ f \in FolderFrame /\ f.kind = "folder" /\ f.src = Top.src /\ f.dest = Top.dest
      /\ f.left = Top.left \ {n}
  BY <1>4, <1>5 DEF FolderFrame
<1>7. Pushed(f, c)
  <2>1. stack \in Seq(FileFrame \cup FolderFrame) /\ stack # << >>
    BY TopFacts DEF Working
  <2>2. stack' = Append(Front(stack), f) \o << c >>
    BY <1>1, <1>3, <1>4
  <2>3. f \in FileFrame \cup FolderFrame /\ c \in FileFrame \cup FolderFrame
    BY <1>5, <1>6
  <2>4. /\ stack' \in Seq(FileFrame \cup FolderFrame) /\ Len(stack') = Len(stack) + 1
        /\ DOMAIN stack' = 1 .. Len(stack) + 1
        /\ stack'[Len(stack) + 1] = c /\ stack'[Len(stack)] = f
        /\ \A i \in 1 .. Len(stack) - 1 : stack'[i] = stack[i]
    BY <2>1, <2>2, <2>3, Pushing
  <2>5. QED
    BY <1>6, <2>4 DEF Pushed
<1>8. Calls'
  BY <1>3, <1>6, <1>7, CallsPush
<1>9. PICK l \in Nat \ {0} : l = Len(stack)
  BY TopFacts DEF Working
<1>10. /\ DOMAIN stack = 1 .. l /\ DOMAIN stack' = 1 .. l + 1 /\ Top = stack[l]
       /\ stack'[l + 1] = c /\ stack'[l] = f
       /\ \A i \in 1 .. l - 1 : stack'[i] = stack[i]
  <2>1. DOMAIN stack = 1 .. Len(stack) /\ Top = stack[Len(stack)]
    BY TopFacts DEF Working
  <2>2. QED
    BY <1>7, <1>9, <2>1 DEF Pushed
<1>11. \A i \in DOMAIN stack' : i = l + 1 \/ i = l \/ i \in 1 .. l - 1
  BY <1>9, <1>10
<1>12. \A i \in 1 .. l - 1 : i \in DOMAIN stack /\ stack[i].kind = "folder"
  <2>1. \A i \in 1 .. l - 1 : stack[i] \in FolderFrame
    BY <1>9, TopFacts DEF Working
  <2>2. QED
    BY <1>10, <2>1 DEF FolderFrame
<1>13. stack'[1].src = stack[1].src /\ stack'[1].dest = stack[1].dest
  <2>1. CASE l = 1
    BY <1>6, <1>10, <2>1
  <2>2. CASE l # 1
    <3>1. 1 \in 1 .. l - 1
      BY <1>9, <2>2
    <3>2. QED
      BY <1>10, <3>1
  <2>3. QED
    BY <2>1, <2>2
<1>14. Answered /\ Writes /\ Tells /\ Ghosts' = Ghosts /\ Kept \subseteq Kept'
  <2>1. UNCHANGED Asked /\ agreed \subseteq agreed'
    BY <1>2 DEF Asked
  <2>2. Answered
    BY <1>2, <2>1, AnsweredByAsked
  <2>3. QED
    BY <1>2, <2>1, <2>2, Untouched
<1>15. Ground' /\ ToldInv'
  BY <1>14, GroundStays, ToldStays
<1>16. /\ job' = job /\ phase' = phase /\ todo' = todo /\ before' = before
       /\ (Asking' <=> Asking) /\ (Moves' <=> Moves)
  BY DEF Beside, Asking, Moves
<1>17. \A g : g.kind = "folder" => (Walks(g)' <=> Walks(g)) /\ (CallUnhaunted(g)' <=> CallUnhaunted(g))
  BY <1>2, <1>14 DEF Walks, CallUnhaunted, Unhaunted
<1>18. Steady /\ stack # << >>
  BY DEF Working
<1>19. Aimed'
  <2>1. Asking' => \A p \in DOMAIN disk' \ {<< >>} : Last(p) \in Unwritable => p \in DOMAIN before'
    BY <1>2, <1>16, <1>18 DEF Steady, Aimed
  <2>2. ASSUME NEW i \in DOMAIN stack'
        PROVE  /\ stack'[i].kind = "folder" => Walks(stack[i])'
               /\ stack'[i].kind = "file" => Aims(stack[i])'
    <3>1. CASE i = l + 1
      <4>1. Aims(c)'
        BY <1>2, <1>5, <1>16 DEF Aims, OwnName
      <4>2. QED
        BY <1>5, <1>10, <3>1, <4>1 DEF Aims, OwnName
    <3>2. CASE i = l
      <4>1. Walks(Top)
        BY TopFacts DEF Working
      <4>2. QED
        BY <1>2, <1>6, <1>10, <3>2, <4>1 DEF Walks
    <3>3. CASE i \in 1 .. l - 1
      <4>1. stack'[i] = stack[i] /\ stack[i].kind = "folder" /\ i \in DOMAIN stack
        BY <1>10, <1>12, <3>3
      <4>2. Walks(stack[i])
        BY <1>18, <4>1 DEF Steady, Aimed
      <4>3. QED
        BY <1>2, <4>1, <4>2 DEF Walks
    <3>4. QED
      BY <1>11, <3>1, <3>2, <3>3
  <2>3. QED
    BY <2>1, <2>2, Zenon DEF Aimed
<1>20. Waiting'
  <2>1. \A e : Waits(e)' <=> Waits(e)
    BY <1>16 DEF Waits
  <2>2. stack' # << >>
    BY <1>10, <1>9
  <2>3. QED
    BY <1>13, <1>16, <1>18, <2>1 DEF Steady, Waiting
<1>21. AgreedTo'
  <2>1. \A e : Holds(e)' <=> Holds(e)
    BY <1>2, <1>16 DEF Holds, Place, Final, Agreed, Contents, Under
  <2>2. \A e : Place(e.src)' = Place(e.src)
    BY <1>16 DEF Place, Final
  <2>3. \A e : PutOff(e) => PutOff(e)'
    BY <1>13, <1>18, <2>1, <2>2 DEF PutOff
  <2>4. ASSUME NEW i \in DOMAIN stack'
        PROVE  stack'[i].kind = "file" => CallAgreed(stack[i])'
    <3>1. CASE i = l + 1
      <4>1. CallAgreed(c)'
        BY <1>2, <1>5, <1>16 DEF CallAgreed, Agreed, Contents, Under
      <4>2. QED
        BY <1>10, <3>1, <4>1 DEF CallAgreed
    <3>2. CASE i = l
      BY <1>6, <1>10, <3>2
    <3>3. CASE i \in 1 .. l - 1
      BY <1>10, <1>12, <3>3
    <3>4. QED
      BY <1>11, <3>1, <3>2, <3>3
  <2>5. flags'["replaceAll"] => always'
    BY <1>14 DEF Answered
  <2>6. /\ \A i \in DOMAIN todo : PutOff(todo[i])
        /\ \A i \in DOMAIN fallbacks : PutOff(fallbacks[i])
    BY <1>5, <1>18 DEF Steady, AgreedTo, Over
  <2>7. /\ (\A i \in DOMAIN todo : PutOff(todo[i]))'
        /\ (\A i \in DOMAIN fallbacks : PutOff(fallbacks[i]))'
    <3>1. ASSUME NEW i \in DOMAIN todo
          PROVE  PutOff(todo[i])'
      <4>1. PICK e : e = todo[i]
        OBVIOUS
      <4>2. PutOff(e)'
        BY <2>3, <2>6, <4>1
      <4>3. QED
        BY <1>16, <4>1, <4>2
    <3>2. ASSUME NEW i \in DOMAIN fallbacks
          PROVE  PutOff(fallbacks[i])'
      <4>1. PICK e : e = fallbacks[i]
        OBVIOUS
      <4>2. PutOff(e)'
        BY <2>3, <2>6, <4>1
      <4>3. QED
        BY <4>1, <4>2
    <3>3. QED
      BY <1>16, <3>1, <3>2
  <2>8. QED
    BY <2>4, <2>5, <2>7 DEF AgreedTo
<1>22. ViewInv'
  <2>1. known' \subseteq Paths
    BY <1>14 DEF Tells
  <2>2. ASSUME Moves
        PROVE  /\ AsBefore'
               /\ \A i \in DOMAIN todo : Unhaunted(todo[i].src)'
               /\ \A i \in DOMAIN fallbacks : Unhaunted(fallbacks[i].src)'
               /\ \A i \in DOMAIN stack' : CallUnhaunted(stack[i])'
    <3>1. AsBefore'
      BY <1>14, <2>2, AsBeforeStays
    <3>2. ViewInv
      BY <1>18 DEF Steady
    <3>3. /\ \A i \in DOMAIN todo : Unhaunted(todo[i].src)
          /\ \A i \in DOMAIN fallbacks : Unhaunted(fallbacks[i].src)
          /\ \A i \in DOMAIN stack : CallUnhaunted(stack[i])
      BY <2>2, <3>2 DEF ViewInv
    <3>4. /\ \A i \in DOMAIN todo : Unhaunted(todo[i].src)'
          /\ \A i \in DOMAIN fallbacks : Unhaunted(fallbacks[i].src)'
      BY <1>14, <1>16, <3>3 DEF Unhaunted
    <3>5. ASSUME NEW i \in DOMAIN stack'
          PROVE  CallUnhaunted(stack[i])'
      <4>1. CASE i = l + 1
        <5>1. CallUnhaunted(c)'
          BY <1>5, <1>14, <2>2 DEF CallUnhaunted, Unhaunted
        <5>2. QED
          BY <1>10, <4>1, <5>1 DEF CallUnhaunted, Unhaunted
      <4>2. CASE i = l
        <5>1. CallUnhaunted(Top)
          BY <2>2, TopFacts DEF Working
        <5>2. CallUnhaunted(f)'
          BY <1>5, <1>6, <1>14, <5>1 DEF CallUnhaunted, Unhaunted, FolderFrame
        <5>3. QED
          BY <1>10, <4>2, <5>2 DEF CallUnhaunted, Unhaunted
      <4>3. CASE i \in 1 .. l - 1
        <5>1. stack'[i] = stack[i] /\ i \in DOMAIN stack
          BY <1>10, <1>12, <4>3
        <5>2. CallUnhaunted(stack[i])
          BY <3>3, <5>1
        <5>3. QED
          BY <1>14, <5>1, <5>2 DEF CallUnhaunted, Unhaunted
      <4>4. QED
        BY <1>11, <4>1, <4>2, <4>3
    <3>6. QED
      BY <3>1, <3>4, <3>5
  <2>3. QED
    BY <1>15, <1>16, <2>1, <2>2 DEF ViewInv
<1>23. phase' \in TransferPhases /\ mends' \in BOOLEAN
  BY <1>2, <1>16, <1>18 DEF Steady
<1>24. QED
  BY <1>8, <1>14, <1>15, <1>19, <1>20, <1>21, <1>22, <1>23 DEF Steady, TransferGoal

LEMMA FolderDoneGoal ==
  ASSUME Hypotheses, Steady, Transfers, Working, Beside, UNCHANGED <<trash, fallbacks>>,
         Top.kind = "folder", FolderDone
  PROVE  TransferGoal
<1>1. /\ Top \in FolderFrame /\ Top.skipped \in BOOLEAN /\ Walks(Top)
      /\ Top.src \in Paths \ {<< >>}
  BY TopFacts DEF Working, FolderFrame, PathsOnly
<1>2. flags \in [Flag -> BOOLEAN]
  BY DEF Steady, Ground
<1>3. UNCHANGED <<mends, known>>
  BY DEF FolderDone, Told
<1>4. CASE disk' = disk /\ Return(Top.skipped) /\ UNCHANGED Asked
  <2>1. Answered
    BY <1>3, <1>4, AnsweredByAsked
  <2>2. QED
    BY <1>1, <1>3, <1>4, <2>1, QuietReturnGoal
<1>5. CASE disk' = disk /\ Return(~flags["skipErrors"]) /\ Warn
  <2>1. Answered
    BY <1>3, <1>5, AnsweredByAsked
  <2>2. PICK b \in BOOLEAN : b = ~flags["skipErrors"]
    OBVIOUS
  <2>3. Return(b)
    BY <1>5, <2>2
  <2>4. QED
    BY <1>3, <1>5, <2>1, <2>3, QuietReturnGoal
<1>6. CASE /\ Moves /\ Under(Top.src) = {Top.src} /\ disk' = Without({Top.src})
           /\ Return(Top.skipped) /\ UNCHANGED Asked
  <2>1. Answered /\ agreed' = agreed
    BY <1>3, <1>6, AnsweredByAsked
  <2>2. ReturnsToCaller
    BY <1>1, <1>6, StackReturn
  <2>3. PICK s : s = Top.src
    OBVIOUS
  <2>4. Tree(disk) /\ s \in DOMAIN disk /\ disk[s] = Folder /\ s # << >> /\ s \in Paths
    BY <1>1, <2>3, JobFacts DEF Steady, Walks
  <2>5. Under(s) = {s} /\ disk' = Without({s})
    BY <1>6, <2>3
  <2>6. /\ Tree(disk') /\ DOMAIN disk' = DOMAIN disk \ {s}
        /\ \A q \in DOMAIN disk \ {s} : disk'[q] = disk[q]
    <3>1. PICK R \in SUBSET DOMAIN disk : R = {s}
      BY <2>4
    <3>2. << >> \notin R /\ \A r \in R : Under(r) \subseteq R
      BY <2>4, <2>5, <3>1
    <3>3. disk' = Without(R)
      BY <2>5, <3>1
    <3>4. /\ Tree(disk') /\ DOMAIN disk' = DOMAIN disk \ R
          /\ \A q \in DOMAIN disk \ R : disk'[q] = disk[q]
      BY <2>4, <3>2, <3>3, Taking
    <3>5. QED
      BY <3>1, <3>4
  <2>7. Writes
    <3>1. IsPrefix(s, s)
      BY <2>4, PrefixReflexive
    <3>2. QED
      BY <2>3, <2>6, <3>1 DEF Writes, Acts, Changed
  <2>8. Tells
    <3>1. DOMAIN disk \subseteq known /\ known \subseteq Paths
      BY DEF Steady, ViewInv, ToldInv
    <3>2. Ghosts' \subseteq Ghosts \cup {s}
      BY <1>3, <2>6 DEF Ghosts
    <3>3. QED
      BY <1>3, <1>6, <2>3, <2>6, <3>1, <3>2 DEF Tells
  <2>9. Kept \subseteq Kept'
    <3>1. \A q \in DOMAIN disk : disk[q] \in Kept'
      BY <2>4, <2>6 DEF Kept
    <3>2. QED
      BY <2>1, <3>1, KeptStays
  <2>10. QED
    BY <2>1, <2>2, <2>7, <2>8, <2>9, ReturnGoal
<1>7. QED
  BY <1>4, <1>5, <1>6, Zenon DEF FolderDone

-----------------------------------------------------------------------------
\* The loops of the job.

\* The call that is made for a file of the list.
FirstCall(e) == FileCall(e.src, FirstDest(e.src), e.over)

LEMMA FirstFacts ==
  ASSUME Hypotheses, Steady, Transfers, phase \in {"prepare", "transfer"}, NEW e, InLists(e),
         stack = << >>, NEW c, c = FirstCall(e)
  PROVE  /\ e \in Entry
         /\ c \in FileFrame /\ c.kind = "file" /\ c.src = e.src
         /\ c.src \in PathsOnly /\ Front(c.dest) = job.destination
         /\ \E k \in DOMAIN job.files : job.files[k] = e.src
         /\ Asking => InTarget(job, c.dest)
         /\ Aims(c) /\ CallAgreed(c) /\ (Moves => CallUnhaunted(c))
         /\ \A g : InLists(g) /\ g.over /\ g.src # e.src => c.dest # Place(g.src)
<1>1. /\ Mended \in Names /\ Mended \notin Unwritable /\ job.destination \in Paths
      /\ \A k \in DOMAIN job.files :
            /\ job.files[k] \in PathsOnly /\ job.files[k] \in Paths /\ job.files[k] # << >>
            /\ Last(job.files[k]) \in TargetNames(job) /\ Final(job.files[k]) \in TargetNames(job)
      /\ TargetNames(job) \subseteq Names /\ Mended \in TargetNames(job)
  BY JobFacts DEF Steady
<1>2. \A g : InLists(g) => /\ g \in Entry /\ Waits(g) /\ PutOff(g) /\ Holds(g)
                           /\ Moves => Unhaunted(g.src)
  <2>1. Waiting /\ AgreedTo /\ ViewInv /\ phase \notin Over
    BY DEF Steady, Over
  <2>2. QED
    BY <2>1 DEF InLists, Waiting, Waits, AgreedTo, PutOff, ViewInv
<1>3. e \in Entry /\ e.over \in BOOLEAN
  BY <1>2 DEF Entry
<1>4. PICK s \in PathsOnly : s = e.src
  BY <1>3 DEF Entry
<1>5. PICK k \in DOMAIN job.files : job.files[k] = s
  BY <1>2, <1>4 DEF Waits
<1>6. PICK n \in Names : n = Last(s)
  BY <1>1, <1>5
<1>7. PICK m \in Names :
         /\ c.dest = Append(job.destination, m)
         /\ job.kind # "duplicate" => m = IF mends /\ n \in Unwritable THEN Mended ELSE n
  <2>1. CASE job.kind = "duplicate"
    <3>1. <<n[1], n[2] + 1>> \in Names
      BY DEF Names
    <3>2. c.dest = Append(job.destination, <<n[1], n[2] + 1>>)
      BY <1>4, <1>6, <2>1 DEF FirstCall, FirstDest, FileCall, Unique
    <3>3. QED
      BY <2>1, <3>1, <3>2
  <2>2. CASE job.kind # "duplicate"
    BY <1>1, <1>4, <1>6, <2>2 DEF FirstCall, FirstDest, FileCall, Target
  <2>3. QED
    BY <2>1, <2>2
<1>8. PICK d \in PathsOnly : /\ d = Append(job.destination, m) /\ d = c.dest
                             /\ Front(d) = job.destination /\ Last(d) = m
                             /\ IsPrefix(d, d) /\ d # << >>
  <2>1. /\ Append(job.destination, m) \in Paths \ {<< >>}
        /\ Front(Append(job.destination, m)) = job.destination /\ Last(Append(job.destination, m)) = m
    BY <1>1, AppendToPath
  <2>2. IsPrefix(Append(job.destination, m), Append(job.destination, m))
    BY <2>1, PrefixReflexive
  <2>3. QED
    BY <1>7, <2>1, <2>2 DEF PathsOnly
<1>9. /\ c \in FileFrame /\ c.kind = "file" /\ c.src = s /\ c.step = "check" /\ c.over = e.over
  <2>1. c = [kind |-> "file", step |-> "check", src |-> s, over |-> e.over, nr |-> 2, dest |-> d]
    BY <1>4, <1>8 DEF FirstCall, FileCall
  <2>2. QED
    BY <1>3, <2>1 DEF FileFrame
<1>10. Final(s) = (IF n \in Unwritable THEN Mended ELSE n) /\ Final(s) \notin Unwritable
  BY <1>1, <1>6 DEF Final
<1>11. ASSUME Asking
       PROVE  /\ m = IF mends /\ n \in Unwritable THEN Mended ELSE n
              /\ m \in TargetNames(job)
              /\ OwnName(c) <=> m = Final(s)
              /\ m # Final(s) => n \in Unwritable /\ ~mends /\ m = n
  <2>1. m = IF mends /\ n \in Unwritable THEN Mended ELSE n
    BY <1>7, <1>11 DEF Asking
  <2>2. m \in TargetNames(job)
    BY <1>1, <1>5, <1>6, <2>1
  <2>3. OwnName(c) <=> m = Final(s)
    <3>1. Final(s) \in Names
      BY <1>1, <1>6, <1>10
    <3>2. Last(Append(job.destination, Final(s))) = Final(s)
      BY <1>1, <3>1, AppendToPath
    <3>3. OwnName(c) <=> d = Append(job.destination, Final(s))
      BY <1>8, <1>9 DEF OwnName
    <3>4. QED
      BY <1>8, <3>2, <3>3
  <2>4. QED
    BY <1>10, <2>1, <2>2, <2>3
<1>12. Asking => InTarget(job, c.dest)
  BY <1>8, <1>11 DEF InTarget
<1>13. ASSUME e.over
       PROVE  Moves /\ Asking /\ m = Final(s) /\ d = Place(s) /\ Place(s) \in DOMAIN disk /\ Agreed(s, Place(s))
  <2>1. Moves /\ Asking
    BY <1>2, <1>13 DEF Waits, Moves, Asking
  <2>2. Place(s) \in DOMAIN disk /\ Agreed(s, Place(s)) /\ (Last(s) \in Unwritable => mends)
    BY <1>2, <1>4, <1>13 DEF Holds
  <2>3. m = Final(s)
    BY <1>6, <1>10, <1>11, <2>1, <2>2
  <2>4. QED
    BY <1>8, <2>1, <2>2, <2>3 DEF Place
<1>14. ASSUME Asking, d \in DOMAIN disk
       PROVE  m = Final(s)
  <2>1. SUFFICES ASSUME m # Final(s)
                 PROVE  FALSE
    OBVIOUS
  <2>2. Last(d) \in Unwritable
    BY <1>8, <1>11, <1>14, <2>1
  <2>3. d \in DOMAIN before
    BY <1>8, <1>14, <2>2 DEF Steady, Aimed
  <2>4. before \in Disks /\ job \in Jobs /\ job.kind \in {"copy", "move"} /\ InTarget(job, d)
    BY <1>8, <1>12, <1>14 DEF Steady, Ground, Asking
  <2>5. QED
    BY <2>2, <2>3, <2>4 DEF Hypotheses, WritableTargets
<1>15. Aims(c)
  <2>1. e.over => Asking /\ OwnName(c)
    BY <1>11, <1>13
  <2>2. Asking /\ c.dest \in DOMAIN disk => OwnName(c)
    BY <1>8, <1>11, <1>14
  <2>3. ASSUME Asking
        PROVE  ~IsPrefix(Append(Front(c.dest), Final(c.src)), c.src) \/ OwnName(c)
    <3>1. CASE m = Final(s)
      BY <1>11, <2>3, <3>1
    <3>2. CASE m # Final(s)
      <4>1. Final(s) = Mended
        BY <1>10, <1>11, <2>3, <3>2
      <4>2. job \in Jobs /\ job.kind \in {"copy", "move"} /\ before \in Disks
        BY <2>3 DEF Asking, Steady, Ground
      <4>3. ~IsPrefix(Append(job.destination, Mended), job.files[k])
        BY <4>2 DEF Hypotheses, WritableTargets
      <4>4. QED
        BY <1>5, <1>8, <1>9, <4>1, <4>3
    <3>3. QED
      BY <3>1, <3>2
  <2>4. QED
    BY <1>9, <2>1, <2>2, <2>3 DEF Aims
<1>16. CallAgreed(c)
  <2>1. e.over => Agreed(s, d) /\ d \in DOMAIN disk
    BY <1>13
  <2>2. ASSUME phase = "prepare", d \in DOMAIN disk, n \in Unwritable
        PROVE  mends
    <3>1. Asking
      BY <2>2 DEF Steady, Calls, Moves, Asking
    <3>2. m = Final(s) /\ m = IF mends /\ n \in Unwritable THEN Mended ELSE n
      BY <1>11, <1>14, <2>2, <3>1
    <3>3. QED
      BY <1>10, <2>2, <3>2
  <2>3. QED
    BY <1>6, <1>8, <1>9, <2>1, <2>2 DEF CallAgreed
<1>17. Moves => CallUnhaunted(c)
  BY <1>2, <1>4, <1>9 DEF CallUnhaunted
<1>18. ASSUME NEW g, InLists(g), g.over, g.src # e.src
       PROVE  c.dest # Place(g.src)
  <2>1. Moves /\ Asking
    BY <1>2, <1>18 DEF Waits, Moves, Asking
  <2>2. PICK i \in DOMAIN job.files : job.files[i] = g.src
    BY <1>2, <1>18 DEF Waits
  <2>3. i # k
    BY <1>4, <1>5, <1>18, <2>2
  <2>4. Final(job.files[i]) # Final(job.files[k])
    BY <2>1, <2>3 DEF Hypotheses, NamesApart, Steady, Ground, Moves
  <2>5. Final(g.src) # m
    <3>1. Final(g.src) \notin Unwritable
      BY <1>1 DEF Final
    <3>2. QED
      BY <1>5, <1>11, <2>1, <2>2, <2>4, <3>1
  <2>6. Final(g.src) \in Names
    BY <1>1, <2>2
  <2>7. Last(Place(g.src)) = Final(g.src)
    BY <1>1, <2>6, AppendToPath DEF Place
  <2>8. QED
    BY <1>8, <2>5, <2>7
<1>19. QED
  BY <1>3, <1>4, <1>5, <1>8, <1>9, <1>12, <1>15, <1>16, <1>17, <1>18

\* The call is made.
LEMMA NextFileGoal ==
  ASSUME Hypotheses, Steady, Transfers, NextFile, UNCHANGED <<before, trash, job, undoing>>
  PROVE  TransferGoal
<1>1. /\ phase \in {"prepare", "transfer"} /\ stack = << >> /\ todo # << >>
      /\ todo' = Tail(todo)
      /\ UNCHANGED <<disk, phase, fallbacks, mends, skip, known, flags, agreed, always>>
  BY DEF NextFile, Told, Asked
<1>2. PICK e : e = Head(todo)
  OBVIOUS
<1>3. PICK c : c = FirstCall(e)
  OBVIOUS
<1>4. stack' = << c >>
  BY <1>2, <1>3 DEF NextFile, FirstCall
<1>5. /\ Ground /\ Calls /\ Aimed /\ Waiting /\ AgreedTo /\ ViewInv
      /\ phase \in TransferPhases /\ phase \notin Over /\ mends \in BOOLEAN
  BY <1>1 DEF Steady, Over
<1>6. /\ e \in Entry /\ e = todo[1] /\ Tail(todo) \in Seq(Entry) /\ Len(todo) \in Nat \ {0}
      /\ 1 \in DOMAIN todo
      /\ \A i \in DOMAIN Tail(todo) : i + 1 \in DOMAIN todo /\ Tail(todo)[i] = todo[i + 1]
  BY <1>1, <1>2, <1>5, NextOfList DEF Waiting
<1>7. InLists(e)
  BY <1>6 DEF InLists
<1>8. /\ c \in FileFrame /\ c.kind = "file" /\ c.src = e.src
      /\ c.src \in PathsOnly /\ Front(c.dest) = job.destination
      /\ \E k \in DOMAIN job.files : job.files[k] = e.src
      /\ Asking => InTarget(job, c.dest)
      /\ Aims(c) /\ CallAgreed(c) /\ (Moves => CallUnhaunted(c))
      /\ \A g : InLists(g) /\ g.over /\ g.src # e.src => c.dest # Place(g.src)
  BY <1>1, <1>3, <1>7, FirstFacts
<1>9. stack' \in Seq(FileFrame \cup FolderFrame) /\ Len(stack') = 1 /\ DOMAIN stack' = 1 .. 1 /\ stack'[1] = c
  BY <1>4, <1>8
<1>10. \A i \in DOMAIN stack' : i = 1 /\ stack'[i] = c
  BY <1>9
<1>11. job' = job /\ (Moves' <=> Moves) /\ (Asking' <=> Asking) /\ before' = before
  BY DEF Moves, Asking
<1>12. Ground'
  BY <1>1, <1>5, <1>11 DEF Ground, Removes
<1>13. Calls'
  <2>1. IsPrefix(job.destination, job.destination)
    BY <1>5, JobFacts, PrefixReflexive
  <2>2. \A i \in DOMAIN stack' :
           /\ i < Len(stack') \/ phase' = "prepare" => (stack'[i].kind = "folder" <=> i < Len(stack'))
           /\ IsPrefix(job'.destination, Front(stack'[i].dest))
           /\ Asking' => InTarget(job', stack'[i].dest)
    <3>1. ASSUME NEW i \in DOMAIN stack'
          PROVE  /\ i < Len(stack') \/ phase' = "prepare" => (stack'[i].kind = "folder" <=> i < Len(stack'))
                 /\ IsPrefix(job'.destination, Front(stack'[i].dest))
                 /\ Asking' => InTarget(job', stack'[i].dest)
      <4>1. i = 1 /\ stack'[i] = c /\ ~(i < Len(stack')) /\ stack'[i].kind # "folder"
        BY <1>8, <1>9, <1>10
      <4>2. IsPrefix(job'.destination, Front(stack'[i].dest))
        BY <1>8, <1>11, <2>1, <4>1
      <4>3. Asking' => InTarget(job', stack'[i].dest)
        BY <1>8, <1>11, <4>1
      <4>4. QED
        BY <4>1, <4>2, <4>3
    <3>2. QED
      BY <3>1
  <2>3. phase' = "prepare" => Len(stack') <= 1 /\ Moves'
    BY <1>1, <1>5, <1>9, <1>11 DEF Calls
  <2>4. phase' # "scan"
    BY <1>1
  <2>5. /\ \E k \in DOMAIN job'.files : job'.files[k] = stack'[1].src
        /\ Front(stack'[1].dest) = job'.destination
    BY <1>8, <1>9, <1>11
  <2>6. \A k \in DOMAIN stack' : 1 .. k - 1 = {} /\ ~(k > 1)
    BY <1>10
  <2>7. QED
    BY <1>9, <2>2, <2>3, <2>4, <2>5, <2>6 DEF Calls
<1>14. Aimed'
  <2>1. Aims(c)'
    BY <1>1, <1>8, <1>11 DEF Aims, OwnName
  <2>2. ASSUME NEW i \in DOMAIN stack'
        PROVE  /\ stack'[i].kind = "folder" => Walks(stack[i])'
               /\ stack'[i].kind = "file" => Aims(stack[i])'
    BY <1>8, <1>10, <2>1 DEF Aims, OwnName
  <2>3. Asking' => \A p \in DOMAIN disk' \ {<< >>} : Last(p) \in Unwritable => p \in DOMAIN before'
    BY <1>1, <1>5, <1>11 DEF Aimed
  <2>4. QED
    BY <2>2, <2>3, Zenon DEF Aimed
<1>15. \A i \in DOMAIN todo' : i + 1 \in DOMAIN todo /\ todo'[i] = todo[i + 1] /\ i + 1 # 1 /\ i \in Int
  <2>1. todo' \in Seq(Entry) /\ todo' = Tail(todo)
    BY <1>1, <1>6
  <2>2. \A i \in DOMAIN todo' : i \in Nat \ {0}
    BY <2>1, LenProperties
  <2>3. QED
    BY <1>6, <2>1, <2>2
<1>16. Waiting'
  <2>1. \A g : Waits(g)' <=> Waits(g)
    BY <1>11 DEF Waits
  <2>2. todo' \in Seq(Entry) /\ fallbacks' \in Seq(Entry)
    BY <1>1, <1>5, <1>6 DEF Waiting
  <2>3. (\A i \in DOMAIN todo : Waits(todo[i]))' /\ (\A i \in DOMAIN fallbacks : Waits(fallbacks[i]))'
    <3>1. \A i \in DOMAIN todo' : Waits(todo'[i])
      BY <1>5, <1>15 DEF Waiting
    <3>2. \A i \in DOMAIN fallbacks' : Waits(fallbacks'[i])
      BY <1>1, <1>5 DEF Waiting
    <3>3. QED
      BY <1>11, <3>1, <3>2 DEF Waits
  <2>4. ASSUME Moves
        PROVE  /\ \A i \in DOMAIN todo' : \A k \in DOMAIN todo' \ {i} : todo'[i].src # todo'[k].src
               /\ \A i \in DOMAIN fallbacks' : \A k \in DOMAIN fallbacks' \ {i} : fallbacks'[i].src # fallbacks'[k].src
               /\ \A i \in DOMAIN todo', k \in DOMAIN fallbacks' : todo'[i].src # fallbacks'[k].src
               /\ \A i \in DOMAIN todo' : todo'[i].src # stack'[1].src
               /\ \A i \in DOMAIN fallbacks' : fallbacks'[i].src # stack'[1].src
    <3>1. /\ \A i \in DOMAIN todo : \A k \in DOMAIN todo \ {i} : todo[i].src # todo[k].src
          /\ \A i \in DOMAIN fallbacks : \A k \in DOMAIN fallbacks \ {i} : fallbacks[i].src # fallbacks[k].src
          /\ \A i \in DOMAIN todo, k \in DOMAIN fallbacks : todo[i].src # fallbacks[k].src
      BY <1>5, <2>4 DEF Waiting
    <3>2. \A i \in DOMAIN todo' : \A k \in DOMAIN todo' \ {i} : todo'[i].src # todo'[k].src
      <4>1. ASSUME NEW i \in DOMAIN todo', NEW k \in DOMAIN todo' \ {i}
            PROVE  todo'[i].src # todo'[k].src
        <5>1. i + 1 \in DOMAIN todo /\ k + 1 \in DOMAIN todo \ {i + 1}
          BY <1>15
        <5>2. todo[i + 1].src # todo[k + 1].src
          BY <3>1, <5>1
        <5>3. QED
          BY <1>15, <5>2
      <4>2. QED
        BY <4>1
    <3>3. \A i \in DOMAIN todo', k \in DOMAIN fallbacks' : todo'[i].src # fallbacks'[k].src
      BY <1>1, <1>15, <3>1
    <3>4. stack'[1].src = todo[1].src
      BY <1>6, <1>8, <1>9
    <3>5. \A i \in DOMAIN todo' : todo'[i].src # stack'[1].src
      BY <1>6, <1>15, <3>1, <3>4
    <3>6. \A i \in DOMAIN fallbacks' : fallbacks'[i].src # stack'[1].src
      BY <1>1, <1>6, <3>1, <3>4
    <3>7. QED
      BY <1>1, <3>1, <3>2, <3>3, <3>5, <3>6
  <2>5. QED
    BY <1>11, <2>2, <2>3, <2>4 DEF Waiting
<1>17. AgreedTo'
  <2>1. \A g : Holds(g)' <=> Holds(g)
    BY <1>1, <1>11 DEF Holds, Place, Final, Agreed, Contents, Under
  <2>2. \A g : Place(g.src)' = Place(g.src)
    BY <1>11 DEF Place, Final
  <2>3. ASSUME NEW g, InLists(g), Moves => g.src # e.src
        PROVE  PutOff(g)'
    <3>1. PutOff(g) /\ Waits(g)
      BY <1>5, <2>3 DEF AgreedTo, InLists, Waiting
    <3>2. Holds(g)'
      BY <2>1, <3>1 DEF PutOff
    <3>3. g.over => stack'[1].dest # Place(g.src)
      BY <1>8, <1>9, <2>3, <3>1 DEF Waits
    <3>4. QED
      BY <2>2, <3>2, <3>3 DEF PutOff
  <2>4. (\A i \in DOMAIN todo : PutOff(todo[i]))'
    <3>1. ASSUME NEW i \in DOMAIN todo'
          PROVE  PutOff(todo[i])'
      <4>1. PICK g : g = todo'[i]
        OBVIOUS
      <4>2. InLists(g) /\ (Moves => g.src # e.src)
        BY <1>5, <1>6, <1>15, <4>1 DEF InLists, Waiting
      <4>3. PutOff(g)'
        BY <2>3, <4>2
      <4>4. QED
        BY <4>1, <4>3
    <3>2. QED
      BY <3>1
  <2>5. (\A i \in DOMAIN fallbacks : PutOff(fallbacks[i]))'
    <3>1. ASSUME NEW i \in DOMAIN fallbacks'
          PROVE  PutOff(fallbacks[i])'
      <4>1. PICK g : g = fallbacks'[i]
        OBVIOUS
      <4>2. InLists(g) /\ (Moves => g.src # e.src)
        BY <1>1, <1>5, <1>6, <4>1 DEF InLists, Waiting
      <4>3. PutOff(g)'
        BY <2>3, <4>2
      <4>4. QED
        BY <4>1, <4>3
    <3>2. QED
      BY <3>1
  <2>6. CallAgreed(c)'
    BY <1>1, <1>8, <1>11 DEF CallAgreed, Agreed, Contents, Under
  <2>7. ASSUME NEW i \in DOMAIN stack'
        PROVE  CallAgreed(stack[i])'
    BY <1>10, <2>6 DEF CallAgreed
  <2>8. flags'["replaceAll"] => always'
    BY <1>1, <1>5 DEF AgreedTo
  <2>9. QED
    BY <2>4, <2>5, <2>7, <2>8 DEF AgreedTo
<1>18. ViewInv'
  <2>1. Ghosts' = Ghosts
    BY <1>1 DEF Ghosts
  <2>2. ToldInv'
    BY <1>1, <1>5, <1>11, <2>1 DEF ViewInv, ToldInv
  <2>3. ASSUME Moves
        PROVE  /\ AsBefore'
               /\ \A i \in DOMAIN todo' : Unhaunted(todo[i].src)'
               /\ \A i \in DOMAIN fallbacks' : Unhaunted(fallbacks[i].src)'
               /\ \A i \in DOMAIN stack' : CallUnhaunted(stack[i])'
    <3>1. AsBefore'
      BY <1>1, <1>5, <1>11, <2>3 DEF ViewInv, AsBefore
    <3>2. \A i \in DOMAIN todo' : Unhaunted(todo'[i].src)
      BY <1>5, <1>15, <2>3 DEF ViewInv
    <3>3. \A i \in DOMAIN fallbacks' : Unhaunted(fallbacks'[i].src)
      BY <1>1, <1>5, <2>3 DEF ViewInv
    <3>4. CallUnhaunted(c)'
      BY <1>8, <2>1, <2>3 DEF CallUnhaunted, Unhaunted
    <3>5. \A i \in DOMAIN stack' : CallUnhaunted(stack[i])'
      BY <1>10, <3>4 DEF CallUnhaunted, Unhaunted
    <3>6. QED
      BY <2>1, <3>1, <3>2, <3>3, <3>5 DEF Unhaunted
  <2>4. known' \subseteq Paths
    BY <1>1, <1>5 DEF ViewInv
  <2>5. QED
    BY <1>11, <2>2, <2>3, <2>4 DEF ViewInv
<1>19. Kept \subseteq Kept'
  BY <1>1 DEF Kept, Trashed
<1>20. phase' \in TransferPhases /\ mends' \in BOOLEAN
  BY <1>1, <1>5
<1>21. QED
  BY <1>12, <1>13, <1>14, <1>16, <1>17, <1>18, <1>19, <1>20 DEF Steady, TransferGoal

\* Between the lists.
LEMMA QuietPhase ==
  ASSUME Hypotheses, Steady, Transfers, stack = << >>, phase \notin Over,
         UNCHANGED <<before, job, trash, disk, stack, mends, agreed, always, known>>,
         flags' \in [Flag -> BOOLEAN], flags'["replaceAll"] = flags["replaceAll"],
         phase' \in {"scan", "transfer", "done"},
         \/ todo' = todo /\ fallbacks' = fallbacks
         \/ todo' = fallbacks /\ fallbacks' = << >>
  PROVE  TransferGoal
<1>1. /\ Ground /\ Calls /\ Aimed /\ Waiting /\ AgreedTo /\ ViewInv /\ mends \in BOOLEAN
  BY DEF Steady
<1>2. stack' = << >> /\ DOMAIN stack' = {} /\ Len(stack') = 0
  OBVIOUS
<1>3. (Moves' <=> Moves) /\ (Asking' <=> Asking)
  BY DEF Moves, Asking
<1>4. Ground'
  BY <1>1, <1>2 DEF Ground, Removes
<1>5. Calls'
  BY <1>1, <1>2 DEF Calls
<1>6. Aimed'
  BY <1>1, <1>2, <1>3 DEF Aimed
<1>7. Waiting'
  <2>1. \A g : Waits(g)' <=> Waits(g)
    BY <1>3 DEF Waits
  <2>2. CASE todo' = todo /\ fallbacks' = fallbacks
    BY <1>1, <1>2, <1>3, <2>1, <2>2 DEF Waiting
  <2>3. CASE todo' = fallbacks /\ fallbacks' = << >>
    <3>1. DOMAIN fallbacks' = {} /\ fallbacks' \in Seq(Entry)
      BY <2>3
    <3>2. QED
      BY <1>1, <1>2, <1>3, <2>1, <2>3, <3>1 DEF Waiting
  <2>4. QED
    BY <2>2, <2>3
<1>8. AgreedTo'
  <2>1. ASSUME NEW g, InLists(g)
        PROVE  PutOff(g)'
    <3>1. PutOff(g)
      BY <1>1, <2>1 DEF AgreedTo, InLists
    <3>2. QED
      BY <1>2, <3>1 DEF PutOff, Holds, Place, Final, Agreed, Contents, Under
  <2>2. (\A i \in DOMAIN todo : PutOff(todo[i]))'
    <3>1. ASSUME NEW i \in DOMAIN todo'
          PROVE  PutOff(todo[i])'
      <4>1. PICK g : g = todo'[i]
        OBVIOUS
      <4>2. PutOff(g)'
        BY <2>1, <4>1 DEF InLists
      <4>3. QED
        BY <4>1, <4>2
    <3>2. QED
      BY <3>1
  <2>3. (\A i \in DOMAIN fallbacks : PutOff(fallbacks[i]))'
    <3>1. ASSUME NEW i \in DOMAIN fallbacks'
          PROVE  PutOff(fallbacks[i])'
      <4>1. PICK g : g = fallbacks'[i]
        OBVIOUS
      <4>2. InLists(g)
        BY <3>1, <4>1 DEF InLists
      <4>3. PutOff(g)'
        BY <2>1, <4>2
      <4>4. QED
        BY <4>1, <4>3
    <3>2. QED
      BY <3>1
  <2>4. flags'["replaceAll"] => always'
    BY <1>1 DEF AgreedTo
  <2>5. QED
    BY <1>2, <2>2, <2>3, <2>4 DEF AgreedTo
<1>9. ViewInv'
  <2>1. ToldInv'
    BY <1>1, <1>3 DEF ViewInv, ToldInv, Ghosts
  <2>2. ASSUME Moves
        PROVE  /\ AsBefore'
               /\ \A i \in DOMAIN todo' : Unhaunted(todo[i].src)'
               /\ \A i \in DOMAIN fallbacks' : Unhaunted(fallbacks[i].src)'
    <3>1. AsBefore'
      BY <1>1, <2>2 DEF ViewInv, AsBefore
    <3>2. \A g : InLists(g) => Unhaunted(g.src)'
      BY <1>1, <2>2 DEF ViewInv, InLists, Unhaunted, Ghosts
    <3>3. \A i \in DOMAIN todo' : InLists(todo'[i])
      BY DEF InLists
    <3>4. \A i \in DOMAIN fallbacks' : InLists(fallbacks'[i])
      BY DEF InLists
    <3>5. QED
      BY <3>1, <3>2, <3>3, <3>4 DEF Unhaunted, Ghosts
  <2>3. known' \subseteq Paths
    BY <1>1 DEF ViewInv
  <2>4. QED
    BY <1>2, <1>3, <2>1, <2>2, <2>3 DEF ViewInv
<1>10. Kept \subseteq Kept'
  BY DEF Kept, Trashed
<1>11. phase' \in TransferPhases /\ mends' \in BOOLEAN
  BY <1>1 DEF TransferPhases, Over
<1>12. QED
  BY <1>4, <1>5, <1>6, <1>7, <1>8, <1>9, <1>10, <1>11 DEF Steady, TransferGoal

LEMMA PhaseDoneGoal ==
  ASSUME Hypotheses, Steady, Transfers, PhaseDone, UNCHANGED <<before, trash, job, undoing>>, ~undoing
  PROVE  TransferGoal
<1>1. /\ stack = << >> /\ phase \in {"prepare", "transfer"}
      /\ phase' \in {"scan", "done"} /\ todo' = fallbacks /\ fallbacks' = << >>
      /\ UNCHANGED <<disk, stack, mends, known, flags, agreed, always>>
  BY DEF PhaseDone, Told, Asked
<1>2. phase \notin Over /\ flags' \in [Flag -> BOOLEAN]
  BY <1>1 DEF Over, Steady, Ground
<1>3. QED
  BY <1>1, <1>2, QuietPhase

LEMMA ScanGoal ==
  ASSUME Hypotheses, Steady, Transfers, Scan, UNCHANGED <<before, trash, job, undoing>>, ~undoing
  PROVE  TransferGoal
<1>1. /\ phase = "scan" /\ Scans("transfer", "done")
      /\ UNCHANGED <<disk, todo, fallbacks, stack, mends, agreed, always, known>>
  BY DEF Scan, Told
<1>2. stack = << >> /\ phase \notin Over /\ flags \in [Flag -> BOOLEAN]
  BY <1>1 DEF Steady, Calls, Ground, Over
<1>3. phase' \in {"transfer", "done"}
  BY <1>1 DEF Scans
<1>4. flags' \in [Flag -> BOOLEAN] /\ flags'["replaceAll"] = flags["replaceAll"]
  <2>1. CASE flags' = flags
    BY <1>2, <2>1
  <2>2. CASE \E all \in BOOLEAN : flags' = [flags EXCEPT !["skipErrors"] = @ \/ all]
    <3>1. PICK v \in BOOLEAN : flags' = [flags EXCEPT !["skipErrors"] = v]
      BY <2>2
    <3>2. QED
      BY <1>2, <3>1 DEF Flag
  <2>3. CASE flags' = [flags EXCEPT !["aborted"] = TRUE]
    BY <1>2, <2>3 DEF Flag
  <2>4. QED
    BY <1>1, <2>1, <2>2, <2>3 DEF Scans
<1>5. QED
  BY <1>1, <1>2, <1>3, <1>4, QuietPhase

LEMMA CallGoal ==
  ASSUME Hypotheses, Steady, Transfers, Call, UNCHANGED <<before, trash, job, undoing>>
  PROVE  TransferGoal
<1>1. stack # << >> /\ UNCHANGED <<phase, todo>>
  BY DEF Call
<1>2. Beside
  BY <1>1 DEF Beside
<1>3. CASE phase = "prepare" /\ Prepare
  <2>1. Working
    BY <1>1, <1>3 DEF Working
  <2>2. QED
    BY <1>2, <1>3, <2>1, PrepareStep
<1>4. CASE phase = "transfer" /\ Top.kind = "file" /\ (Check \/ Try) /\ UNCHANGED fallbacks
  <2>1. Working
    BY <1>1, <1>4 DEF Working
  <2>2. QED
    BY <1>2, <1>4, <2>1, CheckStep, TryStep
<1>5. CASE phase = "transfer" /\ Top.kind = "folder" /\ (NextChild \/ FolderDone) /\ UNCHANGED fallbacks
  <2>1. Working
    BY <1>1, <1>5 DEF Working
  <2>2. QED
    BY <1>2, <1>5, <2>1, NextChildGoal, FolderDoneGoal
<1>6. QED
  BY <1>3, <1>4, <1>5 DEF Call

\* A job that copies or moves loses nothing unasked, and tells the views.
LEMMA TransferStep ==
  ASSUME Hypotheses, Steady, Transfer, ~undoing
  PROVE  Transfers /\ TransferGoal /\ UNCHANGED <<before, job, undoing>>
<1>1. Transfers /\ UNCHANGED <<before, trash, job, undoing>>
  BY DEF Transfer, Transfers
<1>2. CASE NextFile
  BY <1>1, <1>2, NextFileGoal
<1>3. CASE PhaseDone
  BY <1>1, <1>3, PhaseDoneGoal
<1>4. CASE Scan
  BY <1>1, <1>4, ScanGoal
<1>5. CASE Call
  BY <1>1, <1>5, CallGoal
<1>6. QED
  BY <1>1, <1>2, <1>3, <1>4, <1>5 DEF Transfer

-----------------------------------------------------------------------------
\* The views, whatever is done.

\* What is there is known.
DiskKnown == DOMAIN disk \subseteq known

LEMMA KnownTaken ==
  ASSUME DiskKnown, NEW ps, NEW qs, disk' = Without(ps), known' = known \ qs,
         \A q \in DOMAIN disk \ ps : q \notin qs
  PROVE  DiskKnown'
  BY DEF DiskKnown, Without

LEMMA KnownPut ==
  ASSUME DiskKnown, NEW p, DOMAIN disk' = DOMAIN disk \cup {p}, Added(p)
  PROVE  DiskKnown'
  BY DEF DiskKnown, Added

LEMMA KnownCarried ==
  ASSUME DiskKnown, NEW src, NEW dest, disk' = Carry(src, dest), Relocated(src, dest)
  PROVE  DiskKnown'
<1>1. DOMAIN disk' = (DOMAIN disk \ Under(src)) \cup {dest \o Rest(src, q) : q \in Under(src)}
  BY DEF Carry
<1>2. known' = {q \in known : ~IsPrefix(src, q)}
               \cup {dest \o Rest(src, q) : q \in {r \in known : IsPrefix(src, r)}}
  BY DEF Relocated
<1>3. ASSUME NEW q \in DOMAIN disk \ Under(src)
      PROVE  q \in known'
  BY <1>2 DEF DiskKnown, Under
<1>4. ASSUME NEW q \in Under(src)
      PROVE  dest \o Rest(src, q) \in known'
  BY <1>2 DEF DiskKnown, Under
<1>5. QED
  BY <1>1, <1>3, <1>4 DEF DiskKnown

LEMMA KnownSame ==
  ASSUME DiskKnown, UNCHANGED <<disk, known>>
  PROVE  DiskKnown'
  BY DEF DiskKnown

LEMMA TransferredKnown ==
  ASSUME DiskKnown, NEW c, Transferred(c)
  PROVE  DiskKnown'
<1>1. CASE Moves
  <2>1. disk' = Carry(c.src, c.dest) /\ Relocated(c.src, c.dest)
    BY <1>1 DEF Transferred
  <2>2. QED
    BY <2>1, KnownCarried
<1>2. CASE ~Moves
  <2>1. disk' = Put(c.src, c.dest) /\ Added(c.dest)
    BY <1>2 DEF Transferred
  <2>2. QED
    BY <2>1, KnownPut DEF Put
<1>3. QED
  BY <1>1, <1>2

LEMMA RecursesKnown ==
  ASSUME DiskKnown, NEW c, Recurses(c)
  PROVE  DiskKnown'
<1>1. CASE MakesRoom(c)
  BY <1>1, KnownTaken DEF MakesRoom, Removed
<1>2. CASE Fails
  BY <1>2, KnownSame DEF Fails, Told
<1>3. CASE Makes(c)
  BY <1>3, KnownPut DEF Makes, Put
<1>4. CASE Mends(c)
  BY <1>4, KnownSame DEF Mends, Told
<1>5. CASE CannotMake(c)
  BY <1>5, KnownSame DEF CannotMake, Told
<1>6. QED
  BY <1>1, <1>2, <1>3, <1>4, <1>5 DEF Recurses

LEMMA CallKnown ==
  ASSUME DiskKnown, Call
  PROVE  DiskKnown'
<1>1. CASE Prepare
  <2>1. CASE Top.step = "check"
    BY <1>1, <2>1, KnownSame DEF Prepare, Told
  <2>2. CASE Top.step # "check"
    <3>1. \/ Transferred(Top) \/ UNCHANGED <<disk, known>> \/ Mends(Top) \/ Fails
      BY <1>1, <2>2 DEF Prepare, Told
    <3>2. QED
      BY <3>1, TransferredKnown, KnownSame DEF Mends, Fails, Told
  <2>3. QED
    BY <2>1, <2>2
<1>2. CASE Check
  BY <1>2, KnownSame DEF Check, Told
<1>3. CASE Try
  <2>1. \/ Transferred(Top) \/ NextName(Top) \/ UNCHANGED <<disk, known>>
        \/ Clears(Top) \/ Merges(Top) \/ Recurses(Top) \/ Mends(Top) \/ Fails
    BY <1>3 DEF Try, Told
  <2>2. CASE Clears(Top)
    <3>1. PICK rs : disk' = Without(rs) /\ Removed(rs)
      BY <2>2 DEF Clears
    <3>2. QED
      BY <3>1, KnownTaken DEF Removed
  <2>3. CASE NextName(Top) \/ Merges(Top) \/ Mends(Top) \/ Fails
    BY <2>3, KnownSame DEF NextName, Merges, Mends, Fails, Told
  <2>4. QED
    BY <2>1, <2>2, <2>3, TransferredKnown, RecursesKnown, KnownSame
<1>4. CASE NextChild
  BY <1>4, KnownSame DEF NextChild, Told
<1>5. CASE FolderDone
  <2>1. known' = known /\ (disk' = disk \/ disk' = Without({Top.src}))
    BY <1>5 DEF FolderDone, Told
  <2>2. QED
    BY <2>1 DEF DiskKnown, Without
<1>6. QED
  BY <1>1, <1>2, <1>3, <1>4, <1>5 DEF Call

LEMMA RemovalKnown ==
  ASSUME DiskKnown, Removal
  PROVE  DiskKnown'
<1>1. CASE Confirm \/ ConfirmTrash \/ TrashDone \/ ScanFiles \/ NextFileToDelete \/ DeleteDone
  BY <1>1, KnownSame DEF Confirm, ConfirmTrash, TrashDone, ScanFiles, NextFileToDelete, DeleteDone, Told
<1>2. CASE Trash
  <2>1. PICK p : Goes(p) \/ Stays(p)
    BY <1>2 DEF Trash
  <2>2. CASE Goes(p)
    BY <2>2, KnownTaken DEF Goes, Removed, Under
  <2>3. CASE Stays(p)
    BY <2>3, KnownSame DEF Stays, Told
  <2>4. QED
    BY <2>1, <2>2, <2>3
<1>3. CASE Delete
  <2>1. UNCHANGED <<disk, known>> \/ Deletes(Top.src)
    <3>1. CASE DeleteFile
      BY <3>1 DEF DeleteFile, Told
    <3>2. CASE NextInFolder
      BY <3>2 DEF NextInFolder, Told
    <3>3. CASE LeaveFolder
      BY <3>3 DEF LeaveFolder, Told
    <3>4. QED
      BY <1>3, <3>1, <3>2, <3>3 DEF Delete
  <2>2. QED
    BY <2>1, KnownTaken, KnownSame DEF Deletes, Removed
<1>4. QED
  BY <1>1, <1>2, <1>3 DEF Removal

LEMMA CreationKnown ==
  ASSUME DiskKnown, Creation
  PROVE  DiskKnown'
<1>1. CASE Verify \/ NextToMake \/ MakeDone
  BY <1>1, KnownSame DEF Verify, NextToMake, MakeDone, Told
<1>2. CASE Make
  <2>1. \/ UNCHANGED <<disk, known>>
        \/ DOMAIN disk' = DOMAIN disk \cup {Top.dest} /\ Added(Top.dest)
    BY <1>2 DEF Make, Told
  <2>2. QED
    BY <2>1, KnownPut, KnownSame
<1>3. QED
  BY <1>1, <1>2 DEF Creation

LEMMA KnownStep ==
  ASSUME DiskKnown, [Next]_vars
  PROVE  DiskKnown'
<1>1. CASE Transfer
  <2>1. CASE NextFile \/ PhaseDone \/ Scan
    BY <2>1, KnownSame DEF NextFile, PhaseDone, Scan, Told
  <2>2. QED
    BY <1>1, <2>1, CallKnown DEF Transfer
<1>2. CASE Removal \/ Creation
  BY <1>2, RemovalKnown, CreationKnown
<1>3. CASE Cancel \/ EmptyTrash \/ UNCHANGED vars
  BY <1>3, KnownSame DEF Cancel, EmptyTrash, vars
<1>4. CASE Undo
  <2>1. Heard \/ UNCHANGED <<disk, known>>
    BY <1>4 DEF Undo, UndoMaking, UndoMove, UndoTrash
  <2>2. CASE Heard
    BY <2>2 DEF Heard, DiskKnown
  <2>3. QED
    BY <2>1, <2>2, KnownSame
<1>5. QED
  BY <1>1, <1>2, <1>3, <1>4 DEF Next, Thread

-----------------------------------------------------------------------------
\* The views, where nothing is moved.

\* What is known is there.
NoGhosts == known \subseteq DOMAIN disk

LEMMA NoGhostsSame ==
  ASSUME NoGhosts, UNCHANGED <<disk, known>>
  PROVE  NoGhosts'
  BY DEF NoGhosts

LEMMA NoGhostsTaken ==
  ASSUME NoGhosts, NEW ps, NEW qs, disk' = Without(ps), known' = known \ qs,
         \A q \in DOMAIN disk : q \in ps => q \in qs
  PROVE  NoGhosts'
  BY DEF NoGhosts, Without

LEMMA NoGhostsPut ==
  ASSUME NoGhosts, NEW p, DOMAIN disk' = DOMAIN disk \cup {p}, Added(p)
  PROVE  NoGhosts'
  BY DEF NoGhosts, Added

LEMMA RemovalNoGhosts ==
  ASSUME NoGhosts, Removal
  PROVE  NoGhosts'
<1>1. CASE Confirm \/ ConfirmTrash \/ TrashDone \/ ScanFiles \/ NextFileToDelete \/ DeleteDone
  BY <1>1, NoGhostsSame DEF Confirm, ConfirmTrash, TrashDone, ScanFiles, NextFileToDelete, DeleteDone, Told
<1>2. CASE Trash
  <2>1. PICK p : Goes(p) \/ Stays(p)
    BY <1>2 DEF Trash
  <2>2. CASE Goes(p)
    <3>1. disk' = Without(Under(p)) /\ known' = known \ {q \in known : IsPrefix(p, q)}
      BY <2>2 DEF Goes, Removed
    <3>2. QED
      BY <3>1 DEF NoGhosts, Without, Under
  <2>3. CASE Stays(p)
    BY <2>3, NoGhostsSame DEF Stays, Told
  <2>4. QED
    BY <2>1, <2>2, <2>3
<1>3. CASE Delete
  <2>1. UNCHANGED <<disk, known>> \/ Deletes(Top.src)
    <3>1. CASE DeleteFile
      BY <3>1 DEF DeleteFile, Told
    <3>2. CASE NextInFolder
      BY <3>2 DEF NextInFolder, Told
    <3>3. CASE LeaveFolder
      BY <3>3 DEF LeaveFolder, Told
    <3>4. QED
      BY <1>3, <3>1, <3>2, <3>3 DEF Delete
  <2>2. QED
    BY <2>1, NoGhostsTaken, NoGhostsSame DEF Deletes, Removed
<1>4. QED
  BY <1>1, <1>2, <1>3 DEF Removal

LEMMA CreationNoGhosts ==
  ASSUME NoGhosts, Creation
  PROVE  NoGhosts'
<1>1. CASE Verify \/ NextToMake \/ MakeDone
  BY <1>1, NoGhostsSame DEF Verify, NextToMake, MakeDone, Told
<1>2. CASE Make
  <2>1. \/ UNCHANGED <<disk, known>>
        \/ DOMAIN disk' = DOMAIN disk \cup {Top.dest} /\ Added(Top.dest)
    BY <1>2 DEF Make, Told
  <2>2. QED
    BY <2>1, NoGhostsPut, NoGhostsSame
<1>3. QED
  BY <1>1, <1>2 DEF Creation

\* Where nothing is moved the views know exactly what is there.
LEMMA ViewsExact ==
  ASSUME ~Moves, ViewInv
  PROVE  DiskKnown /\ NoGhosts
<1>1. ToldInv
  BY DEF ViewInv
<1>2. DOMAIN disk \subseteq known /\ Ghosts = {}
  BY <1>1 DEF ToldInv
<1>3. QED
  BY <1>2 DEF DiskKnown, NoGhosts, Ghosts

LEMMA ExactViews ==
  ASSUME ~Moves', Tree(disk'), DiskKnown', NoGhosts'
  PROVE  ViewInv'
<1>1. DOMAIN disk' \subseteq Paths
  BY DEF Tree
<1>2. known' \subseteq Paths /\ Ghosts' = {}
  BY <1>1 DEF NoGhosts, Ghosts
<1>3. ToldInv'
  BY <1>2 DEF ToldInv, DiskKnown
<1>4. QED
  BY <1>2, <1>3 DEF ViewInv

-----------------------------------------------------------------------------
\* The steps.

LEMMA LossStays ==
  ASSUME LossInv, UNCHANGED before, Kept \subseteq Kept'
  PROVE  LossInv'
  BY DEF LossInv

LEMMA TransferSound ==
  ASSUME Hypotheses, Sound, ~undoing, Transfer
  PROVE  Sound'
<1>1. Transfers /\ ~Removes /\ ~(Links \/ Creates)
  BY DEF Transfer, Transfers, Copies, Moves, Removes, Links, Creates
<1>2. Steady
  BY <1>1 DEF Sound, TransferInv, Steady
<1>3. TransferGoal /\ UNCHANGED <<before, job, undoing>>
  BY <1>2, TransferStep
<1>4. Steady' /\ Kept \subseteq Kept'
  BY <1>3 DEF TransferGoal
<1>5. Ground' /\ TransferInv' /\ mends' \in BOOLEAN /\ ViewInv'
  BY <1>4 DEF Steady, TransferInv
<1>6. RemovalInv'
  BY <1>1, <1>3 DEF RemovalInv, Removes
<1>7. CreationInv'
  BY <1>1, <1>3 DEF CreationInv, Links, Creates
<1>8. LossInv'
  BY <1>3, <1>4, LossStays DEF Sound
<1>9. QED
  BY <1>5, <1>6, <1>7, <1>8 DEF Sound

LEMMA RemovalSound ==
  ASSUME Hypotheses, Sound, Removal
  PROVE  Sound'
<1>1. Removes /\ ~Transfers /\ ~Moves /\ ~(Links \/ Creates) /\ mends' = mends
  BY DEF Removal, Transfers, Copies, Moves, Removes, Links, Creates
<1>2. Ground /\ RemovalInv /\ ProperJobs /\ LossInv /\ ViewInv /\ mends \in BOOLEAN
  BY DEF Sound, Hypotheses
<1>3. RemovalGoal /\ UNCHANGED <<before, job, undoing>>
  BY <1>2, RemovalStep
<1>4. Ground' /\ RemovalInv' /\ Kept \subseteq Kept'
  BY <1>3 DEF RemovalGoal
<1>5. TransferInv'
  BY <1>1, <1>3 DEF TransferInv, Transfers, Copies, Moves
<1>6. CreationInv'
  BY <1>1, <1>3 DEF CreationInv, Links, Creates
<1>7. LossInv'
  BY <1>2, <1>3, <1>4, LossStays
<1>8. ~Moves'
  BY <1>1, <1>3 DEF Moves
<1>9. Tree(disk) /\ Tree(disk')
  BY <1>2, <1>4 DEF Ground, Tree
<1>10. DiskKnown /\ NoGhosts
  BY <1>1, <1>2, <1>9, ViewsExact
<1>11. [Next]_vars
  BY DEF Next, Thread
<1>12. DiskKnown' /\ NoGhosts'
  BY <1>10, <1>11, KnownStep, RemovalNoGhosts
<1>13. ViewInv'
  BY <1>8, <1>9, <1>12, ExactViews
<1>14. QED
  BY <1>1, <1>2, <1>4, <1>5, <1>6, <1>7, <1>13 DEF Sound

LEMMA CreationSound ==
  ASSUME Hypotheses, Sound, Creation
  PROVE  Sound'
<1>1. (Links \/ Creates) /\ ~Transfers /\ ~Moves /\ ~Removes
  BY DEF Creation, Transfers, Copies, Moves, Removes, Links, Creates
<1>2. Ground /\ CreationInv /\ ProperJobs /\ LossInv /\ ViewInv /\ mends \in BOOLEAN
  BY DEF Sound, Hypotheses
<1>3. CreationGoal /\ UNCHANGED <<before, job, undoing>> /\ mends' \in BOOLEAN
  BY <1>2, CreationStep
<1>4. Ground' /\ CreationInv' /\ Kept \subseteq Kept'
  BY <1>3 DEF CreationGoal
<1>5. TransferInv'
  BY <1>1, <1>3 DEF TransferInv, Transfers, Copies, Moves
<1>6. RemovalInv'
  BY <1>1, <1>3 DEF RemovalInv, Removes
<1>7. LossInv'
  BY <1>2, <1>3, <1>4, LossStays
<1>8. ~Moves'
  BY <1>1, <1>3 DEF Moves
<1>9. Tree(disk) /\ Tree(disk')
  BY <1>2, <1>4 DEF Ground, Tree
<1>10. DiskKnown /\ NoGhosts
  BY <1>1, <1>2, <1>9, ViewsExact
<1>11. [Next]_vars
  BY DEF Next, Thread
<1>12. DiskKnown' /\ NoGhosts'
  BY <1>10, <1>11, KnownStep, CreationNoGhosts
<1>13. ViewInv'
  BY <1>8, <1>9, <1>12, ExactViews
<1>14. QED
  BY <1>3, <1>4, <1>5, <1>6, <1>7, <1>13 DEF Sound

\* What the job does depends on the answers that are remembered, not on whether it is
\* aborted.
LEMMA CancelSound ==
  ASSUME Sound, flags' \in [Flag -> BOOLEAN],
         flags'["replaceAll"] = flags["replaceAll"], flags'["deleteAll"] = flags["deleteAll"],
         UNCHANGED <<disk, before, trash, job, phase, todo, fallbacks, stack, mends, skip,
                     agreed, always, pairs, undoing, known>>
  PROVE  Sound'
<1>1. Ground'
  BY DEF Sound, Ground, Removes, Tree
<1>2. /\ (Moves' <=> Moves) /\ (Copies' <=> Copies) /\ (Asking' <=> Asking) /\ (Removes' <=> Removes)
      /\ (Transfers' <=> Transfers)
  BY DEF Moves, Copies, Asking, Removes, Transfers
<1>3. TransferInv'
  <2>1. SUFFICES ASSUME Transfers
                 PROVE  /\ Calls' /\ Aimed' /\ Waiting' /\ AgreedTo' /\ phase' \in TransferPhases
    BY <1>2 DEF TransferInv
  <2>2. Calls /\ Aimed /\ Waiting /\ AgreedTo /\ phase \in TransferPhases
    BY <2>1 DEF Sound, TransferInv
  <2>3. Calls'
    BY <1>2, <2>2 DEF Calls
  <2>4. \A c : /\ Walks(c)' <=> Walks(c)
               /\ Aims(c)' <=> Aims(c)
    BY <1>2 DEF Walks, Aims
  <2>5. Aimed'
    BY <1>2, <2>2, <2>4 DEF Aimed
  <2>6. \A e : Waits(e)' <=> Waits(e)
    BY <1>2 DEF Waits
  <2>7. Waiting'
    BY <1>2, <2>2, <2>6 DEF Waiting
  <2>8. \A p, q : Agreed(p, q)' <=> Agreed(p, q)
    BY DEF Agreed, Contents, Under
  <2>9. \A c : /\ CallAgreed(c)' <=> CallAgreed(c)
               /\ PutOff(c)' <=> PutOff(c)
    BY <2>8 DEF CallAgreed, PutOff, Holds, Place
  <2>10. AgreedTo'
    BY <2>2, <2>9 DEF AgreedTo
  <2>11. QED
    BY <2>2, <2>3, <2>5, <2>7, <2>10
<1>4. RemovalInv'
  <2>1. SUFFICES ASSUME Removes
                 PROVE  RemovalInv'
    BY <1>2 DEF RemovalInv
  <2>2. \A p : Doomed(p)' <=> Doomed(p)
    BY DEF Doomed, Contents, Under
  <2>3. /\ TodoDoomed' <=> TodoDoomed
        /\ FallbacksDoomed' <=> FallbacksDoomed
        /\ CallsDoomed' <=> CallsDoomed
    BY <2>2 DEF TodoDoomed, FallbacksDoomed, CallsDoomed
  <2>4. DeleteCalls' <=> DeleteCalls
    BY DEF DeleteCalls
  <2>5. RemovalInv
    BY DEF Sound
  <2>6. QED
    BY <1>2, <2>1, <2>3, <2>4, <2>5 DEF RemovalInv
<1>5. CreationInv'
  BY DEF Sound, CreationInv, Links, Creates
<1>6. LossInv' /\ mends' \in BOOLEAN
  BY DEF Sound, LossInv, Kept, Trashed
<1>7. ViewInv'
  <2>1. ViewInv /\ Ghosts' = Ghosts
    BY DEF Sound, Ghosts
  <2>2. ToldInv'
    BY <1>2, <2>1 DEF ViewInv, ToldInv
  <2>3. \A c : CallUnhaunted(c)' <=> CallUnhaunted(c)
    BY <2>1 DEF CallUnhaunted, Unhaunted
  <2>4. \A p : Unhaunted(p)' <=> Unhaunted(p)
    BY <2>1 DEF Unhaunted
  <2>5. AsBefore' <=> AsBefore
    BY DEF AsBefore
  <2>6. QED
    BY <1>2, <2>1, <2>2, <2>3, <2>4, <2>5 DEF ViewInv
<1>8. QED
  BY <1>1, <1>3, <1>4, <1>5, <1>6, <1>7 DEF Sound

\* What is emptied from the trash has been agreed to.
LEMMA EmptyTrashSound ==
  ASSUME Sound, EmptyTrash
  PROVE  Sound'
<1>1. /\ job.kind = "trash" /\ phase = "done" /\ phase' = "emptied" /\ trash' \subseteq trash
      /\ agreed' = agreed \cup UNION {{item.tree[r] : r \in DOMAIN item.tree} : item \in trash \ trash'}
      /\ UNCHANGED <<disk, before, job, todo, fallbacks, stack, mends, flags, skip, always, known>>
  BY DEF EmptyTrash
<1>2. Removes /\ ~Transfers /\ ~Moves /\ ~(Links \/ Creates)
  BY <1>1 DEF Transfers, Copies, Moves, Removes, Links, Creates
<1>3. Removes' /\ ~Transfers' /\ ~Moves' /\ ~(Links' \/ Creates')
  BY <1>1 DEF Transfers, Copies, Moves, Removes, Links, Creates
<1>4. Ground /\ RemovalInv /\ LossInv /\ ViewInv /\ mends \in BOOLEAN
  BY DEF Sound
<1>5. stack = << >> /\ stack' = << >> /\ DOMAIN stack' = {}
  BY <1>1, <1>4 DEF Ground, Over
<1>6. Ground'
  BY <1>1, <1>4, <1>5 DEF Ground, Removes, Tree
<1>7. RemovalInv'
  <2>1. DeleteCalls'
    BY <1>1, <1>2, <1>4, <1>5 DEF RemovalInv, DeleteCalls
  <2>2. CallsDoomed'
    BY <1>5 DEF CallsDoomed
  <2>3. todo' \in Seq(Entry) /\ fallbacks' \in Seq(Entry) /\ (flags'["deleteAll"] => always')
    BY <1>1, <1>2, <1>4 DEF RemovalInv
  <2>4. phase' \in RemovalPhases /\ phase' \notin {"scan", "delete", "confirm_trash", "trash"}
    BY <1>1 DEF RemovalPhases
  <2>5. QED
    BY <2>1, <2>2, <2>3, <2>4 DEF RemovalInv
<1>8. TransferInv' /\ CreationInv'
  BY <1>3 DEF TransferInv, CreationInv
<1>9. Kept \subseteq Kept'
  <2>1. Trashed \subseteq Trashed' \cup agreed'
    BY <1>1 DEF Trashed
  <2>2. QED
    BY <1>1, <2>1 DEF Kept
<1>10. LossInv'
  BY <1>1, <1>4, <1>9, LossStays
<1>11. ViewInv'
  <2>1. DiskKnown /\ NoGhosts
    BY <1>2, <1>4, ViewsExact
  <2>2. DiskKnown' /\ NoGhosts' /\ Tree(disk')
    BY <1>1, <1>6, <2>1 DEF DiskKnown, NoGhosts, Ground, Tree
  <2>3. QED
    BY <1>3, <2>2, ExactViews
<1>12. QED
  BY <1>1, <1>4, <1>6, <1>7, <1>8, <1>10, <1>11 DEF Sound

LEMMA SoundViews ==
  ASSUME Sound
  PROVE  ViewsAreTold
<1>1. ToldInv
  BY DEF Sound, ViewInv
<1>2. QED
  BY <1>1 DEF ToldInv, ViewsAreTold, Ghosts

LEMMA UndoViews ==
  ASSUME Sound, Undo, ViewsAreTold
  PROVE  FilesInv' /\ ViewsAreTold'
<1>1. DiskKnown'
  <2>1. DiskKnown /\ [Next]_vars
    BY DEF ViewsAreTold, DiskKnown, Next
  <2>2. QED
    BY <2>1, KnownStep
<1>2. CASE UndoMove
  <2>1. undoing'
    BY <1>2 DEF UndoMove
  <2>2. QED
    BY <1>1, <2>1 DEF FilesInv, ViewsAreTold, DiskKnown
<1>3. CASE UndoMaking \/ UndoTrash
  <2>1. ~Moves /\ phase' = "undone" /\ Heard
    BY <1>3 DEF UndoMaking, UndoTrash, Moves
  <2>2. NoGhosts
    BY <2>1, ViewsExact DEF Sound
  <2>3. NoGhosts'
    BY <2>1, <2>2 DEF Heard, NoGhosts
  <2>4. QED
    BY <1>1, <2>1, <2>3 DEF FilesInv, ViewsAreTold, DiskKnown, NoGhosts
<1>4. QED
  BY <1>2, <1>3 DEF Undo

\* Nothing is done after a job has been undone.
LEMMA UndoneStays ==
  ASSUME phase = "undone", [Next]_vars
  PROVE  UNCHANGED vars
<1>1. ~Transfer
  BY DEF Transfer, NextFile, PhaseDone, Scan, Call
<1>2. ~Removal
  BY DEF Removal, Confirm, ConfirmTrash, Trash, TrashDone, ScanFiles, NextFileToDelete, DeleteDone, Delete
<1>3. ~Creation
  BY DEF Creation, Verify, NextToMake, MakeDone, Make
<1>4. ~Cancel /\ ~Undo /\ ~EmptyTrash
  BY DEF Cancel, Undo, EmptyTrash, Over
<1>5. QED
  BY <1>1, <1>2, <1>3, <1>4 DEF Next, Thread

LEMMA UndoingStays ==
  ASSUME undoing = TRUE, [Next]_vars
  PROVE  undoing' = TRUE
<1>1. CASE Undo
  BY <1>1 DEF Undo, UndoMaking, UndoMove, UndoTrash
<1>2. CASE Thread \/ Cancel \/ EmptyTrash \/ UNCHANGED vars
  BY <1>2 DEF Thread, Transfer, Removal, Creation, Cancel, EmptyTrash, vars
<1>3. QED
  BY <1>1, <1>2 DEF Next

\* The invariant with what is left of it when the job is undone.
FilesAndViews == undoing \in BOOLEAN /\ FilesInv /\ ViewsAreTold

LEMMA FilesStep ==
  ASSUME Hypotheses, FilesAndViews, [Next]_vars
  PROVE  FilesAndViews'
<1>1. DiskKnown'
  BY KnownStep DEF FilesAndViews, ViewsAreTold, DiskKnown
<1>2. undoing \in BOOLEAN /\ FilesInv /\ ViewsAreTold
  BY DEF FilesAndViews
<1>3. CASE undoing = TRUE
  <2>1. undoing' = TRUE
    BY <1>3, UndoingStays
  <2>2. QED
    BY <1>1, <2>1 DEF FilesAndViews, FilesInv, ViewsAreTold, DiskKnown
<1>4. CASE undoing = FALSE /\ phase = "undone"
  <2>1. UNCHANGED vars
    BY <1>4, UndoneStays
  <2>2. phase' = "undone" /\ undoing' = FALSE /\ UNCHANGED <<disk, before, job, known, undoing>>
    BY <1>4, <2>1 DEF vars
  <2>3. ViewsAreTold'
    BY <1>2, <1>4, <2>2 DEF ViewsAreTold, Moves
  <2>4. QED
    BY <2>2, <2>3 DEF FilesAndViews, FilesInv
<1>5. CASE undoing = FALSE /\ phase # "undone"
  <2>1. Sound /\ ~undoing
    BY <1>2, <1>5 DEF FilesInv
  <2>2. ASSUME Sound', undoing' \in BOOLEAN
        PROVE  FilesAndViews'
    <3>1. ViewsAreTold'
      BY <2>2, SoundViews, PTL
    <3>2. QED
      BY <2>2, <3>1 DEF FilesAndViews, FilesInv
  <2>3. CASE Transfer
    <3>1. Sound' /\ undoing' = undoing
      BY <2>1, <2>3, TransferSound DEF Transfer
    <3>2. QED
      BY <1>2, <2>2, <3>1
  <2>4. CASE Removal
    <3>1. Sound' /\ undoing' = undoing
      BY <2>1, <2>4, RemovalSound DEF Removal
    <3>2. QED
      BY <1>2, <2>2, <3>1
  <2>5. CASE Creation
    <3>1. Sound' /\ undoing' = undoing
      BY <2>1, <2>5, CreationSound DEF Creation
    <3>2. QED
      BY <1>2, <2>2, <3>1
  <2>6. CASE Cancel \/ UNCHANGED vars
    <3>1. flags \in [Flag -> BOOLEAN]
      BY <2>1 DEF Sound, Ground
    <3>2. /\ flags' \in [Flag -> BOOLEAN]
          /\ flags'["replaceAll"] = flags["replaceAll"] /\ flags'["deleteAll"] = flags["deleteAll"]
          /\ UNCHANGED <<disk, before, trash, job, phase, todo, fallbacks, stack, mends, skip,
                         agreed, always, pairs, undoing, known>>
      BY <2>6, <3>1 DEF Cancel, vars, Flag
    <3>3. Sound'
      BY <2>1, <3>2, CancelSound
    <3>4. QED
      BY <1>2, <2>2, <3>2, <3>3
  <2>7. CASE EmptyTrash
    <3>1. Sound' /\ undoing' = undoing
      BY <2>1, <2>7, EmptyTrashSound DEF EmptyTrash
    <3>2. QED
      BY <1>2, <2>2, <3>1
  <2>8. CASE Undo
    <3>1. undoing' \in BOOLEAN
      BY <1>2, <2>8 DEF Undo, UndoMaking, UndoMove, UndoTrash
    <3>2. QED
      BY <1>2, <2>1, <2>8, <3>1, UndoViews DEF FilesAndViews
  <2>9. QED
    BY <2>3, <2>4, <2>5, <2>6, <2>7, <2>8 DEF Next, Thread
<1>6. QED
  BY <1>2, <1>3, <1>4, <1>5

-----------------------------------------------------------------------------
\* The beginning.

\* What is listed are files of the job, each from another place, none to be forced.
LEMMA ListedFiles ==
  ASSUME job.files \in Seq(PathsOnly), NEW ps \in SUBSET DOMAIN job.files, NEW list, Listed(list, ps)
  PROVE  /\ list \in Seq(Entry) /\ (ps = {} => DOMAIN list = {})
         /\ \A i \in DOMAIN list : list[i].over = FALSE
         /\ \A i \in DOMAIN list : \E a \in DOMAIN job.files : job.files[a] = list[i].src
         /\ \A i \in DOMAIN list : \A k \in DOMAIN list \ {i} :
               \E a \in DOMAIN job.files : \E b \in DOMAIN job.files \ {a} :
                   list[i].src = job.files[a] /\ list[k].src = job.files[b]
<1>1. PICK n \in Nat : n = Cardinality(ps) /\ (ps = {} => n = 0)
  <2>1. Len(job.files) \in Nat /\ DOMAIN job.files = 1 .. Len(job.files)
    OBVIOUS
  <2>2. IsFiniteSet(DOMAIN job.files)
    BY <2>1, FS_Interval
  <2>3. IsFiniteSet(ps)
    BY <2>2, FS_Subset
  <2>4. Cardinality(ps) \in Nat /\ (ps = {} => Cardinality(ps) = 0)
    BY <2>3, FS_CardinalityType, FS_EmptySet
  <2>5. QED
    BY <2>4
<1>2. PICK order \in [1 .. n -> ps] :
         /\ \A i, k \in DOMAIN order : i < k => order[i] < order[k]
         /\ list = Unforced([i \in DOMAIN order |-> job.files[order[i]]])
  BY <1>1 DEF Listed
<1>3. list = [i \in 1 .. n |-> [src |-> job.files[order[i]], over |-> FALSE]]
  BY <1>2 DEF Unforced
<1>4. \A i \in 1 .. n : order[i] \in DOMAIN job.files /\ job.files[order[i]] \in PathsOnly
  BY <1>2
<1>5. /\ DOMAIN list = 1 .. n
      /\ \A i \in 1 .. n : list[i].src = job.files[order[i]] /\ list[i].over = FALSE /\ list[i] \in Entry
  BY <1>3, <1>4 DEF Entry
<1>6. list \in Seq(Entry)
  BY <1>1, <1>3, <1>5
<1>7. ASSUME NEW i \in 1 .. n, NEW k \in 1 .. n, i # k
      PROVE  order[i] # order[k]
  <2>1. order[i] \in Int /\ order[k] \in Int
    BY <1>4
  <2>2. i < k \/ k < i
    BY <1>1, <1>7
  <2>3. QED
    BY <1>2, <1>7, <2>1, <2>2
<1>8. QED
  BY <1>1, <1>4, <1>5, <1>6, <1>7

LEMMA FilesInit ==
  ASSUME Hypotheses, Init
  PROVE  FilesAndViews
<1>1. /\ disk \in Disks /\ before = disk /\ job \in Jobs /\ phase = FirstPhase(job)
      /\ stack = << >> /\ mends = FALSE /\ flags = [f \in Flag |-> FALSE] /\ undoing = FALSE
      /\ known = DOMAIN disk
  BY DEF Init
<1>2. ProperJobs /\ FilesApart
  BY DEF Hypotheses
<1>3. /\ Tree(disk) /\ job.kind \in Kinds /\ job.files \in Seq(PathsOnly)
      /\ ~Removes => job.destination \in DOMAIN disk /\ disk[job.destination] = Folder
  BY <1>1, <1>2 DEF ProperJobs, Removes, PathsOnly
<1>4. /\ todo \in Seq(Entry)
      /\ \A i \in DOMAIN todo : todo[i].over = FALSE
      /\ \A i \in DOMAIN todo : \E a \in DOMAIN job.files : job.files[a] = todo[i].src
      /\ \A i \in DOMAIN todo : \A k \in DOMAIN todo \ {i} :
            \E a \in DOMAIN job.files : \E b \in DOMAIN job.files \ {a} :
                todo[i].src = job.files[a] /\ todo[k].src = job.files[b]
  <2>1. PICK ps \in SUBSET DOMAIN job.files : Listed(todo, ps)
    BY DEF Init
  <2>2. QED
    BY <1>3, <2>1, ListedFiles
<1>5. fallbacks \in Seq(Entry) /\ (~Removes => DOMAIN fallbacks = {})
  <2>1. PICK ps \in SUBSET DOMAIN job.files :
           /\ Listed(fallbacks, ps)
           /\ ps = {i \in DOMAIN job.files : Removes /\ ~Outright(job, job.files[i])}
    BY DEF Init
  <2>2. ~Removes => ps = {}
    BY <2>1
  <2>3. fallbacks \in Seq(Entry) /\ (ps = {} => DOMAIN fallbacks = {})
    BY <1>3, <2>1, ListedFiles
  <2>4. QED
    BY <2>2, <2>3
<1>6. Len(stack) = 0 /\ DOMAIN stack = {} /\ \A S : stack \in Seq(S)
  BY <1>1, EmptySeq
<1>7. Ghosts = {}
  BY <1>1 DEF Ghosts
<1>8. /\ Moves => phase = "prepare"
      /\ Copies => phase = "scan"
      /\ Removes => phase = "confirm"
      /\ phase \in {"prepare", "scan", "confirm", "verify"} /\ (phase = "prepare" => Moves)
  BY <1>1 DEF FirstPhase, Moves, Copies, Removes
<1>9. Ground
  BY <1>1, <1>3 DEF Ground
<1>10. TransferInv
  <2>1. SUFFICES ASSUME Transfers
                 PROVE  Calls /\ Aimed /\ Waiting /\ AgreedTo /\ phase \in TransferPhases
    BY DEF TransferInv
  <2>2. DOMAIN fallbacks = {}
    BY <1>5, <2>1 DEF Transfers, Copies, Moves, Removes
  <2>3. Calls
    BY <1>1, <1>6, <1>8 DEF Calls
  <2>4. Aimed
    BY <1>1, <1>6 DEF Aimed
  <2>5. Waiting
    <3>1. ASSUME NEW i \in DOMAIN todo
          PROVE  Waits(todo[i])
      BY <1>4 DEF Waits
    <3>2. ASSUME Moves, NEW i \in DOMAIN todo, NEW k \in DOMAIN todo \ {i}
          PROVE  todo[i].src # todo[k].src
      <4>1. PICK a \in DOMAIN job.files : \E b \in DOMAIN job.files \ {a} :
                todo[i].src = job.files[a] /\ todo[k].src = job.files[b]
        BY <1>4
      <4>2. PICK b \in DOMAIN job.files \ {a} :
                todo[i].src = job.files[a] /\ todo[k].src = job.files[b]
        BY <4>1
      <4>3. job.files[a] \in Paths
        BY <1>3 DEF PathsOnly
      <4>4. ~IsPrefix(job.files[a], job.files[b])
        BY <1>1, <1>2, <3>2 DEF FilesApart, Moves
      <4>5. QED
        BY <4>2, <4>3, <4>4, PrefixReflexive
    <3>3. QED
      BY <1>1, <1>4, <1>5, <2>2, <3>1, <3>2 DEF Waiting
  <2>6. AgreedTo
    <3>1. \A i \in DOMAIN todo : PutOff(todo[i])
      BY <1>4 DEF PutOff, Holds
    <3>2. flags["replaceAll"] = FALSE
      BY <1>1 DEF Flag
    <3>3. QED
      BY <1>6, <2>2, <3>1, <3>2 DEF AgreedTo
  <2>7. phase \in TransferPhases
    BY <1>8, <2>1 DEF Transfers, TransferPhases
  <2>8. QED
    BY <2>3, <2>4, <2>5, <2>6, <2>7
<1>11. RemovalInv
  <2>1. SUFFICES ASSUME Removes
                 PROVE  RemovalInv
    BY DEF RemovalInv
  <2>2. phase = "confirm" /\ phase \in RemovalPhases
    BY <1>8, <2>1 DEF RemovalPhases
  <2>3. DeleteCalls
    BY <1>1, <1>6 DEF DeleteCalls
  <2>4. CallsDoomed
    BY <1>6 DEF CallsDoomed
  <2>5. flags["deleteAll"] = FALSE
    BY <1>1 DEF Flag
  <2>6. QED
    BY <1>4, <1>5, <2>2, <2>3, <2>4, <2>5 DEF RemovalInv
<1>12. CreationInv
  BY <1>1, <1>4, <1>6 DEF CreationInv
<1>13. LossInv
  BY <1>1 DEF LossInv, Kept
<1>14. ViewInv
  <2>1. ToldInv
    BY <1>1, <1>7 DEF ToldInv
  <2>2. AsBefore
    BY <1>1 DEF AsBefore
  <2>3. \A p : Unhaunted(p)
    BY <1>7 DEF Unhaunted
  <2>4. known \subseteq Paths
    BY <1>1, <1>3 DEF Tree
  <2>5. QED
    BY <1>6, <2>1, <2>2, <2>3, <2>4 DEF ViewInv
<1>15. Sound
  BY <1>1, <1>9, <1>10, <1>11, <1>12, <1>13, <1>14 DEF Sound
<1>16. QED
  BY <1>1, <1>15, SoundViews DEF FilesAndViews, FilesInv

-----------------------------------------------------------------------------
\* The theorems.

\* Of every job the calls, the lists and the answers fit together as Sound says, as
\* long as nothing has been undone (copy_move_file, copy_move_directory, delete_job and
\* what they call in baul-file-operations.c).
THEOREM FilesInvariant ==
  ASSUME Hypotheses
  PROVE  Spec => []FilesAndViews
<1>1. Init => FilesAndViews
  BY FilesInit
<1>2. FilesAndViews /\ [Next]_vars => FilesAndViews'
  BY FilesStep
<1>3. QED
  BY <1>1, <1>2, PTL DEF Spec

\* What the user had is still on the disk or in the trash unless the user agreed to lose
\* it, whatever is merged, replaced, put off, skipped, refused, stopped or emptied from
\* the trash (copy_move_file, move_files_prepare, delete_job, empty_trash_job).
THEOREM LostOnlyIfAgreed ==
  ASSUME Hypotheses
  PROVE  Spec => [](~undoing /\ phase # "undone" => NothingIsLostUnasked)
<1>1. FilesAndViews => (~undoing /\ phase # "undone" => NothingIsLostUnasked)
  <2>1. SUFFICES ASSUME Sound
                 PROVE  NothingIsLostUnasked
    BY DEF FilesAndViews, FilesInv
  <2>2. LossInv /\ Tree(disk)
    BY <2>1 DEF Sound, Ground
  <2>3. Under(<< >>) = DOMAIN disk
    BY <2>2, PrefixReflexive DEF Under, Tree
  <2>4. {disk[q] : q \in DOMAIN disk} \subseteq Contents(<< >>) \cup {Folder}
    BY <2>3 DEF Contents
  <2>5. Kept \subseteq {Folder} \cup agreed \cup Contents(<< >>) \cup Trashed
    BY <2>4 DEF Kept
  <2>6. QED
    BY <2>2, <2>5 DEF LossInv, NothingIsLostUnasked, Trashed
<1>2. QED
  BY <1>1, FilesInvariant, PTL

\* The views learn of every change, also when the job is undone, and, until a move is
\* undone, believe in nothing that is not there but folders moved piece by piece (the
\* calls of baul_file_changes_queue_file_added, _removed and _moved).
THEOREM ViewsFollowTheDisk ==
  ASSUME Hypotheses
  PROVE  Spec => []ViewsAreTold
<1>1. FilesAndViews => ViewsAreTold
  BY DEF FilesAndViews
<1>2. QED
  BY <1>1, FilesInvariant, PTL
=============================================================================
