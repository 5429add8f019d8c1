--------------------------- MODULE KeptLists_proofs ---------------------------
(***************************************************************************)
(* Two lists that are kept for the user, on the main thread alone, while   *)
(* jobs work on what they are about: the undo manager's stack              *)
(* (UndoStack) and the bookmarks (BookmarkList).                           *)
(*                                                                         *)
(* However many actions and levels there are: the stack and its index are  *)
(* one history of operations, and as long as nothing ends while an action  *)
(* is being undone, nothing is used after it was freed but by the callback *)
(* that has just freed it.                                                 *)
(*                                                                         *)
(* Whatever bookmarks there are, and however many loads, saves, changes    *)
(* and errors: what the list has read or saved stays in the file until     *)
(* somebody takes it out or a read of the file fails.                      *)
(***************************************************************************)
EXTENDS UndoStack, BookmarkList, FiniteSetTheorems, SequenceTheorems, TLAPS

-----------------------------------------------------------------------------
(***************************************************************************)
(* The undo manager's stack.                                               *)
(***************************************************************************)
\* The two parts of the history in a stack of which i actions are undone.
CanUndo(s, i) == SubSeq(s, i + 1, Len(s))
CanRedo(s, i) == Reverse(SubSeq(s, 1, i))

StackInv ==
    /\ stack \in Seq(Actions)
    /\ index \in 0..Len(stack)

LEMMA Parts ==
  ASSUME NEW s \in Seq(Actions), NEW i \in 0..Len(s)
  PROVE  /\ CanUndo(s, i) \in Seq(Actions)
         /\ Len(CanUndo(s, i)) = Len(s) - i
         /\ \A n \in 1 .. Len(s) - i : CanUndo(s, i)[n] = s[i + n]
         /\ CanRedo(s, i) \in Seq(Actions)
         /\ Len(CanRedo(s, i)) = i
         /\ \A n \in 1 .. i : CanRedo(s, i)[n] = s[i - n + 1]
<1>1. Len(s) \in Nat /\ DOMAIN s = 1 .. Len(s) /\ i \in Int /\ i <= Len(s) /\ 0 <= i
  BY LenProperties
<1>2. \A n \in 1 .. Len(s) : s[n] \in Actions
  BY ElementOfSeq
<1>3. /\ CanUndo(s, i) \in Seq(Actions)
      /\ Len(CanUndo(s, i)) = Len(s) - i
      /\ \A n \in 1 .. Len(s) - i : CanUndo(s, i)[n] = s[i + n]
  <2>1. i + 1 \in Int /\ Len(s) \in Int /\ \A n \in i + 1 .. Len(s) : s[n] \in Actions
    BY <1>1, <1>2
  <2>2. /\ SubSeq(s, i + 1, Len(s)) \in Seq(Actions)
        /\ Len(SubSeq(s, i + 1, Len(s))) = IF i + 1 <= Len(s) THEN Len(s) - (i + 1) + 1 ELSE 0
        /\ \A n \in 1 .. Len(s) - (i + 1) + 1 :
             SubSeq(s, i + 1, Len(s))[n] = s[(i + 1) + n - 1]
    BY <2>1, SubSeqProperties
  <2>3. Len(s) - (i + 1) + 1 = Len(s) - i /\ \A n \in Int : (i + 1) + n - 1 = i + n
    BY <1>1
  <2>4. Len(SubSeq(s, i + 1, Len(s))) = Len(s) - i
    <3>1. CASE i + 1 <= Len(s)
      BY <2>2, <2>3, <3>1
    <3>2. CASE ~(i + 1 <= Len(s))
      <4>1. \A l, m \in Int : m <= l /\ ~(m + 1 <= l) => l - m = 0
        OBVIOUS
      <4>2. Len(s) \in Int /\ i \in Int /\ i <= Len(s)
        BY <1>1
      <4>3. Len(s) - i = 0
        BY <3>2, <4>1, <4>2
      <4> QED BY <2>2, <3>2, <4>3
    <3> QED BY <3>1, <3>2
  <2>5. \A n \in 1 .. Len(s) - i : SubSeq(s, i + 1, Len(s))[n] = s[i + n]
    BY <2>2, <2>3
  <2> QED BY <2>2, <2>4, <2>5 DEF CanUndo
<1>4. /\ SubSeq(s, 1, i) \in Seq(Actions)
      /\ Len(SubSeq(s, 1, i)) = i
      /\ \A n \in 1 .. i : SubSeq(s, 1, i)[n] = s[n]
  <2>1. \A n \in 1 .. i : s[n] \in Actions
    BY <1>1, <1>2
  <2>2. /\ SubSeq(s, 1, i) \in Seq(Actions)
        /\ Len(SubSeq(s, 1, i)) = IF 1 <= i THEN i - 1 + 1 ELSE 0
        /\ \A n \in 1 .. i - 1 + 1 : SubSeq(s, 1, i)[n] = s[1 + n - 1]
    BY <1>1, <2>1, SubSeqProperties
  <2>3. i - 1 + 1 = i /\ \A n \in Int : 1 + n - 1 = n
    BY <1>1
  <2> QED BY <1>1, <2>2, <2>3
<1>5. CanRedo(s, i) = [n \in 1 .. i |-> SubSeq(s, 1, i)[i - n + 1]]
  BY <1>4 DEF CanRedo, Reverse
<1>6. \A n \in 1 .. i : i - n + 1 \in 1 .. i /\ i - n + 1 \in 1 .. Len(s)
  BY <1>1
<1>7. CanRedo(s, i) \in [1 .. i -> Actions]
  BY <1>2, <1>4, <1>5, <1>6
<1>8. CanRedo(s, i) \in Seq(Actions) /\ Len(CanRedo(s, i)) = i
  BY <1>1, <1>7
<1> QED BY <1>3, <1>4, <1>5, <1>6, <1>8

\* Nothing is undone.
LEMMA AllDone ==
  ASSUME NEW s \in Seq(Actions)
  PROVE  0 \in 0 .. Len(s) /\ CanUndo(s, 0) = s /\ CanRedo(s, 0) = << >>
<1>1. Len(s) \in Nat /\ 0 \in 0 .. Len(s) /\ 0 + 1 = 1
  BY LenProperties
<1>2. CanUndo(s, 0) = s
  BY <1>1, SubSeqFull DEF CanUndo
<1>3. CanRedo(s, 0) \in Seq(Actions) /\ Len(CanRedo(s, 0)) = 0
  BY <1>1, Parts
<1> QED BY <1>1, <1>2, <1>3, EmptySeq

\* A sequence is its head and its tail.
LEMMA HeadAndTail ==
  ASSUME NEW s \in Seq(Actions), s # << >>
  PROVE  s = <<Head(s)>> \o Tail(s)
<1>1. Len(s) \in Nat /\ Len(s) >= 1 /\ Head(s) = s[1] /\ s[1] \in Actions
  BY EmptySeq, LenProperties, ElementOfSeq
<1>2. /\ Tail(s) \in Seq(Actions) /\ Len(Tail(s)) = Len(s) - 1
      /\ \A n \in 1 .. Len(Tail(s)) : Tail(s)[n] = s[n + 1]
  BY HeadTailProperties
<1>3. /\ <<Head(s)>> \in Seq(Actions) /\ Len(<<Head(s)>>) = 1 /\ <<Head(s)>>[1] = Head(s)
  BY <1>1
<1> DEFINE t == <<Head(s)>> \o Tail(s)
<1>4. /\ t \in Seq(Actions) /\ Len(t) = 1 + Len(Tail(s))
      /\ \A n \in 1 .. 1 + Len(Tail(s)) :
           t[n] = IF n <= 1 THEN <<Head(s)>>[n] ELSE Tail(s)[n - 1]
  BY <1>2, <1>3, ConcatProperties
<1> HIDE DEF t
<1>5. ASSUME NEW n \in 1 .. Len(s)
      PROVE  s[n] = t[n]
  <2>1. n \in 1 .. 1 + Len(Tail(s))
    BY <1>1, <1>2
  <2>2. CASE n = 1
    BY <1>1, <1>3, <1>4, <2>1, <2>2
  <2>3. CASE n # 1
    <3>1. n - 1 \in 1 .. Len(Tail(s)) /\ (n - 1) + 1 = n /\ ~(n <= 1)
      BY <1>1, <1>2, <2>3
    <3> QED BY <1>2, <1>4, <2>1, <3>1
  <2> QED BY <2>2, <2>3
<1>6. Len(s) = Len(t)
  BY <1>1, <1>2, <1>4
<1> QED BY <1>4, <1>5, <1>6, SeqEqual DEF t

\* One more action is undone.
LEMMA OneMore ==
  ASSUME NEW s \in Seq(Actions), NEW i \in 0..Len(s), i < Len(s)
  PROVE  /\ i + 1 \in 0 .. Len(s)
         /\ CanUndo(s, i) # << >>
         /\ CanUndo(s, i + 1) = Tail(CanUndo(s, i))
         /\ CanRedo(s, i + 1) = <<Head(CanUndo(s, i))>> \o CanRedo(s, i)
         /\ CanRedo(s, i + 1) # << >>
         /\ CanRedo(s, i) = Tail(CanRedo(s, i + 1))
         /\ CanUndo(s, i) = <<Head(CanRedo(s, i + 1))>> \o CanUndo(s, i + 1)
<1> DEFINE d == CanUndo(s, i)
           e == CanUndo(s, i + 1)
           u == CanRedo(s, i)
           v == CanRedo(s, i + 1)
<1>1. /\ Len(s) \in Nat /\ i \in Nat
      /\ i + 1 \in 0 .. Len(s) /\ i + 1 \in 1 .. Len(s) /\ s[i + 1] \in Actions
  BY LenProperties, ElementOfSeq
<1>2. /\ d \in Seq(Actions) /\ Len(d) = Len(s) - i
      /\ \A n \in 1 .. Len(s) - i : d[n] = s[i + n]
      /\ u \in Seq(Actions) /\ Len(u) = i
      /\ \A n \in 1 .. i : u[n] = s[i - n + 1]
  BY Parts
<1>3. /\ e \in Seq(Actions) /\ Len(e) = Len(s) - (i + 1)
      /\ \A n \in 1 .. Len(s) - (i + 1) : e[n] = s[(i + 1) + n]
      /\ v \in Seq(Actions) /\ Len(v) = i + 1
      /\ \A n \in 1 .. i + 1 : v[n] = s[(i + 1) - n + 1]
  BY <1>1, Parts
<1> HIDE DEF d, e, u, v
<1>4. d # << >> /\ v # << >>
  BY <1>1, <1>2, <1>3, EmptySeq
<1>5. Head(d) = s[i + 1] /\ Head(v) = s[i + 1]
  <2>1. Head(d) = d[1] /\ Head(v) = v[1]
    BY <1>2, <1>3, <1>4
  <2>2. 1 \in 1 .. Len(s) - i /\ 1 \in 1 .. i + 1 /\ (i + 1) - 1 + 1 = i + 1
    BY <1>1
  <2> QED BY <1>2, <1>3, <2>1, <2>2
<1>6. e = Tail(d)
  <2>1. /\ Tail(d) \in Seq(Actions) /\ Len(Tail(d)) = Len(d) - 1
        /\ \A n \in 1 .. Len(Tail(d)) : Tail(d)[n] = d[n + 1]
    BY <1>2, <1>4, HeadTailProperties
  <2>2. Len(e) = Len(Tail(d))
    BY <1>1, <1>2, <1>3, <2>1
  <2>3. ASSUME NEW n \in 1 .. Len(e)
        PROVE  e[n] = Tail(d)[n]
    <3>1. n + 1 \in 1 .. Len(s) - i /\ (i + 1) + n = i + (n + 1) /\ n \in 1 .. Len(s) - (i + 1)
      BY <1>1, <1>3
    <3>2. e[n] = s[i + (n + 1)]
      BY <1>3, <3>1
    <3>3. d[n + 1] = s[i + (n + 1)]
      BY <1>2, <3>1
    <3>4. Tail(d)[n] = d[n + 1]
      BY <2>1, <2>2
    <3> QED BY <3>2, <3>3, <3>4
  <2> QED BY <1>3, <2>1, <2>2, <2>3, SeqEqual
<1>7. u = Tail(v)
  <2>1. /\ Tail(v) \in Seq(Actions) /\ Len(Tail(v)) = Len(v) - 1
        /\ \A n \in 1 .. Len(Tail(v)) : Tail(v)[n] = v[n + 1]
    BY <1>3, <1>4, HeadTailProperties
  <2>2. Len(u) = Len(Tail(v))
    BY <1>1, <1>2, <1>3, <2>1
  <2>3. ASSUME NEW n \in 1 .. Len(u)
        PROVE  u[n] = Tail(v)[n]
    <3>1. n + 1 \in 1 .. i + 1 /\ (i + 1) - (n + 1) + 1 = i - n + 1 /\ n \in 1 .. i
      BY <1>1, <1>2
    <3>2. u[n] = s[i - n + 1]
      BY <1>2, <3>1
    <3>3. v[n + 1] = s[i - n + 1]
      BY <1>3, <3>1
    <3>4. Tail(v)[n] = v[n + 1]
      BY <2>1, <2>2
    <3> QED BY <3>2, <3>3, <3>4
  <2> QED BY <1>2, <2>1, <2>2, <2>3, SeqEqual
<1>8. /\ d = <<Head(d)>> \o Tail(d)
      /\ v = <<Head(v)>> \o Tail(v)
  BY <1>2, <1>3, <1>4, HeadAndTail
<1>9. /\ d # << >> /\ v # << >> /\ e = Tail(d) /\ u = Tail(v)
      /\ v = <<Head(d)>> \o u /\ d = <<Head(v)>> \o e
  BY <1>4, <1>5, <1>6, <1>7, <1>8
<1> QED BY <1>1, <1>9 DEF d, e, u, v

(***************************************************************************)
(* A new action on the stack, and what falls off it.                       *)
(***************************************************************************)
LEMMA Pushed ==
  ASSUME NEW s \in Seq(Actions), NEW i \in 0..Len(s), NEW a \in Actions
  PROVE  LET pushed == <<a>> \o CanUndo(s, i)
             k == IF Len(pushed) < Levels THEN Len(pushed) ELSE Levels
             t == SubSeq(pushed, 1, k)
             oldest == Range(SubSeq(pushed, Levels + 1, Len(pushed)))
         IN /\ Len(pushed) = Len(CanUndo(s, i)) + 1
            /\ t \in Seq(Actions)
            /\ k \in 1 .. Len(s) - i + 1 /\ Len(t) = k
            /\ t[1] = a
            /\ \A n \in 2 .. k : t[n] = s[i + n - 1]
            /\ \A b \in oldest : \E n \in k + 1 .. Len(s) - i + 1 : b = s[i + n - 1]
<1> DEFINE d == CanUndo(s, i)
           p == <<a>> \o d
           k == IF Len(p) < Levels THEN Len(p) ELSE Levels
           t == SubSeq(p, 1, k)
           o == SubSeq(p, Levels + 1, Len(p))
<1>1. /\ Len(s) \in Nat /\ i \in Nat /\ i <= Len(s)
      /\ d \in Seq(Actions) /\ Len(d) = Len(s) - i
      /\ \A n \in 1 .. Len(s) - i : d[n] = s[i + n]
  <2>1. Len(s) \in Nat /\ i \in Nat /\ i <= Len(s)
    BY LenProperties
  <2> QED BY <2>1, Parts
<1> HIDE DEF d
<1>2. <<a>> \in Seq(Actions) /\ Len(<<a>>) = 1 /\ <<a>>[1] = a
  OBVIOUS
<1>3. /\ p \in Seq(Actions) /\ Len(p) = 1 + Len(d)
      /\ \A n \in 1 .. 1 + Len(d) : p[n] = IF n <= 1 THEN <<a>>[n] ELSE d[n - 1]
  <2>1. d \in Seq(Actions) /\ <<a>> \in Seq(Actions)
    BY <1>1, <1>2
  <2>2. /\ p \in Seq(Actions) /\ Len(p) = Len(<<a>>) + Len(d)
        /\ \A n \in 1 .. Len(<<a>>) + Len(d) :
             p[n] = IF n <= Len(<<a>>) THEN <<a>>[n] ELSE d[n - Len(<<a>>)]
    BY <2>1, ConcatProperties
  <2> HIDE DEF p
  <2> QED BY <1>2, <2>2
<1> HIDE DEF p
<1>4. p[1] = a /\ \A n \in 2 .. Len(p) : p[n] = s[i + n - 1]
  <2>1. p[1] = a
    BY <1>1, <1>2, <1>3
  <2>2. ASSUME NEW n \in 2 .. Len(p)
        PROVE  p[n] = s[i + n - 1]
    <3>1. /\ n \in 1 .. 1 + Len(d) /\ ~(n <= 1) /\ n - 1 \in 1 .. Len(s) - i
          /\ i + (n - 1) = i + n - 1
      BY <1>1, <1>3
    <3> QED BY <1>1, <1>3, <3>1
  <2> QED BY <2>1, <2>2
<1>5. /\ Len(p) = Len(s) - i + 1 /\ Len(p) \in Nat /\ Levels \in Nat
      /\ k \in 1 .. Len(p) /\ k \in Int
  BY <1>1, <1>3, LevelsAreSome
<1>6. k = Levels \/ Len(p) < Levels
  OBVIOUS
<1> HIDE DEF k
<1>7. \A n \in 1 .. Len(p) : p[n] \in Actions
  BY <1>3, ElementOfSeq
<1>8. t \in Seq(Actions) /\ Len(t) = k /\ \A n \in 1 .. k : t[n] = p[n]
  <2>1. \A n \in 1 .. k : p[n] \in Actions
    BY <1>5, <1>7
  <2>2. /\ SubSeq(p, 1, k) \in Seq(Actions)
        /\ Len(SubSeq(p, 1, k)) = IF 1 <= k THEN k - 1 + 1 ELSE 0
        /\ \A n \in 1 .. k - 1 + 1 : SubSeq(p, 1, k)[n] = p[1 + n - 1]
    BY <1>5, <2>1, SubSeqProperties
  <2>3. k - 1 + 1 = k /\ 1 <= k /\ \A n \in Int : 1 + n - 1 = n
    BY <1>5
  <2> QED BY <2>2, <2>3
<1>9. ASSUME NEW b \in Range(o)
      PROVE  \E n \in k + 1 .. Len(s) - i + 1 : b = s[i + n - 1]
  <2>1. \A n \in Levels + 1 .. Len(p) : p[n] \in Actions
    BY <1>5, <1>7
  <2>2. Levels + 1 \in Int /\ Len(p) \in Int
    BY <1>5
  <2>3. /\ o \in Seq(Actions)
        /\ Len(o) = IF Levels + 1 <= Len(p) THEN Len(p) - (Levels + 1) + 1 ELSE 0
        /\ \A n \in 1 .. Len(p) - (Levels + 1) + 1 : o[n] = p[(Levels + 1) + n - 1]
    BY <2>1, <2>2, SubSeqProperties
  <2> HIDE DEF o
  <2>4. PICK m \in 1 .. Len(o) : b = o[m]
    BY <2>3, RangeEquality
  <2>5. Levels + 1 <= Len(p) /\ m \in 1 .. Len(p) - (Levels + 1) + 1
    BY <1>5, <2>3, <2>4
  <2>6. k = Levels
    BY <1>5, <1>6, <2>5
  <2>7. /\ (Levels + 1) + m - 1 \in k + 1 .. Len(p)
        /\ (Levels + 1) + m - 1 \in 2 .. Len(p)
    BY <1>5, <2>5, <2>6
  <2>8. b = s[i + ((Levels + 1) + m - 1) - 1]
    BY <1>4, <2>3, <2>4, <2>5, <2>7
  <2> QED BY <1>5, <2>7, <2>8
<1>10. t[1] = a /\ \A n \in 2 .. k : t[n] = s[i + n - 1]
  BY <1>4, <1>5, <1>8
<1>11. k \in 1 .. Len(s) - i + 1 /\ Len(p) = Len(d) + 1
  BY <1>1, <1>3, <1>5
<1> QED BY <1>8, <1>9, <1>10, <1>11 DEF d, p, k, t, o

(***************************************************************************)
(* What is left when the trash was emptied.                                *)
(***************************************************************************)
\* What is left keeps its order.
KeepsOrder(l, s) ==
    \E place \in [DOMAIN l -> DOMAIN s] :
        /\ \A m, n \in DOMAIN l : m < n => place[m] < place[n]
        /\ \A n \in DOMAIN l : l[n] = s[place[n]]

LEMMA Left ==
  ASSUME NEW kept \in Seq(Actions), NEW gone, NEW l,
         l \in [1 .. Cardinality(Range(kept) \ gone) -> Actions],
         IsLeft(l, kept, gone)
  PROVE  /\ l \in Seq(Actions)
         /\ KeepsOrder(l, kept)
<1> DEFINE some == Range(kept) \ gone
<1>1. Len(kept) \in Nat
  BY LenProperties
<1>2. IsFiniteSet(Range(kept))
  <2>1. kept \in [1 .. Len(kept) -> Range(kept)]
    BY LenProperties DEF Range
  <2>2. \A b \in Range(kept) : \E n \in 1 .. Len(kept) : kept[n] = b
    BY RangeEquality
  <2>3. kept \in Surjection(1 .. Len(kept), Range(kept))
    BY <2>1, <2>2 DEF Surjection
  <2>4. IsFiniteSet(1 .. Len(kept))
    BY <1>1, FS_Interval
  <2> QED BY <2>3, <2>4, FS_Surjection
<1>3. Cardinality(some) \in Nat
  BY <1>2, FS_Subset, FS_CardinalityType
<1>4. l \in [1 .. Cardinality(some) -> Actions]
  OBVIOUS
<1> HIDE DEF some
<1>5. l \in Seq(Actions)
  BY <1>3, <1>4
<1> QED BY <1>5 DEF IsLeft, KeepsOrder

\* What is on the stack when the trash was emptied.
LEMMA Emptied ==
  ASSUME StackInv, EmptyTrash
  PROVE  /\ index' = 0
         /\ stack' \in Seq(Actions)
         /\ KeepsOrder(stack', CanUndo(stack, index))
<1> DEFINE kept == CanUndo(stack, index)
           trashed == {a \in Range(kept) : kind[a] = "trash"}
<1>1. kept \in Seq(Actions)
  BY Parts DEF StackInv
<1>2. PICK made :
        \E left \in [1 .. Cardinality(Range(kept) \ (trashed \cup made)) -> Actions] :
          /\ IsLeft(left, kept, trashed \cup made)
          /\ stack' = left
  BY DEF EmptyTrash, CanUndo
<1> DEFINE gone == trashed \cup made
<1>3. /\ stack' \in [1 .. Cardinality(Range(kept) \ gone) -> Actions]
      /\ IsLeft(stack', kept, gone)
  BY <1>2
<1> HIDE DEF kept, gone
<1>4. stack' \in Seq(Actions) /\ KeepsOrder(stack', kept)
  BY <1>1, <1>3, Left
<1> QED BY <1>4 DEF kept, EmptyTrash

(***************************************************************************)
(* The stack and its index stay together.                                  *)
(***************************************************************************)
LEMMA StackStep ==
  ASSUME StackInv, [Next]_vars
  PROVE  StackInv'
<1> USE DEF StackInv
<1>1. ASSUME NEW a \in Actions, Begin(a)
      PROVE  StackInv'
  BY <1>1 DEF Begin
<1>2. ASSUME NEW a \in Actions, End(a)
      PROVE  StackInv'
  <2>1. CASE Push(a)
    <3>1. stack' \in Seq(Actions) /\ index' = 0
      BY <2>1, Pushed DEF Push, CanUndo
    <3> QED BY <3>1, AllDone
  <2>2. CASE UNCHANGED <<stack, index>>
    BY <2>2
  <2> QED BY <1>2, <2>1, <2>2 DEF End
<1>3. ASSUME NEW a \in Actions, JobDone(a)
      PROVE  StackInv'
  BY <1>3 DEF JobDone
<1>4. CASE Undo
  <2>1. stack' = stack /\ index' = index + 1 /\ index < Len(stack)
    BY <1>4 DEF Undo
  <2> QED BY <2>1, OneMore
<1>5. CASE Redo
  <2>1. stack' = stack /\ index' = index - 1 /\ index > 0 /\ Len(stack) \in Nat
    BY <1>5, LenProperties DEF Redo
  <2> QED BY <2>1
<1>6. CASE EmptyTrash
  <2>1. index' = 0 /\ stack' \in Seq(Actions)
    BY <1>6, Emptied
  <2> QED BY <2>1, AllDone
<1>7. CASE UNCHANGED vars
  BY <1>7 DEF vars
<1> QED BY <1>1, <1>2, <1>3, <1>4, <1>5, <1>6, <1>7 DEF Next

(***************************************************************************)
(* Steps of the manager are steps of the history.                          *)
(***************************************************************************)
HistoryVars == <<CanUndo(stack, index), CanRedo(stack, index)>>

LEMMA HistoryStep ==
  ASSUME StackInv, [Next]_vars
  PROVE  [History!Next]_HistoryVars
<1> USE DEF StackInv, HistoryVars
<1>1. ASSUME UNCHANGED <<stack, index>>
      PROVE  UNCHANGED HistoryVars
  BY <1>1 DEF CanUndo, CanRedo
<1>2. ASSUME NEW a \in Actions, Push(a)
      PROVE  History!Perform(a)
  <2> DEFINE pushed == <<a>> \o CanUndo(stack, index)
             k == IF Len(pushed) < Levels THEN Len(pushed) ELSE Levels
  <2>1. /\ stack' = SubSeq(pushed, 1, k) /\ index' = 0
        /\ stack' \in Seq(Actions)
        /\ Len(pushed) = Len(CanUndo(stack, index)) + 1
    BY <1>2, Pushed DEF Push, CanUndo
  <2>2. CanUndo(stack', 0) = stack' /\ CanRedo(stack', 0) = << >>
    BY <2>1, AllDone
  <2>3. Len(CanUndo(stack, index)) \in Nat /\ Levels \in Nat
    BY Parts, LenProperties, LevelsAreSome
  <2>4. k = IF Len(CanUndo(stack, index)) < Levels
              THEN Len(CanUndo(stack, index)) + 1 ELSE Levels
    BY <2>1, <2>3
  <2> QED BY <2>1, <2>2, <2>4 DEF History!Perform, CanUndo, CanRedo
<1>3. ASSUME NEW a \in Actions, End(a)
      PROVE  History!Next \/ UNCHANGED HistoryVars
  BY <1>1, <1>2, <1>3 DEF End, History!Next
<1>4. CASE Undo
  <2>1. stack' = stack /\ index' = index + 1 /\ index < Len(stack)
    BY <1>4 DEF Undo
  <2>2. /\ CanUndo(stack, index) # << >>
        /\ CanUndo(stack', index') = Tail(CanUndo(stack, index))
        /\ CanRedo(stack', index') = <<Head(CanUndo(stack, index))>> \o CanRedo(stack, index)
    BY <2>1, OneMore
  <2> QED BY <2>2 DEF History!Undo, History!Next, CanUndo, CanRedo
<1>5. CASE Redo
  <2>1. /\ stack' = stack /\ index' = index - 1
        /\ index' \in 0 .. Len(stack) /\ index' < Len(stack) /\ index = index' + 1
    <3>1. stack' = stack /\ index' = index - 1 /\ index > 0 /\ Len(stack) \in Nat
      BY <1>5, LenProperties DEF Redo
    <3> QED BY <3>1
  <2>2. /\ CanRedo(stack, index) # << >>
        /\ CanRedo(stack', index') = Tail(CanRedo(stack, index))
        /\ CanUndo(stack', index') = <<Head(CanRedo(stack, index))>> \o CanUndo(stack, index)
    BY <2>1, OneMore
  <2> QED BY <2>2 DEF History!Redo, History!Next, CanUndo, CanRedo
<1>6. CASE EmptyTrash
  <2>1. /\ index' = 0 /\ stack' \in Seq(Actions)
        /\ KeepsOrder(stack', CanUndo(stack, index))
    BY <1>6, Emptied
  <2>2. CanUndo(stack', index') = stack' /\ CanRedo(stack', index') = << >>
    BY <2>1, AllDone
  <2> DEFINE d == SubSeq(stack, index + 1, Len(stack))
             u == Reverse(SubSeq(stack, 1, index))
  <2>3. d' = stack' /\ u' = << >> /\ KeepsOrder(stack', d)
    BY <2>1, <2>2 DEF CanUndo, CanRedo
  <2>4. u' = << >> /\ d' \in Seq(Actions) /\ KeepsOrder(d', d)
    BY <2>1, <2>3
  <2>5. History!Forget
    BY <2>4 DEF History!Forget, KeepsOrder
  <2> QED BY <2>5 DEF History!Next
<1>7. CASE UNCHANGED vars
  BY <1>1, <1>7 DEF vars
<1>8. ASSUME NEW a \in Actions, Begin(a) \/ JobDone(a)
      PROVE  UNCHANGED HistoryVars
  BY <1>1, <1>8 DEF Begin, JobDone
<1> QED BY <1>3, <1>4, <1>5, <1>6, <1>7, <1>8 DEF Next

\* The stack and its index are one history: for any actions and any limit, whatever
\* is done, undone, redone and emptied from the trash while jobs are under way.
THEOREM HistoryImplemented == Spec => ImplementsHistory
<1>1. Init => StackInv
  BY EmptySeq DEF Init, StackInv
<1>2. StackInv /\ [Next]_vars => StackInv'
  BY StackStep
<1>3. StackInv /\ [Next]_vars =>
        [History!Next]_<<SubSeq(stack, index + 1, Len(stack)), Reverse(SubSeq(stack, 1, index))>>
  BY HistoryStep DEF HistoryVars, CanUndo, CanRedo
<1>4. Init => History!Init
  <2>1. ASSUME Init
        PROVE  stack = << >> /\ index = 0 /\ stack \in Seq(Actions)
    BY <2>1, EmptySeq DEF Init
  <2>2. ASSUME Init
        PROVE  CanUndo(stack, index) = << >> /\ CanRedo(stack, index) = << >>
    BY <2>1, <2>2, AllDone
  <2> QED BY <2>2 DEF History!Init, CanUndo, CanRedo
<1> QED BY <1>1, <1>2, <1>3, <1>4, PTL DEF Spec, ImplementsHistory, History!Spec

(***************************************************************************)
(* Memory. What is undone, what is kept and what falls off are apart.      *)
(***************************************************************************)
LEMMA OnStack ==
  ASSUME NEW s \in Seq(Actions)
  PROVE  Range(s) = {s[n] : n \in 1 .. Len(s)} /\ DOMAIN s = 1 .. Len(s) /\ Len(s) \in Nat
BY RangeEquality, LenProperties

LEMMA PushedApart ==
  ASSUME NEW s \in Seq(Actions), NEW i \in 0..Len(s), NEW a \in Actions,
         IsInjective(s), a \notin Range(s)
  PROVE  LET pushed == <<a>> \o CanUndo(s, i)
             k == IF Len(pushed) < Levels THEN Len(pushed) ELSE Levels
             t == SubSeq(pushed, 1, k)
             oldest == Range(SubSeq(pushed, Levels + 1, Len(pushed)))
         IN /\ t \in Seq(Actions) /\ IsInjective(t)
            /\ Range(t) \subseteq {a} \cup Range(s)
            /\ oldest \subseteq Range(s)
            /\ Range(t) \cap oldest = {}
            /\ Range(t) \cap {s[n] : n \in 1 .. i} = {}
<1> DEFINE pushed == <<a>> \o CanUndo(s, i)
           k == IF Len(pushed) < Levels THEN Len(pushed) ELSE Levels
           t == SubSeq(pushed, 1, k)
           oldest == Range(SubSeq(pushed, Levels + 1, Len(pushed)))
<1>1. /\ t \in Seq(Actions)
      /\ k \in 1 .. Len(s) - i + 1 /\ Len(t) = k
      /\ t[1] = a
      /\ \A n \in 2 .. k : t[n] = s[i + n - 1]
      /\ \A b \in oldest : \E n \in k + 1 .. Len(s) - i + 1 : b = s[i + n - 1]
  <2>1. t \in Seq(Actions)
    BY Pushed
  <2>2. k \in 1 .. Len(s) - i + 1 /\ Len(t) = k
    BY Pushed
  <2>3. t[1] = a
    BY Pushed
  <2>4. \A n \in 2 .. k : t[n] = s[i + n - 1]
    BY Pushed
  <2>5. \A b \in oldest : \E n \in k + 1 .. Len(s) - i + 1 : b = s[i + n - 1]
    BY Pushed
  <2> HIDE DEF pushed, k, t, oldest
  <2> QED BY <2>1, <2>2, <2>3, <2>4, <2>5
<1> HIDE DEF pushed, k, t, oldest
<1>2. Len(s) \in Nat /\ i \in Nat /\ i <= Len(s) /\ DOMAIN s = 1 .. Len(s)
  <2>1. DOMAIN s = 1 .. Len(s) /\ Len(s) \in Nat
    BY OnStack
  <2> QED BY <2>1
<1>3. /\ \A n \in 2 .. k : i + n - 1 \in i + 1 .. Len(s)
      /\ \A n \in k + 1 .. Len(s) - i + 1 : i + n - 1 \in i + 1 .. Len(s)
      /\ \A m, n \in Int : i + m - 1 = i + n - 1 => m = n
      /\ \A n \in i + 1 .. Len(s) : n \in 1 .. Len(s)
      /\ \A n \in 1 .. i : n \in 1 .. Len(s) /\ n \notin i + 1 .. Len(s)
  <2>1. k \in Int /\ 1 <= k /\ k <= Len(s) - i + 1 /\ Len(s) \in Int /\ i \in Int /\ 0 <= i
    BY <1>1, <1>2
  <2>2. \A n \in 2 .. k : i + n - 1 \in i + 1 .. Len(s)
    BY <2>1
  <2>3. \A n \in k + 1 .. Len(s) - i + 1 : i + n - 1 \in i + 1 .. Len(s)
    BY <2>1
  <2>4. \A m, n \in Int : i + m - 1 = i + n - 1 => m = n
    BY <2>1
  <2>5. \A n \in i + 1 .. Len(s) : n \in 1 .. Len(s)
    BY <2>1
  <2>6. \A n \in 1 .. i : n \in 1 .. Len(s) /\ n \notin i + 1 .. Len(s)
    BY <1>2, <2>1
  <2> QED BY <2>2, <2>3, <2>4, <2>5, <2>6
<1>4. \A n \in 1 .. Len(s) : s[n] \in Range(s) /\ s[n] # a
  BY OnStack
<1>5. \A m, n \in 1 .. Len(s) : s[m] = s[n] => m = n
  BY <1>2 DEF IsInjective
<1>6. Range(t) = {t[n] : n \in 1 .. k} /\ DOMAIN t = 1 .. k
  BY <1>1, OnStack
<1>7. \A n \in 1 .. k : n = 1 \/ n \in 2 .. k
  BY <1>1
<1>8. \A n \in 2 .. k : n \in Int /\ n \notin k + 1 .. Len(s) - i + 1
  BY <1>1
<1>9. \A n \in k + 1 .. Len(s) - i + 1 : n \in Int
  BY <1>1
<1>10. IsInjective(t)
  <2>0. ASSUME NEW m \in 2 .. k
        PROVE  t[m] # t[1]
    <3>1. t[m] = s[i + m - 1] /\ t[1] = a
      BY <1>1
    <3>2. i + m - 1 \in 1 .. Len(s)
      BY <1>3
    <3> QED BY <1>4, <3>1, <3>2
  <2>1. ASSUME NEW m \in 1 .. k, NEW n \in 1 .. k, t[m] = t[n]
        PROVE  m = n
    <3>1. CASE m = 1 /\ n = 1
      BY <3>1
    <3>2. CASE m = 1 /\ n \in 2 .. k
      BY <2>0, <2>1, <3>2
    <3>3. CASE m \in 2 .. k /\ n = 1
      BY <2>0, <2>1, <3>3
    <3>4. CASE m \in 2 .. k /\ n \in 2 .. k
      <4>1. s[i + m - 1] = s[i + n - 1]
        BY <1>1, <2>1, <3>4
      <4>2. i + m - 1 \in 1 .. Len(s) /\ i + n - 1 \in 1 .. Len(s)
        BY <1>3, <3>4
      <4>3. i + m - 1 = i + n - 1
        BY <1>5, <4>1, <4>2
      <4>4. m \in Int /\ n \in Int
        BY <1>8, <3>4
      <4>5. i + m - 1 = i + n - 1 => m = n
        BY <1>3, <4>4
      <4> QED BY <4>3, <4>5
    <3> QED BY <1>7, <3>1, <3>2, <3>3, <3>4
  <2> QED BY <1>6, <2>1 DEF IsInjective
<1>11. Range(t) \subseteq {a} \cup {s[n] : n \in i + 1 .. Len(s)}
  BY <1>1, <1>3, <1>6, <1>7
<1>12. oldest \subseteq {s[n] : n \in i + 1 .. Len(s)}
  <2>1. ASSUME NEW b \in oldest
        PROVE  \E n \in i + 1 .. Len(s) : b = s[n]
    <3>1. PICK n \in k + 1 .. Len(s) - i + 1 : b = s[i + n - 1]
      BY <1>1
    <3>2. i + n - 1 \in i + 1 .. Len(s)
      BY <1>3
    <3> QED BY <3>1, <3>2
  <2> QED BY <2>1
<1>13. \A n \in i + 1 .. Len(s) : s[n] \in Range(s)
  BY <1>3, <1>4
<1>14. Range(t) \cap oldest = {}
  <2>1. ASSUME NEW m \in 1 .. k, NEW n \in k + 1 .. Len(s) - i + 1, t[m] = s[i + n - 1]
        PROVE  FALSE
    <3>1. i + n - 1 \in 1 .. Len(s)
      BY <1>3
    <3>2. m # 1
      BY <1>1, <1>4, <2>1, <3>1
    <3>3. m \in 2 .. k
      BY <1>7, <3>2
    <3>4. i + m - 1 \in 1 .. Len(s) /\ s[i + m - 1] = s[i + n - 1]
      BY <1>1, <1>3, <2>1, <3>3
    <3>5. i + m - 1 = i + n - 1
      BY <1>5, <3>1, <3>4
    <3>6. m = n
      BY <1>3, <1>8, <1>9, <3>3, <3>5
    <3> QED BY <1>8, <3>3, <3>6
  <2>2. ASSUME NEW b \in Range(t), b \in oldest
        PROVE  FALSE
    <3>1. PICK m \in 1 .. k : b = t[m]
      BY <1>6
    <3>2. PICK n \in k + 1 .. Len(s) - i + 1 : b = s[i + n - 1]
      BY <1>1, <2>2
    <3> QED BY <2>1, <3>1, <3>2
  <2> QED BY <2>2
<1>15. Range(t) \cap {s[n] : n \in 1 .. i} = {}
  <2>1. ASSUME NEW m \in 1 .. i
        PROVE  s[m] # a /\ \A n \in i + 1 .. Len(s) : s[m] # s[n]
    BY <1>3, <1>4, <1>5
  <2> QED BY <1>11, <2>1
<1>16. Range(t) \subseteq {a} \cup Range(s) /\ oldest \subseteq Range(s)
  BY <1>11, <1>12, <1>13
<1> QED BY <1>1, <1>10, <1>14, <1>15, <1>16 DEF pushed, k, t, oldest

LEMMA LeftApart ==
  ASSUME NEW s \in Seq(Actions), NEW i \in 0..Len(s), NEW l, l \in Seq(Actions),
         IsInjective(s), KeepsOrder(l, CanUndo(s, i))
  PROVE  /\ IsInjective(l)
         /\ Range(l) \subseteq Range(s)
         /\ Range(l) \cap {s[n] : n \in 1 .. i} = {}
<1> DEFINE kept == CanUndo(s, i)
<1>1. kept \in Seq(Actions) /\ Len(kept) = Len(s) - i
      /\ \A n \in 1 .. Len(s) - i : kept[n] = s[i + n]
  BY Parts
<1> HIDE DEF kept
<1>2. /\ Len(s) \in Nat /\ i \in Nat /\ i <= Len(s) /\ DOMAIN s = 1 .. Len(s)
      /\ DOMAIN kept = 1 .. Len(s) - i
      /\ DOMAIN l = 1 .. Len(l) /\ Len(l) \in Nat
  BY <1>1, OnStack
<1>3. PICK place \in [DOMAIN l -> DOMAIN kept] :
        /\ \A m, n \in DOMAIN l : m < n => place[m] < place[n]
        /\ \A n \in DOMAIN l : l[n] = kept[place[n]]
  BY DEF KeepsOrder, kept
<1>4. ASSUME NEW n \in DOMAIN l
      PROVE  /\ place[n] \in 1 .. Len(s) - i
             /\ i + place[n] \in i + 1 .. Len(s) /\ i + place[n] \in 1 .. Len(s)
             /\ l[n] = s[i + place[n]]
  <2>1. place[n] \in 1 .. Len(s) - i
    BY <1>2, <1>3
  <2>2. i + place[n] \in i + 1 .. Len(s) /\ i + place[n] \in 1 .. Len(s)
    BY <1>2, <2>1
  <2>3. l[n] = s[i + place[n]]
    BY <1>1, <1>3, <2>1
  <2> QED BY <2>1, <2>2, <2>3
<1>5. \A m, n \in 1 .. Len(s) : s[m] = s[n] => m = n
  BY <1>2 DEF IsInjective
<1>6. IsInjective(l)
  <2>1. ASSUME NEW m \in DOMAIN l, NEW n \in DOMAIN l, l[m] = l[n]
        PROVE  m = n
    <3>1. i + place[m] = i + place[n]
      BY <1>4, <1>5, <2>1
    <3>2. place[m] \in Int /\ place[n] \in Int /\ i \in Int
      BY <1>2, <1>4
    <3>3. place[m] = place[n]
      BY <3>1, <3>2
    <3>4. ~(m < n) /\ ~(n < m)
      BY <1>3, <3>2, <3>3
    <3> QED BY <1>2, <3>4
  <2> QED BY <2>1 DEF IsInjective
<1>7. Range(l) \subseteq {s[n] : n \in i + 1 .. Len(s)}
  BY <1>4 DEF Range
<1>8. /\ \A n \in i + 1 .. Len(s) : n \in 1 .. Len(s)
      /\ \A n \in 1 .. i : n \in 1 .. Len(s) /\ n \notin i + 1 .. Len(s)
  BY <1>2
<1>9. Range(l) \subseteq Range(s)
  BY <1>7, <1>8, OnStack
<1>10. Range(l) \cap {s[n] : n \in 1 .. i} = {}
  BY <1>5, <1>7, <1>8
<1> QED BY <1>6, <1>9, <1>10

\* The invariant: actions that are still to come, those on the stack, those that a job
\* will come back to and those that were freed are kept apart.
Apart ==
    /\ IsInjective(stack)
    /\ Range(stack) \cap (freed \cup doomed) = {}
    /\ running \cap freed = {}
    /\ running \subseteq locked
    /\ (fresh \cup recording) \cap (Range(stack) \cup freed \cup doomed \cup running) = {}
    /\ fresh \cap recording = {}
    /\ misread \subseteq doomed

MemoryInv == StackInv /\ Apart

LEMMA UndoneOnStack ==
  ASSUME StackInv
  PROVE  Undone \subseteq Range(stack)
<1>1. \A n \in 1 .. index : n \in 1 .. Len(stack)
  BY OnStack DEF StackInv
<1> QED BY <1>1, OnStack DEF Undone, StackInv

LEMMA MemoryStep ==
  ASSUME "overlap" \notin Uses, MemoryInv, [Next]_vars
  PROVE  MemoryInv'
<1>0. StackInv /\ StackInv' /\ Undone \subseteq Range(stack)
  BY StackStep, UndoneOnStack DEF MemoryInv
<1>1. ASSUME NEW a \in Actions, Begin(a)
      PROVE  Apart'
  BY <1>1 DEF Begin, MemoryInv, Apart
<1>2. ASSUME NEW a \in Actions, End(a)
      PROVE  Apart'
  <2>1. CASE Push(a)
    <3> DEFINE pushed == <<a>> \o CanUndo(stack, index)
               oldest == Range(SubSeq(pushed, Levels + 1, Len(pushed)))
    <3>1. a \notin Range(stack) /\ a \notin freed \cup doomed \cup running \cup fresh
      BY <1>2 DEF End, MemoryInv, Apart
    <3>2. /\ IsInjective(stack)'
          /\ Range(stack') \subseteq {a} \cup Range(stack)
          /\ oldest \subseteq Range(stack)
          /\ Range(stack') \cap oldest = {}
          /\ Range(stack') \cap Undone = {}
      BY <1>0, <2>1, <3>1, PushedApart
      DEF Push, CanUndo, Undone, StackInv, MemoryInv, Apart
    <3>3. /\ doomed' = doomed \cup (oldest \cap locked)
          /\ freed' = freed \cup Undone \cup (oldest \ locked)
      BY <2>1 DEF Push, CanUndo
    <3> HIDE DEF oldest
    <3>4. Undone \cap running = {}
      BY <1>2 DEF End, Undisturbed
    <3> QED BY <1>0, <1>2, <3>1, <3>2, <3>3, <3>4 DEF End, MemoryInv, Apart
  <2>2. CASE freed' = freed \cup {a} /\ UNCHANGED <<stack, index, doomed>>
    BY <1>2, <2>2 DEF End, MemoryInv, Apart
  <2> QED BY <1>2, <2>1, <2>2 DEF End
<1>3. ASSUME NEW a \in Actions, JobDone(a)
      PROVE  Apart'
  BY <1>3 DEF JobDone, MemoryInv, Apart
<1>4. ASSUME Undo
      PROVE  Apart'
  <2>1. stack[index + 1] \in Range(stack)
    BY <1>0, <1>4, OnStack, OneMore DEF Undo, StackInv
  <2>2. /\ UNCHANGED <<stack, doomed, freed, fresh, recording, misread>>
        /\ locked \subseteq locked'
        /\ running' \subseteq running \cup {stack[index + 1]}
        /\ running' \subseteq running \cup locked'
    BY <1>4 DEF Undo, Starts
  <2> QED BY <2>1, <2>2 DEF MemoryInv, Apart
<1>5. ASSUME Redo
      PROVE  Apart'
  <2>1. stack[index] \in Range(stack)
    BY <1>0, <1>5, OnStack DEF Redo, StackInv
  <2> QED BY <1>5, <2>1 DEF Redo, Starts, MemoryInv, Apart
<1>6. ASSUME EmptyTrash
      PROVE  Apart'
  <2>1. KeepsOrder(stack', CanUndo(stack, index)) /\ stack' \in Seq(Actions)
    BY <1>0, <1>6, Emptied
  <2>2. /\ IsInjective(stack)'
        /\ Range(stack') \subseteq Range(stack)
        /\ Range(stack') \cap Undone = {}
    BY <1>0, <2>1, LeftApart DEF Undone, StackInv, MemoryInv, Apart
  <2>3. /\ freed' = freed \cup Undone /\ Undone \cap running = {}
        /\ UNCHANGED <<locked, doomed, fresh, recording, running, misread>>
    BY <1>6 DEF EmptyTrash, Undisturbed
  <2> QED BY <1>0, <2>2, <2>3 DEF MemoryInv, Apart
<1>7. ASSUME UNCHANGED vars
      PROVE  Apart'
  BY <1>7 DEF vars, MemoryInv, Apart
<1> QED BY <1>0, <1>1, <1>2, <1>3, <1>4, <1>5, <1>6, <1>7 DEF Next, MemoryInv

\* As long as no operation ends, and the trash is not emptied, while an action that was
\* undone is being undone or redone, neither the stack nor a job under way refers to
\* freed memory, however many actions and levels there are; and the only freed actions
\* that are read are those that fell off the stack while they were redone, each by the
\* callback that has just freed it.
THEOREM FreedIsReadOnlyAtTheEnd ==
  ASSUME "overlap" \notin Uses
  PROVE  Spec => []NothingElseFreedIsUsed
<1>1. Init => MemoryInv
  <2>1. ASSUME Init
        PROVE  /\ stack \in Seq(Actions) /\ stack = << >> /\ Len(stack) = 0 /\ index = 0
               /\ Range(stack) = {} /\ DOMAIN stack = {}
    BY <2>1, EmptySeq DEF Init, Range
  <2>2. ASSUME Init
        PROVE  StackInv
    BY <2>1, <2>2 DEF StackInv
  <2>3. ASSUME Init
        PROVE  Apart
    BY <2>1, <2>3 DEF Init, Apart, IsInjective
  <2> QED BY <2>2, <2>3 DEF MemoryInv
<1>2. MemoryInv /\ [Next]_vars => MemoryInv'
  BY MemoryStep
<1>3. MemoryInv => NothingElseFreedIsUsed
  BY DEF MemoryInv, Apart, NothingElseFreedIsUsed
<1> QED BY <1>1, <1>2, <1>3, PTL DEF Spec

-----------------------------------------------------------------------------
(***************************************************************************)
(* The bookmarks.                                                          *)
(***************************************************************************)
Texts == Seq(Bookmarks)

Jobs == [step : {"none", "reads", "writes", "done"}, from : {"file", "legacy"}, text : Texts]

States ==
  [list : Texts, ops : Seq({"load", "save"}), job : Jobs,
   monitor : [on : BOOLEAN, event : BOOLEAN]]

\* What is owed, but for what a failed read has left out of the list.
Held == owed \ unread

(***************************************************************************)
(* The invariant. s is the list with its queue, o what is owed to it.      *)
(***************************************************************************)
Loads(s) == s.ops # << >> /\ Head(s.ops) = "load"

\* What GIO does is the operation at the head of the queue.
OneJob(s) ==
  /\ s.job.step = "none" <=> s.ops = << >>
  /\ s.job.step = "reads" => Loads(s)
  /\ s.job.step = "writes" => ~Loads(s)

\* Unless a load has cleared it, the list has what is owed; a load brings it back,
\* and a save writes it.
ListHas(s, o) == ~Loads(s) => o \subseteq ToSet(s.list)
LoadBrings(s, o) ==
  Loads(s) => /\ s.job.step = "done" => o \subseteq ToSet(s.job.text)
              /\ s.job.from = "legacy" => o = {}
SaveWrites(s, o) == s.job.step = "writes" => o \subseteq ToSet(s.job.text)

ListInv(s, o) ==
  s \in States /\ OneJob(s) /\ ListHas(s, o) /\ LoadBrings(s, o) /\ SaveWrites(s, o)

\* No bookmark is owed while there is no file.
FileHas ==
  /\ file \in Texts \cup {NoFile}
  /\ Held \subseteq Bookmarks
  /\ Held # {} => file # NoFile
  /\ file # NoFile => Held \subseteq ToSet(file)

Inv == ListInv(Now, Held) /\ FileHas /\ legacy \in Texts

(***************************************************************************)
(* Sequences.                                                              *)
(***************************************************************************)
LEMMA Joined ==
  ASSUME NEW l \in Texts, NEW m \in Texts
  PROVE  /\ l \o m \in Texts
         /\ Len(l \o m) = Len(l) + Len(m)
         /\ ToSet(l) \subseteq ToSet(l \o m)
         /\ ToSet(m) \subseteq ToSet(l \o m)
<1>1. /\ l \o m \in Texts
      /\ Len(l \o m) = Len(l) + Len(m)
      /\ \A n \in 1 .. Len(l) + Len(m) :
           (l \o m)[n] = IF n <= Len(l) THEN l[n] ELSE m[n - Len(l)]
  BY ConcatProperties DEF Texts
<1>2. ASSUME NEW n \in DOMAIN l
      PROVE  l[n] \in ToSet(l \o m)
  <2>1. n \in DOMAIN (l \o m) /\ (l \o m)[n] = l[n]
    BY <1>1 DEF Texts
  <2> QED BY <2>1 DEF ToSet
<1>3. ASSUME NEW n \in DOMAIN m
      PROVE  m[n] \in ToSet(l \o m)
  <2>1. Len(l) + n \in DOMAIN (l \o m) /\ (l \o m)[Len(l) + n] = m[n]
    BY <1>1 DEF Texts
  <2> QED BY <2>1 DEF ToSet
<1> QED BY <1>1, <1>2, <1>3 DEF ToSet

\* The beginning of a sequence, and its end.
LEMMA Part ==
  ASSUME NEW l \in Texts, NEW i \in 1 .. Len(l) + 1, NEW k \in i - 1 .. Len(l)
  PROVE  LET p == SubSeq(l, i, k) IN
         /\ p \in Texts
         /\ Len(p) = k - i + 1
         /\ \A n \in i .. k : l[n] \in ToSet(p)
<1> DEFINE p == SubSeq(l, i, k)
<1>1. \A n \in i .. k : l[n] \in Bookmarks
  BY DEF Texts
<1>2. i \in Int /\ k \in Int
  BY DEF Texts
<1>3. /\ p \in Texts
      /\ Len(p) = IF i <= k THEN k - i + 1 ELSE 0
      /\ \A n \in 1 .. k - i + 1 : p[n] = l[i + n - 1]
  BY <1>1, <1>2, SubSeqProperties DEF Texts
<1>4. Len(p) = k - i + 1
  BY <1>2, <1>3
<1> HIDE DEF p
<1>5. ASSUME NEW n \in i .. k
      PROVE  l[n] \in ToSet(p)
  <2>1. n - i + 1 \in 1 .. k - i + 1
    BY <1>2
  <2>2. n - i + 1 \in DOMAIN p
    BY <1>3, <1>4, <2>1 DEF Texts
  <2>3. p[n - i + 1] = l[i + (n - i + 1) - 1]
    BY <1>3, <2>1
  <2>4. i + (n - i + 1) - 1 = n
    BY <1>2
  <2> QED BY <2>2, <2>3, <2>4 DEF ToSet
<1> QED BY <1>3, <1>4, <1>5 DEF p

LEMMA Inserted ==
  ASSUME NEW l \in Texts, NEW i \in 1 .. Len(l) + 1, NEW b \in Bookmarks
  PROVE  /\ InsertAt(l, i, b) \in Texts
         /\ ToSet(l) \cup {b} \subseteq ToSet(InsertAt(l, i, b))
<1> DEFINE front == SubSeq(l, 1, i - 1)
           end == SubSeq(l, i, Len(l))
<1>1. Len(l) \in Nat /\ DOMAIN l = 1 .. Len(l)
  BY DEF Texts
<1>2. front \in Texts /\ \A n \in 1 .. i - 1 : l[n] \in ToSet(front)
  BY <1>1, Part
<1>3. end \in Texts /\ \A n \in i .. Len(l) : l[n] \in ToSet(end)
  BY <1>1, Part
<1>4. ToSet(l) \subseteq ToSet(front) \cup ToSet(end)
  BY <1>1, <1>2, <1>3 DEF ToSet
<1> HIDE DEF front, end
<1>5. << b >> \in Texts /\ b \in ToSet(<< b >>)
  BY DEF Texts, ToSet
<1>6. /\ front \o << b >> \in Texts
      /\ ToSet(front) \cup {b} \subseteq ToSet(front \o << b >>)
  BY <1>2, <1>5, Joined
<1>7. LET r == (front \o << b >>) \o end IN
      /\ r \in Texts
      /\ ToSet(front \o << b >>) \subseteq ToSet(r)
      /\ ToSet(end) \subseteq ToSet(r)
  BY <1>3, <1>6, Joined
<1> QED BY <1>4, <1>6, <1>7 DEF InsertAt, front, end

LEMMA Removed ==
  ASSUME NEW l \in Texts, NEW i \in DOMAIN l
  PROVE  /\ RemoveAt(l, i) \in Texts
         /\ ToSet(l) \ {l[i]} \subseteq ToSet(RemoveAt(l, i))
         /\ Len(RemoveAt(l, i)) = Len(l) - 1
         /\ l[i] \in Bookmarks
<1> DEFINE front == SubSeq(l, 1, i - 1)
           end == SubSeq(l, i + 1, Len(l))
<1>1. Len(l) \in Nat /\ DOMAIN l = 1 .. Len(l) /\ l[i] \in Bookmarks
  BY DEF Texts
<1>2. front \in Texts /\ Len(front) = i - 1 /\ \A n \in 1 .. i - 1 : l[n] \in ToSet(front)
  <2>1. 1 \in 1 .. Len(l) + 1 /\ i - 1 \in 1 - 1 .. Len(l) /\ (i - 1) - 1 + 1 = i - 1
    BY <1>1
  <2> QED BY <2>1, Part
<1>3. end \in Texts /\ Len(end) = Len(l) - i /\ \A n \in i + 1 .. Len(l) : l[n] \in ToSet(end)
  <2>1. i + 1 \in 1 .. Len(l) + 1 /\ Len(l) \in (i + 1) - 1 .. Len(l)
        /\ Len(l) - (i + 1) + 1 = Len(l) - i
    BY <1>1
  <2> QED BY <2>1, Part
<1>4. ToSet(l) \ {l[i]} \subseteq ToSet(front) \cup ToSet(end)
  <2>1. ASSUME NEW n \in DOMAIN l, l[n] # l[i]
        PROVE  n \in 1 .. i - 1 \/ n \in i + 1 .. Len(l)
    BY <1>1, <2>1
  <2> QED BY <1>2, <1>3, <2>1 DEF ToSet
<1> HIDE DEF front, end
<1>5. LET r == front \o end IN
      /\ r \in Texts
      /\ Len(r) = Len(front) + Len(end)
      /\ ToSet(front) \subseteq ToSet(r)
      /\ ToSet(end) \subseteq ToSet(r)
  BY <1>2, <1>3, Joined
<1>6. Len(front) + Len(end) = Len(l) - 1
  BY <1>1, <1>2, <1>3
<1> QED BY <1>1, <1>4, <1>5, <1>6 DEF RemoveAt, front, end

LEMMA SomeText ==
  /\ Contents \subseteq Texts
  /\ << >> \in Texts
  /\ \A b \in Bookmarks : << b >> \in Texts
  /\ \A l \in Texts : ToSet(l) \subseteq Bookmarks
<1>1. Contents \subseteq Texts
  BY DEF Contents, SeqOf, Texts
<1>2. << >> \in Texts /\ \A b \in Bookmarks : << b >> \in Texts
  BY DEF Texts
<1>3. \A l \in Texts : ToSet(l) \subseteq Bookmarks
  BY DEF Texts, ToSet
<1> QED BY <1>1, <1>2, <1>3

(***************************************************************************)
(* The queue.                                                              *)
(***************************************************************************)
LEMMA NextOp ==
  ASSUME NEW s \in States, NEW o, s.ops # << >>, o \subseteq ToSet(s.list),
         file = NoFile => o = {}
  PROVE  ListInv(ProcessNextOp(s), o)
<1>1. CASE Head(s.ops) = "load"
  <2> DEFINE t == LoadAsync(s)
  <2>1. t \in States /\ t.ops = s.ops /\ t.job.step = "reads"
        /\ (t.job.from = "legacy" => file = NoFile)
    BY SomeText DEF LoadAsync, States, Jobs
  <2>2. ProcessNextOp(s) = t
    BY <1>1 DEF ProcessNextOp
  <2> HIDE DEF t
  <2> QED BY <1>1, <2>1, <2>2 DEF ListInv, OneJob, ListHas, LoadBrings, SaveWrites, Loads
<1>2. CASE Head(s.ops) # "load"
  <2> DEFINE t == SaveAsync(s)
  <2>1. t \in States /\ t.ops = s.ops /\ t.list = s.list /\ t.job.step = "writes"
        /\ t.job.text = s.list
    BY DEF SaveAsync, States, Jobs
  <2>2. ProcessNextOp(s) = t
    BY <1>2 DEF ProcessNextOp
  <2> HIDE DEF t
  <2> QED BY <1>2, <2>1, <2>2 DEF ListInv, OneJob, ListHas, LoadBrings, SaveWrites, Loads
<1> QED BY <1>1, <1>2

LEMMA Asked ==
  ASSUME NEW s, NEW o, ListInv(s, o), NEW op \in {"load", "save"}, file = NoFile => o = {}
  PROVE  ListInv(Ask(s, op), o)
<1> DEFINE t == [s EXCEPT !.ops = Append(@, op)]
<1>1. s \in States
  BY DEF ListInv
<1>2. t \in States /\ t.list = s.list /\ t.job = s.job /\ t.ops = Append(s.ops, op)
  BY <1>1 DEF States
<1>3. CASE s.ops = << >>
  <2>1. t.ops # << >> /\ Len(t.ops) = 1
    BY <1>1, <1>2, <1>3 DEF States
  <2>2. o \subseteq ToSet(t.list)
    BY <1>2, <1>3 DEF ListInv, ListHas, Loads
  <2>3. Ask(s, op) = ProcessNextOp(t)
    BY <2>1 DEF Ask
  <2> QED BY <1>2, <2>1, <2>2, <2>3, NextOp
<1>4. CASE s.ops # << >>
  <2>1. t.ops # << >> /\ Len(t.ops) # 1 /\ Head(t.ops) = Head(s.ops)
    BY <1>1, <1>2, <1>4 DEF States
  <2>2. Ask(s, op) = t
    BY <2>1 DEF Ask
  <2> HIDE DEF t
  <2> QED BY <1>2, <1>4, <2>1, <2>2
         DEF ListInv, OneJob, ListHas, LoadBrings, SaveWrites, Loads
<1> QED BY <1>3, <1>4
(***************************************************************************)
(* The beginning, and the steps.                                           *)
(***************************************************************************)
LEMMA InitInv == ListInit => Inv
<1> SUFFICES ASSUME ListInit PROVE Inv
  OBVIOUS
<1>1. Now \in States /\ legacy \in Texts
  BY SomeText DEF ListInit, Now, States, Jobs
<1>2. Now.ops = << "load" >> /\ Now.job.step = "reads"
  BY DEF ListInit, Now
<1>3. ListInv(Now, Held)
  BY <1>1, <1>2 DEF Held, ListInit, ListInv, OneJob, ListHas, LoadBrings, SaveWrites, Loads
<1>4. FileHas
  BY SomeText DEF Held, ListInit, FileHas
<1> QED BY <1>1, <1>3, <1>4 DEF Inv

\* A user's change keeps all that is owed afterwards, and may be made at any time.
LEMMA Edited ==
  ASSUME Inv, NEW l \in Texts, NEW gone, Edit(l, gone),
         ToSet(list) \ gone \subseteq ToSet(l)
  PROVE  Inv'
<1> DEFINE s == [Now EXCEPT !.list = l]
           o == Held \ gone
<1>1. Now \in States
  BY DEF Inv, ListInv
<1>2. s \in States /\ s.ops = ops /\ s.job = job /\ s.list = l
  BY <1>1 DEF Now, States
<1>3. ListInv(s, o)
  <2>1. ListInv(Now, Held) /\ Now.ops = ops /\ Now.job = job /\ Now.list = list
    BY DEF Inv, Now
  <2> HIDE DEF s
  <2> QED BY <1>2, <2>1 DEF ListInv, OneJob, ListHas, LoadBrings, SaveWrites, Loads
<1>4. file = NoFile => o = {}
  BY DEF Inv, FileHas
<1>5. ListInv(Ask(s, "save"), o)
  BY <1>3, <1>4, Asked
<1>6. Now' = Ask(s, "save") /\ Held' = o /\ file' = file /\ legacy' = legacy
  <2> DEFINE a == Ask(s, "save")
  <2>1. a \in States
    BY <1>5 DEF ListInv
  <2>2. Now' = [list |-> a.list, ops |-> a.ops, job |-> a.job, monitor |-> a.monitor]
    BY DEF Edit, Becomes, Now
  <2> HIDE DEF a
  <2>3. Now' = a
    BY <2>1, <2>2 DEF States
  <2> QED BY <2>3 DEF Held, Edit, a
<1>7. FileHas'
  BY <1>6 DEF Inv, FileHas
<1> QED BY <1>5, <1>6, <1>7 DEF Inv

LEMMA UserInv == Inv /\ User => Inv'
<1> SUFFICES ASSUME Inv, User PROVE Inv'
  OBVIOUS
<1>1. list \in Texts /\ DOMAIN list = 1 .. Len(list) /\ Len(list) \in Nat
  BY DEF Inv, ListInv, States, Now, Texts
<1>2. ASSUME NEW b \in Bookmarks, NEW n \in 0 .. MaxLength, InsertItem(b, n)
      PROVE  Inv'
  <2>1. n + 1 \in 1 .. Len(list) + 1
    BY <1>1, <1>2 DEF InsertItem
  <2> QED BY <1>1, <1>2, <2>1, Inserted, Edited DEF InsertItem
<1>3. ASSUME NEW n \in DOMAIN list, DeleteItemAt(n)
      PROVE  Inv'
  BY <1>1, <1>3, Removed, Edited DEF DeleteItemAt
<1>4. ASSUME NEW b \in Bookmarks, DeleteItemsWithUri(b)
      PROVE  Inv'
  <2>1. PICK l \in [1 .. Cardinality({n \in DOMAIN list : list[n] # b}) -> Bookmarks \ {b}] :
          IsWithout(l, b) /\ Edit(l, {b})
    BY <1>4 DEF DeleteItemsWithUri
  <2>2. l \in Texts
    <3> DEFINE left == {n \in DOMAIN list : list[n] # b}
               k == Cardinality(left)
    <3>1. IsFiniteSet(1 .. Len(list)) /\ left \subseteq 1 .. Len(list)
      BY <1>1, FS_Interval
    <3>2. k \in Nat
      BY <3>1, FS_Subset, FS_CardinalityType
    <3>3. l \in [1 .. k -> Bookmarks]
      BY <2>1
    <3> HIDE DEF left, k
    <3> QED BY <3>2, <3>3 DEF Texts
  <2>3. ToSet(list) \ {b} \subseteq ToSet(l)
    <3>1. PICK place \in [DOMAIN l -> DOMAIN list] :
            /\ {place[n] : n \in DOMAIN l} = {n \in DOMAIN list : list[n] # b}
            /\ \A n \in DOMAIN l : l[n] = list[place[n]]
      BY <2>1, ZenonT(30) DEF IsWithout
    <3> QED BY <3>1 DEF ToSet
  <2> QED BY <2>1, <2>2, <2>3, Edited
<1>5. ASSUME NEW n \in DOMAIN list, NEW d \in 1 .. MaxLength + 1, MoveItem(n, d)
      PROVE  Inv'
  <2> DEFINE rest == RemoveAt(list, n)
             i == IF n < d THEN d - 1 ELSE d
             l == InsertAt(rest, i, list[n])
  <2>1. d \in 1 .. Len(list) + 1 /\ n # d /\ Edit(l, {})
    BY <1>5 DEF MoveItem
  <2>2. /\ rest \in Texts
        /\ ToSet(list) \ {list[n]} \subseteq ToSet(rest)
        /\ Len(rest) = Len(list) - 1
        /\ list[n] \in Bookmarks
    <3>1. list \in Texts
      BY <1>1
    <3> QED BY <3>1, Removed
  <2>3. i \in 1 .. Len(rest) + 1
    BY <1>1, <2>1, <2>2
  <2> HIDE DEF rest, i
  <2>4. l \in Texts /\ ToSet(rest) \cup {list[n]} \subseteq ToSet(l)
    BY <2>2, <2>3, Inserted
  <2> HIDE DEF l
  <2> QED BY <2>1, <2>2, <2>4, Edited
<1>6. ASSUME NEW n \in DOMAIN list, NEW b \in Bookmarks, BookmarkChanged(n, b)
      PROVE  Inv'
  <2> DEFINE l == [list EXCEPT ![n] = b]
  <2>1. l \in Texts /\ DOMAIN l = DOMAIN list
    BY <1>1 DEF Texts
  <2>2. ToSet(list) \ ({list[n]} \ {b}) \subseteq ToSet(l)
    <3>1. ASSUME NEW m \in DOMAIN list, list[m] \notin {list[n]} \ {b}
          PROVE  list[m] \in ToSet(l)
      <4>1. CASE m = n
        BY <2>1, <3>1, <4>1 DEF ToSet
      <4>2. CASE m # n
        BY <2>1, <4>2 DEF ToSet
      <4> QED BY <4>1, <4>2
    <3> QED BY <3>1 DEF ToSet
  <2>3. Edit(l, {list[n]} \ {b})
    BY <1>6 DEF BookmarkChanged
  <2> HIDE DEF l
  <2> QED BY <2>1, <2>2, <2>3, Edited
<1> QED BY <1>2, <1>3, <1>4, <1>5, <1>6 DEF User

LEMMA OutsideInv ==
  ASSUME Inv, NEW text \in Contents \cup {NoFile}, Write(text)
  PROVE  Inv'
<1>1. list' = list /\ ops' = ops /\ job' = job /\ Held' \subseteq Held /\ legacy' = legacy
  BY DEF Held, Write
<1>2. FileHas'
  BY SomeText DEF Held, Inv, FileHas, Write
<1>3. ListInv(Now, Held)'
  <2>1. Now' \in States
    BY DEF Inv, ListInv, Now, States, Write
  <2> QED BY <1>1, <2>1 DEF Inv, ListInv, OneJob, ListHas, LoadBrings, SaveWrites, Loads, Now
<1> QED BY <1>1, <1>2, <1>3 DEF Inv

LEMMA MonitorInv ==
  ASSUME Inv, MonitorChanged
  PROVE  Inv'
<1> DEFINE s == [Now EXCEPT !.monitor.event = FALSE]
           a == Ask(s, "load")
<1>1. Now \in States /\ ListInv(Now, Held)
  BY DEF Inv, ListInv
<1>2. s \in States /\ s.list = Now.list /\ s.ops = Now.ops /\ s.job = Now.job
  BY <1>1 DEF States
<1>3. ListInv(s, Held)
  <2> HIDE DEF s
  <2> QED BY <1>1, <1>2 DEF ListInv, OneJob, ListHas, LoadBrings, SaveWrites, Loads
<1>4. ListInv(a, Held)
  BY <1>3, Asked DEF Inv, FileHas
<1>5. Now' = [list |-> a.list, ops |-> a.ops, job |-> a.job, monitor |-> a.monitor]
  BY DEF MonitorChanged, Becomes, Now
<1> HIDE DEF a
<1>6. Now' = a
  BY <1>4, <1>5 DEF ListInv, States
<1> QED BY <1>4, <1>6 DEF Held, MonitorChanged, Inv, FileHas

LEMMA GioInv == Inv /\ Gio => Inv'
<1> SUFFICES ASSUME Inv, Gio PROVE Inv'
  OBVIOUS
<1> USE DEF Now
<1>1. /\ list' = list /\ ops' = ops /\ monitor' = monitor /\ legacy' = legacy
      /\ Now \in States /\ OneJob(Now) /\ ListHas(Now, Held)
  BY DEF Gio, Read, ReadFails, Written, WriteFails, Inv, ListInv
<1>2. CASE Read
  <2> DEFINE text == IF job.from = "file" THEN file ELSE legacy
  <2>1. job.step = "reads" /\ Loads(Now)
    BY <1>1, <1>2 DEF Read, OneJob
  <2>2. job' = [job EXCEPT !.step = "done", !.text = IF text = NoFile THEN << >> ELSE text]
        /\ file' = file
        /\ Held' = IF job.from = "file" /\ file # NoFile THEN Held \cup ToSet(file) ELSE Held
    BY <1>2 DEF Held, Read
  <2>3. file \in Texts \cup {NoFile} /\ legacy \in Texts
    BY DEF Inv, FileHas
  <2>4. Now' \in States
    BY <1>1, <2>2, <2>3, SomeText DEF States, Jobs
  <2>5. FileHas'
    BY <2>2, <2>3, SomeText DEF Inv, FileHas
  <2>6. job.from = "legacy" => Held = {}
    BY <2>1 DEF Inv, ListInv, LoadBrings
  <2>7. /\ job'.step = "done" /\ job'.from = job.from /\ job.from \in {"file", "legacy"}
        /\ job'.text = IF text = NoFile THEN << >> ELSE text
    BY <1>1, <2>2 DEF States, Jobs
  <2>8. Held' \subseteq ToSet(job'.text)
    <3>1. CASE job.from = "file" /\ file # NoFile
      BY <2>2, <2>7, <3>1 DEF Inv, FileHas
    <3>2. CASE ~(job.from = "file" /\ file # NoFile)
      BY <2>2, <2>6, <2>7, <3>2 DEF Inv, FileHas
    <3> QED BY <3>1, <3>2
  <2>9. job'.from = "legacy" => Held' = {}
    BY <2>2, <2>6, <2>7
  <2>10. ListInv(Now, Held)'
    BY <1>1, <2>1, <2>4, <2>7, <2>8, <2>9
       DEF ListInv, OneJob, ListHas, LoadBrings, SaveWrites, Loads
  <2> QED BY <1>1, <2>3, <2>5, <2>10 DEF Inv
<1>3. CASE ReadFails
  <2>1. job.step = "reads" /\ Loads(Now)
    BY <1>1, <1>3 DEF ReadFails, OneJob
  <2>2. job' = [job EXCEPT !.step = "done"] /\ file' = file /\ Held' = {}
    BY <1>3 DEF Held, ReadFails
  <2>3. Now' \in States /\ job'.step = "done"
    BY <1>1, <2>2 DEF States, Jobs
  <2>4. ListInv(Now, Held)'
    BY <1>1, <2>1, <2>2, <2>3 DEF ListInv, OneJob, ListHas, LoadBrings, SaveWrites, Loads
  <2> QED BY <1>1, <2>2, <2>4 DEF Inv, FileHas
<1>4. CASE Written
  <2>1. job.step = "writes" /\ ~Loads(Now)
    BY <1>1, <1>4 DEF Written, OneJob
  <2>2. job' = [job EXCEPT !.step = "done"] /\ file' = job.text
        /\ Held' = Held \cup (ToSet(job.text) \cap ToSet(list))
    BY <1>4 DEF Held, Written
  <2>3. Now' \in States /\ job'.step = "done" /\ job.text \in Texts
    BY <1>1, <2>2 DEF States, Jobs
  <2>4. Held \subseteq ToSet(job.text)
    BY <2>1 DEF Inv, ListInv, SaveWrites
  <2>5. FileHas'
    BY <2>2, <2>3, <2>4, SomeText, BookmarkAssumption DEF Inv, FileHas, Texts
  <2>6. Held' \subseteq ToSet(list)
    BY <1>1, <2>1, <2>2 DEF ListHas
  <2>7. ListInv(Now, Held)'
    BY <1>1, <2>1, <2>2, <2>3, <2>6
       DEF ListInv, OneJob, ListHas, LoadBrings, SaveWrites, Loads
  <2> QED BY <1>1, <2>5, <2>7 DEF Inv
<1>5. CASE WriteFails
  <2>1. job.step = "writes" /\ ~Loads(Now)
    BY <1>1, <1>5 DEF WriteFails, OneJob
  <2>2. job' = [job EXCEPT !.step = "done"] /\ file' = file /\ Held' = Held
    BY <1>5 DEF Held, WriteFails
  <2>3. Now' \in States /\ job'.step = "done"
    BY <1>1, <2>2 DEF States, Jobs
  <2>4. ListInv(Now, Held)'
    BY <1>1, <2>1, <2>2, <2>3 DEF ListInv, OneJob, ListHas, LoadBrings, SaveWrites, Loads
  <2> QED BY <1>1, <2>2, <2>4 DEF Inv, FileHas
<1> QED BY <1>2, <1>3, <1>4, <1>5 DEF Gio

LEMMA ProcessedInv ==
  ASSUME Inv, OpProcessed
  PROVE  Inv'
<1> DEFINE f == Finished(Now)
           s == [f EXCEPT !.ops = Tail(@)]
           t == IF s.ops = << >> THEN s ELSE ProcessNextOp(s)
<1>1. Now \in States /\ ListInv(Now, Held) /\ job.step = "done" /\ Now.job = job
      /\ Now.list = list /\ Now.ops = ops
  BY DEF Inv, ListInv, Now, OpProcessed
<1>2. ops # << >> /\ ops \in Seq({"load", "save"})
  BY <1>1 DEF ListInv, OneJob, States
<1>3. f \in States /\ f.ops = ops /\ f.job = NoJob /\ Held \subseteq ToSet(f.list)
  <2>1. NoJob \in Jobs /\ job.text \in Texts /\ list \in Texts
    BY <1>1, SomeText DEF NoJob, Jobs, States
  <2>2. CASE Head(ops) = "load"
    <3>1. list \o job.text \in Texts /\ ToSet(job.text) \subseteq ToSet(list \o job.text)
      BY <2>1, Joined
    <3>2. f = [Now EXCEPT !.list = list \o job.text, !.job = NoJob]
      BY <1>1, <2>2 DEF Finished
    <3>3. f \in States /\ f.ops = ops /\ f.job = NoJob /\ f.list = list \o job.text
      BY <1>1, <2>1, <3>1, <3>2 DEF States
    <3>4. Held \subseteq ToSet(job.text)
      BY <1>1, <1>2, <2>2 DEF ListInv, LoadBrings, Loads
    <3> QED BY <3>1, <3>3, <3>4
  <2>3. CASE Head(ops) # "load"
    <3>1. f = [Now EXCEPT !.monitor = [on |-> TRUE, event |-> FALSE], !.job = NoJob]
      BY <1>1, <2>3 DEF Finished
    <3> HIDE DEF f
    <3>2. f \in States /\ f.ops = Now.ops /\ f.job = NoJob /\ f.list = Now.list
      BY <1>1, <2>1, <3>1 DEF States
    <3> QED BY <1>1, <2>3, <3>2 DEF ListInv, ListHas, Loads
  <2> QED BY <2>2, <2>3
<1> HIDE DEF f
<1>4. s \in States /\ s.list = f.list /\ s.job = NoJob /\ s.ops = Tail(ops)
  BY <1>2, <1>3 DEF States
<1> HIDE DEF s
<1>5. ListInv(t, Held)
  <2>1. CASE s.ops = << >>
    BY <1>3, <1>4, <2>1
       DEF NoJob, ListInv, OneJob, ListHas, LoadBrings, SaveWrites, Loads
  <2>2. CASE s.ops # << >>
    BY <1>3, <1>4, <2>2, NextOp DEF Inv, FileHas
  <2> QED BY <2>1, <2>2
<1>6. Now' = [list |-> t.list, ops |-> t.ops, job |-> t.job, monitor |-> t.monitor]
  BY DEF OpProcessed, Becomes, Now, s, f
<1> HIDE DEF t
<1>7. Now' = t
  BY <1>5, <1>6 DEF ListInv, States
<1> QED BY <1>5, <1>7 DEF Held, OpProcessed, Inv, FileHas

LEMMA NextInv == Inv /\ [ListNext]_listVars => Inv'
<1> SUFFICES ASSUME Inv, [ListNext]_listVars PROVE Inv'
  OBVIOUS
<1>1. CASE User
  BY <1>1, UserInv
<1>2. ASSUME NEW text \in Contents \cup {NoFile}, Write(text) PROVE Inv'
  BY <1>2, OutsideInv
<1>3. CASE MonitorChanged
  BY <1>3, MonitorInv
<1>4. CASE Gio
  BY <1>4, GioInv
<1>5. CASE OpProcessed
  BY <1>5, ProcessedInv
<1>6. CASE UNCHANGED listVars
  BY <1>6 DEF Held, listVars, Inv, ListInv, OneJob, ListHas, LoadBrings, SaveWrites, Loads, FileHas, Now
<1> QED BY <1>1, <1>2, <1>3, <1>4, <1>5, <1>6 DEF ListNext

\* What the list has once read from the file, or saved to it, stays in the file
\* until somebody takes it out, but for what a failed read has left out of the
\* list (NothingIsLost), for any bookmarks and any number of changes, loads, saves
\* and errors: the queue never lets a save see a list that a load is still to fill.
THEOREM NothingLost == ListSpec => []NothingIsLost
<1>1. Inv => NothingIsLost
  BY DEF Held, Inv, FileHas, NothingIsLost
<1>2. QED
  BY InitInv, NextInv, <1>1, PTL DEF ListSpec
=============================================================================
