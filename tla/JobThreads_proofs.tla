-------------------------- MODULE JobThreads_proofs --------------------------
(***************************************************************************)
(* What the threads of file operations hand to the main loop: the files    *)
(* that changed (FileChangesQueue) and how far they are (ProgressInfo).    *)
(*                                                                         *)
(* Whatever jobs there are and however many changes they post: the queue   *)
(* hands on every change once, in the order in which they arrived but for  *)
(* icon positions; and it leaves none that nobody will take.               *)
(*                                                                         *)
(* However many operations there are, whatever the user clicks on and      *)
(* however idle functions, timeouts and threads come after each other:     *)
(* what a callback is called with is still there, and a thread stops       *)
(* exactly where its widget says it does.                                  *)
(***************************************************************************)
EXTENDS FileChangesQueue, ProgressInfo, WellFoundedInduction, SequenceTheorems, TLAPS

-----------------------------------------------------------------------------
(***************************************************************************)
(* The queue of file changes.                                              *)
(***************************************************************************)
(***************************************************************************)
(* The invariant is a statement about what was posted (p), sent (s),       *)
(* collected (f) and is on the queue (q), so that a step of the consumer   *)
(* is one or two operations on these.  What is on the queue arrived after  *)
(* all that was taken off it, what is collected after all that was sent;   *)
(* and a change is collected after one in another list only if it may join *)
(* that list.                                                              *)
(***************************************************************************)
Increasing(s) == \A i, j \in DOMAIN s : i < j => s[i] < s[j]
Before(S, T) == \A m \in S : \A n \in T : m < n

\* b may be sent after a.
MayFollow(p, a, b) == b < a => p[b] \in Positions /\ p[a] \in {"added", "moved"}
InOrder(p, s) == \A i, j \in DOMAIN s : i < j => MayFollow(p, s[i], s[j])

Contents(f) == UNION {Members(f[l]) : l \in Lists}
Size(f) ==
  Len(f["deletions"]) + Len(f["moves"]) + Len(f["additions"]) + Len(f["changes"])
    + Len(f["positions"])
Flushed(f) ==
  f["deletions"] \o f["moves"] \o f["additions"] \o f["changes"] \o f["positions"]

OfList(p, l) == {n \in DOMAIN p : p[n] \in Holds[l]}

Typed(p, s, f, q) ==
  /\ p \in Seq(Kinds)
  /\ s \in Seq(DOMAIN p) /\ q \in Seq(DOMAIN p)
  /\ DOMAIN f = Lists
  /\ \A l \in Lists : f[l] \in Seq(OfList(p, l))

Complete(p, s, f, q) ==
  /\ Len(s) + Size(f) + Len(q) = Len(p)
  /\ Members(s) \cup Contents(f) \cup Members(q) = DOMAIN p

Arriving(s, f, q) ==
  /\ Increasing(q)
  /\ \A l \in Lists : Increasing(f[l])
  /\ Before(Members(s), Contents(f) \cup Members(q))
  /\ Before(Contents(f), Members(q))

Joined(p, f) ==
  \A k, l \in Lists : \A m \in Members(f[k]) : \A n \in Members(f[l]) :
    m < n => p[n] \in Joins[k]

Sound(p, s, f, q) ==
  /\ Typed(p, s, f, q)
  /\ Complete(p, s, f, q)
  /\ Arriving(s, f, q)
  /\ Joined(p, f)
  /\ InOrder(p, s)

QueueInv ==
  /\ Sound(posted, sent, lists, queue)
  /\ consuming \in {"none", "job", "idle"}
  /\ idle \in BOOLEAN
  /\ job \in [Jobs -> {"running", "done", "finished"}]

(***************************************************************************)
(* Sequences and their members.                                            *)
(***************************************************************************)
LEMMA Concatenated ==
  ASSUME NEW S, NEW s \in Seq(S), NEW t \in Seq(S)
  PROVE  /\ s \o t \in Seq(S)
         /\ Len(s \o t) = Len(s) + Len(t)
         /\ Len(s) \in Nat /\ Len(t) \in Nat
         /\ Members(s \o t) = Members(s) \cup Members(t)
<1>1. /\ s \o t \in Seq(S)
      /\ Len(s \o t) = Len(s) + Len(t)
      /\ Len(s) \in Nat /\ Len(t) \in Nat
      /\ DOMAIN s = 1 .. Len(s) /\ DOMAIN t = 1 .. Len(t)
      /\ DOMAIN (s \o t) = 1 .. Len(s) + Len(t)
  OBVIOUS
<1>2. \A i \in 1 .. Len(s) + Len(t) :
        (s \o t)[i] = IF i <= Len(s) THEN s[i] ELSE t[i - Len(s)]
  OBVIOUS
<1>3. Members(s \o t) \subseteq Members(s) \cup Members(t)
  BY <1>1, <1>2 DEF Members
<1>4. Members(s) \subseteq Members(s \o t)
  BY <1>1, <1>2 DEF Members
<1>5. ASSUME NEW j \in 1 .. Len(t)
      PROVE  t[j] \in Members(s \o t)
  <2>1. Len(s) + j \in 1 .. Len(s) + Len(t) /\ (s \o t)[Len(s) + j] = t[j]
    BY <1>1, <1>2
  <2> QED BY <1>1, <2>1 DEF Members
<1>6. Members(t) \subseteq Members(s \o t)
  BY <1>1, <1>5 DEF Members
<1> QED BY <1>1, <1>3, <1>4, <1>6

LEMMA ChangeAppended ==
  ASSUME NEW S, NEW s \in Seq(S), NEW x \in S
  PROVE  /\ Append(s, x) \in Seq(S)
         /\ Len(Append(s, x)) = Len(s) + 1
         /\ Members(Append(s, x)) = Members(s) \cup {x}
<1>1. /\ Append(s, x) \in Seq(S)
      /\ Len(Append(s, x)) = Len(s) + 1
      /\ Len(s) \in Nat
      /\ DOMAIN s = 1 .. Len(s) /\ DOMAIN Append(s, x) = 1 .. Len(s) + 1
      /\ \A i \in 1 .. Len(s) : Append(s, x)[i] = s[i]
      /\ Append(s, x)[Len(s) + 1] = x
  OBVIOUS
<1>2. Members(Append(s, x)) \subseteq Members(s) \cup {x}
  BY <1>1 DEF Members
<1>3. Members(s) \cup {x} \subseteq Members(Append(s, x))
  BY <1>1 DEF Members
<1> QED BY <1>1, <1>2, <1>3

LEMMA ChangeTaken ==
  ASSUME NEW S, NEW s \in Seq(S), s # << >>
  PROVE  /\ Tail(s) \in Seq(S) /\ Head(s) \in S
         /\ Len(s) = Len(Tail(s)) + 1 /\ Len(Tail(s)) \in Nat
         /\ Members(s) = {Head(s)} \cup Members(Tail(s))
<1>1. /\ Tail(s) \in Seq(S) /\ Head(s) \in S /\ Head(s) = s[1]
      /\ Len(s) = Len(Tail(s)) + 1 /\ Len(Tail(s)) \in Nat
      /\ DOMAIN s = 1 .. Len(s) /\ DOMAIN Tail(s) = 1 .. Len(s) - 1
      /\ \A i \in 1 .. Len(s) - 1 : Tail(s)[i] = s[i + 1]
  OBVIOUS
<1>2. Members(s) \subseteq {Head(s)} \cup Members(Tail(s))
  <2>1. ASSUME NEW i \in 1 .. Len(s), i # 1
        PROVE  s[i] \in Members(Tail(s))
    <3>1. i - 1 \in 1 .. Len(s) - 1 /\ Tail(s)[i - 1] = s[i]
      BY <1>1, <2>1
    <3> QED BY <1>1, <3>1 DEF Members
  <2> QED BY <1>1, <2>1 DEF Members
<1>3. {Head(s)} \cup Members(Tail(s)) \subseteq Members(s)
  BY <1>1 DEF Members
<1> QED BY <1>1, <1>2, <1>3

LEMMA EmptySequence ==
  ASSUME NEW S
  PROVE  << >> \in Seq(S) /\ Len(<< >>) = 0 /\ Members(<< >>) = {} /\ Increasing(<< >>)
BY DEF Members, Increasing

LEMMA IncreasingAppended ==
  ASSUME NEW s \in Seq(Nat), NEW x \in Nat, Increasing(s), \A m \in Members(s) : m < x
  PROVE  Increasing(Append(s, x))
<1>1. /\ Len(s) \in Nat
      /\ DOMAIN s = 1 .. Len(s) /\ DOMAIN Append(s, x) = 1 .. Len(s) + 1
      /\ \A i \in 1 .. Len(s) : Append(s, x)[i] = s[i]
      /\ Append(s, x)[Len(s) + 1] = x
  OBVIOUS
<1>2. \A i \in DOMAIN s : s[i] < x
  BY DEF Members
<1> QED BY <1>1, <1>2 DEF Increasing

LEMMA IncreasingTail ==
  ASSUME NEW s \in Seq(Nat), s # << >>, Increasing(s)
  PROVE  Increasing(Tail(s)) /\ \A m \in Members(Tail(s)) : Head(s) < m
<1>1. /\ Len(s) \in Nat /\ Len(s) # 0 /\ Head(s) = s[1]
      /\ DOMAIN s = 1 .. Len(s) /\ DOMAIN Tail(s) = 1 .. Len(s) - 1
      /\ \A i \in 1 .. Len(s) - 1 : Tail(s)[i] = s[i + 1]
  OBVIOUS
<1>2. \A i \in 1 .. Len(s) - 1 : i + 1 \in DOMAIN s /\ 1 \in DOMAIN s /\ 1 < i + 1
  BY <1>1
<1>3. \A i, j \in 1 .. Len(s) - 1 : i < j => i + 1 < j + 1
  BY <1>1
<1>4. \A i, j \in 1 .. Len(s) - 1 : i < j => Tail(s)[i] < Tail(s)[j]
  BY <1>1, <1>2, <1>3 DEF Increasing
<1>5. \A i \in 1 .. Len(s) - 1 : Head(s) < Tail(s)[i]
  BY <1>1, <1>2 DEF Increasing
<1> QED BY <1>1, <1>4, <1>5 DEF Increasing, Members

LEMMA IncreasingConcat ==
  ASSUME NEW s \in Seq(Nat), NEW t \in Seq(Nat), Increasing(s), Increasing(t),
         Before(Members(s), Members(t))
  PROVE  Increasing(s \o t)
<1>1. /\ Len(s) \in Nat /\ Len(t) \in Nat
      /\ DOMAIN s = 1 .. Len(s) /\ DOMAIN t = 1 .. Len(t)
      /\ DOMAIN (s \o t) = 1 .. Len(s) + Len(t)
      /\ \A i \in 1 .. Len(s) + Len(t) :
           (s \o t)[i] = IF i <= Len(s) THEN s[i] ELSE t[i - Len(s)]
  OBVIOUS
<1>2. \A i \in DOMAIN s : \A j \in DOMAIN t : s[i] < t[j]
  BY DEF Before, Members
<1>3. SUFFICES ASSUME NEW i \in 1 .. Len(s) + Len(t), NEW j \in 1 .. Len(s) + Len(t), i < j
              PROVE  (s \o t)[i] < (s \o t)[j]
  BY <1>1 DEF Increasing
<1>4. CASE j <= Len(s)
  <2>1. i \in DOMAIN s /\ j \in DOMAIN s
    BY <1>1, <1>3, <1>4
  <2>2. s[i] < s[j]
    BY <1>3, <2>1 DEF Increasing
  <2> QED BY <1>1, <1>3, <1>4, <2>2
<1>5. CASE i <= Len(s) /\ ~(j <= Len(s))
  <2>1. i \in DOMAIN s /\ j - Len(s) \in DOMAIN t
    BY <1>1, <1>3, <1>5
  <2> QED BY <1>1, <1>2, <1>5, <2>1
<1>6. CASE ~(i <= Len(s))
  <2>1. i - Len(s) \in DOMAIN t /\ j - Len(s) \in DOMAIN t /\ i - Len(s) < j - Len(s)
    BY <1>1, <1>3, <1>6
  <2>2. t[i - Len(s)] < t[j - Len(s)]
    BY <2>1 DEF Increasing
  <2> QED BY <1>1, <1>3, <1>6, <2>2
<1> QED BY <1>1, <1>4, <1>5, <1>6

LEMMA InOrderConcat ==
  ASSUME NEW S, NEW p, NEW s \in Seq(S), NEW t \in Seq(S), InOrder(p, s), InOrder(p, t),
         \A a \in Members(s) : \A b \in Members(t) : MayFollow(p, a, b)
  PROVE  InOrder(p, s \o t)
<1>1. /\ Len(s) \in Nat /\ Len(t) \in Nat
      /\ DOMAIN s = 1 .. Len(s) /\ DOMAIN t = 1 .. Len(t)
      /\ DOMAIN (s \o t) = 1 .. Len(s) + Len(t)
      /\ \A i \in 1 .. Len(s) + Len(t) :
           (s \o t)[i] = IF i <= Len(s) THEN s[i] ELSE t[i - Len(s)]
  OBVIOUS
<1>2. \A i \in DOMAIN s : \A j \in DOMAIN t : MayFollow(p, s[i], t[j])
  BY DEF Members
<1>3. SUFFICES ASSUME NEW i \in 1 .. Len(s) + Len(t), NEW j \in 1 .. Len(s) + Len(t), i < j
              PROVE  MayFollow(p, (s \o t)[i], (s \o t)[j])
  BY <1>1 DEF InOrder
<1>4. CASE j <= Len(s)
  BY <1>1, <1>3, <1>4 DEF InOrder
<1>5. CASE i <= Len(s) /\ ~(j <= Len(s))
  <2>1. i \in DOMAIN s /\ j - Len(s) \in DOMAIN t
    BY <1>1, <1>3, <1>5
  <2> QED BY <1>1, <1>2, <1>5, <2>1
<1>6. CASE ~(i <= Len(s))
  <2>1. i - Len(s) \in DOMAIN t /\ j - Len(s) \in DOMAIN t /\ i - Len(s) < j - Len(s)
    BY <1>1, <1>3, <1>6
  <2>2. MayFollow(p, t[i - Len(s)], t[j - Len(s)])
    BY <2>1 DEF InOrder
  <2> QED BY <1>1, <1>3, <1>6, <2>2
<1> QED BY <1>1, <1>4, <1>5, <1>6

(***************************************************************************)
(* What is collected, list by list.                                        *)
(***************************************************************************)
LEMMA TheLists ==
  /\ Lists = {"deletions", "moves", "additions", "changes", "positions"}
  /\ SendOrder[1] = "deletions" /\ SendOrder[2] = "moves" /\ SendOrder[3] = "additions"
  /\ SendOrder[4] = "changes" /\ SendOrder[5] = "positions"
<1>1. DOMAIN SendOrder = 1 .. 5
  BY DEF SendOrder
<1>2. /\ SendOrder[1] = "deletions" /\ SendOrder[2] = "moves" /\ SendOrder[3] = "additions"
      /\ SendOrder[4] = "changes" /\ SendOrder[5] = "positions"
  BY DEF SendOrder
<1>3. 1 .. 5 = {1, 2, 3, 4, 5}
  OBVIOUS
<1> QED BY <1>1, <1>2, <1>3 DEF Lists

LEMMA FlushedFacts ==
  ASSUME NEW S, NEW f, \A l \in Lists : f[l] \in Seq(S)
  PROVE  /\ Flushed(f) \in Seq(S)
         /\ Len(Flushed(f)) = Size(f) /\ Size(f) \in Nat
         /\ Members(Flushed(f)) = Contents(f)
<1>1. /\ f["deletions"] \in Seq(S) /\ f["moves"] \in Seq(S) /\ f["additions"] \in Seq(S)
      /\ f["changes"] \in Seq(S) /\ f["positions"] \in Seq(S)
  BY TheLists
<1>0. \A s, t \in Seq(S) :
        /\ s \o t \in Seq(S)
        /\ Len(s \o t) = Len(s) + Len(t)
        /\ Len(s) \in Nat /\ Len(t) \in Nat
        /\ Members(s \o t) = Members(s) \cup Members(t)
  BY Concatenated
<1> DEFINE two == f["deletions"] \o f["moves"]
           three == two \o f["additions"]
           four == three \o f["changes"]
<1> HIDE DEF two, three, four
<1>2. /\ two \in Seq(S) /\ Len(two) = Len(f["deletions"]) + Len(f["moves"])
      /\ Members(two) = Members(f["deletions"]) \cup Members(f["moves"])
      /\ Len(f["deletions"]) \in Nat /\ Len(f["moves"]) \in Nat
  BY <1>0, <1>1 DEF two
<1>3. /\ three \in Seq(S) /\ Len(three) = Len(two) + Len(f["additions"])
      /\ Members(three) = Members(two) \cup Members(f["additions"])
      /\ Len(f["additions"]) \in Nat
  BY <1>1, <1>2, <1>0 DEF three
<1>4. /\ four \in Seq(S) /\ Len(four) = Len(three) + Len(f["changes"])
      /\ Members(four) = Members(three) \cup Members(f["changes"])
      /\ Len(f["changes"]) \in Nat
  BY <1>1, <1>3, <1>0 DEF four
<1>5. /\ four \o f["positions"] \in Seq(S)
      /\ Len(four \o f["positions"]) = Len(four) + Len(f["positions"])
      /\ Members(four \o f["positions"]) = Members(four) \cup Members(f["positions"])
      /\ Len(f["positions"]) \in Nat
  BY <1>0, <1>1, <1>4
<1>6. Flushed(f) = four \o f["positions"]
  BY DEF Flushed, two, three, four
<1>7. Contents(f) = Members(f["deletions"]) \cup Members(f["moves"]) \cup Members(f["additions"])
                     \cup Members(f["changes"]) \cup Members(f["positions"])
  BY TheLists DEF Contents
<1>8. Len(four \o f["positions"]) = Size(f) /\ Size(f) \in Nat
  <2>1. Len(three) = Len(f["deletions"]) + Len(f["moves"]) + Len(f["additions"])
    BY <1>2, <1>3
  <2>2. Len(four) = Len(f["deletions"]) + Len(f["moves"]) + Len(f["additions"]) + Len(f["changes"])
    BY <1>4, <2>1
  <2>3. Len(four \o f["positions"]) = Size(f)
    BY <1>5, <2>2 DEF Size
  <2>4. /\ Len(f["deletions"]) \in Nat /\ Len(f["moves"]) \in Nat /\ Len(f["additions"]) \in Nat
        /\ Len(f["changes"]) \in Nat /\ Len(f["positions"]) \in Nat
    BY <1>2, <1>3, <1>4, <1>5, Zenon
  <2>5. \A a, b \in Nat : a + b \in Nat
    OBVIOUS
  <2> QED BY <2>3, <2>4, <2>5, Zenon DEF Size
<1>9. Members(four \o f["positions"]) = Contents(f)
  BY <1>2, <1>3, <1>4, <1>5, <1>7
<1> QED BY <1>5, <1>6, <1>8, <1>9

LEMMA ThreeConcatenated ==
  ASSUME NEW S, NEW s \in Seq(S), NEW w \in Seq(S), NEW q \in Seq(S)
  PROVE  /\ Len(s \o w \o q) = Len(s) + Len(w) + Len(q)
         /\ Members(s \o w \o q) = Members(s) \cup Members(w) \cup Members(q)
<1>1. \A x, y \in Seq(S) :
        /\ x \o y \in Seq(S)
        /\ Len(x \o y) = Len(x) + Len(y)
        /\ Members(x \o y) = Members(x) \cup Members(y)
  BY Concatenated
<1>2. /\ s \o w \in Seq(S) /\ Len(s \o w) = Len(s) + Len(w)
      /\ Members(s \o w) = Members(s) \cup Members(w)
  BY <1>1
<1>3. /\ Len(s \o w \o q) = Len(s \o w) + Len(q)
      /\ Members(s \o w \o q) = Members(s \o w) \cup Members(q)
  BY <1>1, <1>2, Zenon
<1> QED BY <1>2, <1>3, Zenon

(***************************************************************************)
(* Sending what is collected.                                              *)
(***************************************************************************)
LEMMA Subsequences ==
  ASSUME NEW S, NEW T, S \subseteq T, NEW s \in Seq(S)
  PROVE  s \in Seq(T) /\ Members(s) \subseteq S
<1>1. Len(s) \in Nat /\ DOMAIN s = 1 .. Len(s) /\ s \in [1 .. Len(s) -> S]
  OBVIOUS
<1>2. s \in [1 .. Len(s) -> T]
  BY <1>1
<1>3. s \in Seq(T)
  BY <1>1, <1>2
<1> QED BY <1>1, <1>3 DEF Members

\* What was posted, by number
LEMMA ArrivalNumbers ==
  ASSUME NEW p \in Seq(Kinds)
  PROVE  /\ DOMAIN p = 1 .. Len(p) /\ Len(p) \in Nat /\ DOMAIN p \subseteq Nat
         /\ \A n \in DOMAIN p : p[n] \in Kinds
OBVIOUS

\* The lists hold numbers of changes.
LEMMA ListsOfArrivals ==
  ASSUME NEW p, NEW s, NEW f, NEW q, Typed(p, s, f, q)
  PROVE  /\ \A l \in Lists : f[l] \in Seq(DOMAIN p) /\ Members(f[l]) \subseteq OfList(p, l)
         /\ Contents(f) \subseteq DOMAIN p
         /\ Members(s) \subseteq DOMAIN p /\ Members(q) \subseteq DOMAIN p
<1>1. ASSUME NEW l \in Lists
      PROVE  f[l] \in Seq(DOMAIN p) /\ Members(f[l]) \subseteq OfList(p, l)
  <2>1. f[l] \in Seq(OfList(p, l)) /\ OfList(p, l) \subseteq DOMAIN p
    BY DEF Typed, OfList
  <2> QED BY <2>1, Subsequences
<1>2. Contents(f) \subseteq DOMAIN p
  BY <1>1 DEF Contents, OfList
<1>3. Members(s) \subseteq DOMAIN p /\ Members(q) \subseteq DOMAIN p
  BY Subsequences DEF Typed
<1> QED BY <1>1, <1>2, <1>3

LEMMA IncreasingIsInOrder ==
  ASSUME NEW p, NEW s \in Seq(Nat), Increasing(s)
  PROVE  InOrder(p, s)
<1>1. \A i \in DOMAIN s : s[i] \in Nat
  OBVIOUS
<1>2. \A m, n \in Nat : m < n => ~(n < m)
  OBVIOUS
<1> QED BY <1>1, <1>2 DEF InOrder, Increasing, MayFollow

\* A list joined by changes of a list sent before it holds positions, and they
\* are additions or moves.
LEMMA OnlyPositionsAreJoined ==
  ASSUME NEW i \in 1 .. 5, NEW j \in 1 .. 5, i < j, NEW x, NEW y,
         x \in Holds[SendOrder[i]], x \in Joins[SendOrder[j]], y \in Holds[SendOrder[j]]
  PROVE  y \in Positions /\ x \in {"added", "moved"}
<1>1. i \in {1, 2, 3, 4} /\ j \in {2, 3, 4, 5}
  OBVIOUS
<1>2. /\ Holds["deletions"] = {"removed"} /\ Holds["moves"] = {"moved"}
      /\ Holds["additions"] = {"added"} /\ Holds["changes"] = {"changed"}
      /\ Holds["positions"] = {"position_set", "position_remove"}
  BY DEF Holds, Positions
<1>3. /\ Joins["moves"] = {"moved", "position_set", "position_remove"}
      /\ Joins["additions"] = {"added", "position_set", "position_remove"}
      /\ Joins["changes"] = {"changed"}
      /\ Joins["positions"] = {"added", "moved", "position_set", "position_remove"}
  BY DEF Joins, Positions
<1>4. CASE j = 2
  BY <1>1, <1>2, <1>3, <1>4, TheLists
<1>5. CASE j = 3
  BY <1>1, <1>2, <1>3, <1>5, TheLists
<1>6. CASE j = 4
  BY <1>1, <1>2, <1>3, <1>6, TheLists
<1>7. CASE j = 5
  BY <1>1, <1>2, <1>3, <1>7, TheLists DEF Positions
<1> QED BY <1>1, <1>4, <1>5, <1>6, <1>7

LEMMA ListAfterList ==
  ASSUME NEW p, NEW s, NEW f, NEW q, Typed(p, s, f, q), Joined(p, f),
         NEW i \in 1 .. 5, NEW j \in 1 .. 5, i < j,
         NEW a \in Members(f[SendOrder[i]]), NEW b \in Members(f[SendOrder[j]])
  PROVE  MayFollow(p, a, b)
<1>1. SendOrder[i] \in Lists /\ SendOrder[j] \in Lists
  BY DEF Lists, SendOrder
<1>2. p[a] \in Holds[SendOrder[i]] /\ p[b] \in Holds[SendOrder[j]]
  BY <1>1, ListsOfArrivals DEF OfList
<1>3. ASSUME b < a
      PROVE  p[a] \in Joins[SendOrder[j]]
  BY <1>1, <1>3 DEF Joined
<1>4. ASSUME b < a
      PROVE  p[b] \in Positions /\ p[a] \in {"added", "moved"}
  BY <1>2, <1>3, <1>4, OnlyPositionsAreJoined
<1> QED BY <1>4 DEF MayFollow

LEMMA FlushInOrder ==
  ASSUME NEW p, NEW s, NEW f, NEW q, Sound(p, s, f, q)
  PROVE  InOrder(p, s \o Flushed(f))
<1> USE DEF Sound
<1> DEFINE D == f["deletions"]  M == f["moves"]  A == f["additions"]
           C == f["changes"]  P == f["positions"]
<1>1. /\ D \in Seq(DOMAIN p) /\ M \in Seq(DOMAIN p) /\ A \in Seq(DOMAIN p)
      /\ C \in Seq(DOMAIN p) /\ P \in Seq(DOMAIN p)
  BY ListsOfArrivals, TheLists
<1>2. DOMAIN p \subseteq Nat /\ s \in Seq(DOMAIN p)
  BY ArrivalNumbers DEF Typed
<1>3. \A l \in Lists : InOrder(p, f[l])
  <2>1. TAKE l \in Lists
  <2>2. f[l] \in Seq(DOMAIN p) /\ Increasing(f[l])
    BY ListsOfArrivals DEF Arriving
  <2>3. f[l] \in Seq(Nat)
    BY <1>2, <2>2, Subsequences
  <2> QED BY <2>2, <2>3, IncreasingIsInOrder
<1>4. InOrder(p, D) /\ InOrder(p, M) /\ InOrder(p, A) /\ InOrder(p, C) /\ InOrder(p, P)
  BY <1>3, TheLists
<1>5. \A i, j \in 1 .. 5 : i < j =>
        \A a \in Members(f[SendOrder[i]]) : \A b \in Members(f[SendOrder[j]]) : MayFollow(p, a, b)
  BY ListAfterList
<1>6. /\ \A a \in Members(D) : \A b \in Members(M) \cup Members(A) \cup Members(C) \cup Members(P) :
           MayFollow(p, a, b)
      /\ \A a \in Members(M) : \A b \in Members(A) \cup Members(C) \cup Members(P) :
           MayFollow(p, a, b)
      /\ \A a \in Members(A) : \A b \in Members(C) \cup Members(P) : MayFollow(p, a, b)
      /\ \A a \in Members(C) : \A b \in Members(P) : MayFollow(p, a, b)
  <2>1. /\ 1 \in 1 .. 5 /\ 2 \in 1 .. 5 /\ 3 \in 1 .. 5 /\ 4 \in 1 .. 5 /\ 5 \in 1 .. 5
        /\ 1 < 2 /\ 1 < 3 /\ 1 < 4 /\ 1 < 5 /\ 2 < 3 /\ 2 < 4 /\ 2 < 5 /\ 3 < 4 /\ 3 < 5 /\ 4 < 5
    OBVIOUS
  <2> QED BY <1>5, <2>1, TheLists
<1> HIDE DEF D, M, A, C, P
<1>7. \A t, u \in Seq(DOMAIN p) :
        t \o u \in Seq(DOMAIN p) /\ Members(t \o u) = Members(t) \cup Members(u)
  BY Concatenated
<1>8. \A t, u \in Seq(DOMAIN p) :
        InOrder(p, t) /\ InOrder(p, u)
        /\ (\A a \in Members(t) : \A b \in Members(u) : MayFollow(p, a, b))
        => InOrder(p, t \o u)
  BY InOrderConcat
<1> DEFINE two == D \o M  three == two \o A  four == three \o C  five == four \o P
<1> HIDE DEF two, three, four, five
<1>9. /\ two \in Seq(DOMAIN p) /\ Members(two) = Members(D) \cup Members(M)
      /\ InOrder(p, two)
  BY <1>1, <1>4, <1>6, <1>7, <1>8 DEF two
<1>10. /\ three \in Seq(DOMAIN p) /\ Members(three) = Members(two) \cup Members(A)
       /\ InOrder(p, three)
  <2>1. \A a \in Members(two) : \A b \in Members(A) : MayFollow(p, a, b)
    BY <1>6, <1>9
  <2> QED BY <1>1, <1>4, <1>7, <1>8, <1>9, <2>1 DEF three
<1>11. /\ four \in Seq(DOMAIN p) /\ Members(four) = Members(three) \cup Members(C)
       /\ InOrder(p, four)
  <2>1. \A a \in Members(three) : \A b \in Members(C) : MayFollow(p, a, b)
    BY <1>6, <1>9, <1>10
  <2> QED BY <1>1, <1>4, <1>7, <1>8, <1>10, <2>1 DEF four
<1>12. InOrder(p, five)
  <2>1. \A a \in Members(four) : \A b \in Members(P) : MayFollow(p, a, b)
    BY <1>6, <1>9, <1>10, <1>11
  <2> QED BY <1>1, <1>4, <1>8, <1>11, <2>1 DEF five
<1>13. Flushed(f) = five
  BY DEF Flushed, D, M, A, C, P, two, three, four, five
<1>14. Flushed(f) \in Seq(DOMAIN p) /\ Members(Flushed(f)) = Contents(f)
  BY ListsOfArrivals, FlushedFacts
<1>15. \A a \in Members(s) : \A b \in Contents(f) : MayFollow(p, a, b)
  <2>1. \A a \in Members(s) : \A b \in Contents(f) : a < b /\ a \in Nat /\ b \in Nat
    BY <1>2, ListsOfArrivals DEF Arriving, Before
  <2>2. \A a, b \in Nat : a < b => ~(b < a)
    OBVIOUS
  <2> QED BY <2>1, <2>2 DEF MayFollow
<1> QED BY <1>2, <1>8, <1>12, <1>13, <1>14, <1>15

LEMMA NothingCollected ==
  /\ DOMAIN Empty = Lists /\ \A l \in Lists : Empty[l] = << >>
  /\ Contents(Empty) = {} /\ Size(Empty) = 0
<1>1. DOMAIN Empty = Lists /\ \A l \in Lists : Empty[l] = << >>
  BY DEF Empty
<1>2. Contents(Empty) = {}
  BY <1>1, EmptySequence DEF Contents
<1>3. /\ Len(Empty["deletions"]) = 0 /\ Len(Empty["moves"]) = 0 /\ Len(Empty["additions"]) = 0
      /\ Len(Empty["changes"]) = 0 /\ Len(Empty["positions"]) = 0
  BY <1>1, TheLists, EmptySequence
<1>4. Size(Empty) = 0
  BY <1>3 DEF Size
<1> QED BY <1>1, <1>2, <1>4

LEMMA FlushSound ==
  ASSUME NEW p, NEW s, NEW f, NEW q, Sound(p, s, f, q)
  PROVE  Sound(p, s \o Flushed(f), Empty, q)
<1> DEFINE sent2 == s \o Flushed(f)
<1>0. Typed(p, s, f, q) /\ Complete(p, s, f, q) /\ Arriving(s, f, q)
  BY DEF Sound
<1>1. /\ Flushed(f) \in Seq(DOMAIN p)
      /\ Len(Flushed(f)) = Size(f) /\ Size(f) \in Nat
      /\ Members(Flushed(f)) = Contents(f)
  BY <1>0, ListsOfArrivals, FlushedFacts
<1>2. s \in Seq(DOMAIN p) /\ q \in Seq(DOMAIN p)
  BY <1>0 DEF Typed
<1>3. /\ sent2 \in Seq(DOMAIN p)
      /\ Len(sent2) = Len(s) + Size(f) /\ Len(s) \in Nat
      /\ Members(sent2) = Members(s) \cup Contents(f)
  <2>1. \A x, y \in Seq(DOMAIN p) :
          /\ x \o y \in Seq(DOMAIN p)
          /\ Len(x \o y) = Len(x) + Len(y) /\ Len(x) \in Nat
          /\ Members(x \o y) = Members(x) \cup Members(y)
    BY Concatenated
  <2>2. sent2 \in Seq(DOMAIN p)
    BY <1>1, <1>2, <2>1
  <2>3. Len(sent2) = Len(s) + Len(Flushed(f)) /\ Len(s) \in Nat
    BY <1>1, <1>2, <2>1, Zenon
  <2>4. Members(sent2) = Members(s) \cup Members(Flushed(f))
    BY <1>1, <1>2, <2>1, Zenon
  <2> QED BY <1>1, <2>2, <2>3, <2>4, Zenon
<1> HIDE DEF sent2
<1>4. Len(q) \in Nat
  BY <1>2
<1>5. Typed(p, sent2, Empty, q)
  <2>1. \A l \in Lists : Empty[l] \in Seq(OfList(p, l))
    BY NothingCollected, EmptySequence
  <2> QED BY <1>0, <1>3, <2>1, NothingCollected DEF Typed
<1>6. Complete(p, sent2, Empty, q)
  <2>1. Len(sent2) + 0 + Len(q) = Len(p)
    BY <1>0, <1>1, <1>3, <1>4 DEF Complete
  <2>2. Members(sent2) \cup {} \cup Members(q) = DOMAIN p
    BY <1>0, <1>3 DEF Complete
  <2> QED BY <2>1, <2>2, NothingCollected DEF Complete
<1>7. Arriving(sent2, Empty, q)
  <2>1. Before(Members(sent2), Contents(Empty) \cup Members(q))
    BY <1>0, <1>3, NothingCollected DEF Arriving, Before
  <2>2. Before(Contents(Empty), Members(q))
    BY NothingCollected DEF Before
  <2>3. \A l \in Lists : Increasing(Empty[l])
    BY NothingCollected, EmptySequence
  <2> QED BY <1>0, <2>1, <2>2, <2>3 DEF Arriving
<1>8. Joined(p, Empty)
  BY NothingCollected, EmptySequence DEF Joined
<1>9. InOrder(p, sent2)
  BY FlushInOrder DEF sent2
<1>10. Sound(p, sent2, Empty, q)
  BY <1>5, <1>6, <1>7, <1>8, <1>9 DEF Sound
<1> QED BY <1>10 DEF sent2

(***************************************************************************)
(* Taking a change off the queue.                                          *)
(***************************************************************************)
LEMMA ItsList ==
  ASSUME NEW k \in Kinds
  PROVE  ListOf[k] \in Lists /\ k \in Holds[ListOf[k]]
BY TheLists DEF Kinds, ListOf, Holds, Positions

LEMMA OneMore ==
  ASSUME NEW f, NEW g, \A l \in Lists : Len(f[l]) \in Nat,
         NEW l0 \in Lists, Len(g[l0]) = Len(f[l0]) + 1,
         \A l \in Lists : l # l0 => Len(g[l]) = Len(f[l])
  PROVE  Size(g) = Size(f) + 1 /\ Size(f) \in Nat
<1> DEFINE d == Len(f["deletions"])  m == Len(f["moves"])  a == Len(f["additions"])
           c == Len(f["changes"])  r == Len(f["positions"])
<1>1. d \in Nat /\ m \in Nat /\ a \in Nat /\ c \in Nat /\ r \in Nat
  BY TheLists
<1>2. Size(f) = d + m + a + c + r
  BY DEF Size
<1>3. ASSUME l0 = "deletions"
      PROVE  Size(g) = (d + 1) + m + a + c + r
  <2>1. /\ Len(g["deletions"]) = d + 1
        /\ Len(g["moves"]) = m
        /\ Len(g["additions"]) = a
        /\ Len(g["changes"]) = c
        /\ Len(g["positions"]) = r
    BY <1>3, TheLists
  <2> QED BY <2>1 DEF Size
<1>4. ASSUME l0 = "moves"
      PROVE  Size(g) = d + (m + 1) + a + c + r
  <2>1. /\ Len(g["deletions"]) = d
        /\ Len(g["moves"]) = m + 1
        /\ Len(g["additions"]) = a
        /\ Len(g["changes"]) = c
        /\ Len(g["positions"]) = r
    BY <1>4, TheLists
  <2> QED BY <2>1 DEF Size
<1>5. ASSUME l0 = "additions"
      PROVE  Size(g) = d + m + (a + 1) + c + r
  <2>1. /\ Len(g["deletions"]) = d
        /\ Len(g["moves"]) = m
        /\ Len(g["additions"]) = a + 1
        /\ Len(g["changes"]) = c
        /\ Len(g["positions"]) = r
    BY <1>5, TheLists
  <2> QED BY <2>1 DEF Size
<1>6. ASSUME l0 = "changes"
      PROVE  Size(g) = d + m + a + (c + 1) + r
  <2>1. /\ Len(g["deletions"]) = d
        /\ Len(g["moves"]) = m
        /\ Len(g["additions"]) = a
        /\ Len(g["changes"]) = c + 1
        /\ Len(g["positions"]) = r
    BY <1>6, TheLists
  <2> QED BY <2>1 DEF Size
<1>7. ASSUME l0 = "positions"
      PROVE  Size(g) = d + m + a + c + (r + 1)
  <2>1. /\ Len(g["deletions"]) = d
        /\ Len(g["moves"]) = m
        /\ Len(g["additions"]) = a
        /\ Len(g["changes"]) = c
        /\ Len(g["positions"]) = r + 1
    BY <1>7, TheLists
  <2> QED BY <2>1 DEF Size
<1> HIDE DEF d, m, a, c, r
<1>8. Size(g) = Size(f) + 1
  BY <1>1, <1>2, <1>3, <1>4, <1>5, <1>6, <1>7, TheLists
<1>9. Size(f) \in Nat
  BY <1>1, <1>2
<1> QED BY <1>8, <1>9

LEMMA TakeSound ==
  ASSUME NEW p, NEW s, NEW f, NEW q, Sound(p, s, f, q), q # << >>,
         \A l \in Lists : f[l] # << >> => p[Head(q)] \in Joins[l]
  PROVE  Sound(p, s, [f EXCEPT ![ListOf[p[Head(q)]]] = Append(@, Head(q))], Tail(q))
<1> DEFINE n == Head(q)
           rest == Tail(q)
           l0 == ListOf[p[n]]
           g == [f EXCEPT ![l0] = Append(@, n)]
<1>1. Typed(p, s, f, q) /\ Complete(p, s, f, q) /\ Arriving(s, f, q) /\ Joined(p, f)
      /\ InOrder(p, s)
  BY DEF Sound
<1>2. p \in Seq(Kinds) /\ s \in Seq(DOMAIN p) /\ q \in Seq(DOMAIN p) /\ DOMAIN f = Lists
      /\ \A l \in Lists : f[l] \in Seq(OfList(p, l))
  BY <1>1 DEF Typed
<1>3. /\ rest \in Seq(DOMAIN p) /\ n \in DOMAIN p
      /\ Len(q) = Len(rest) + 1 /\ Len(rest) \in Nat
      /\ Members(q) = {n} \cup Members(rest)
  BY <1>2, ChangeTaken
<1>4. DOMAIN p \subseteq Nat /\ p[n] \in Kinds
  BY <1>2, <1>3, ArrivalNumbers
<1>5. l0 \in Lists /\ n \in OfList(p, l0)
  BY <1>3, <1>4, ItsList DEF OfList
<1>6. /\ DOMAIN g = Lists
      /\ g[l0] = Append(f[l0], n)
      /\ \A l \in Lists : l # l0 => g[l] = f[l]
  BY <1>2, <1>5
<1>7. \A l \in Lists : f[l] # << >> => p[n] \in Joins[l]
  OBVIOUS
<1>8. Increasing(rest) /\ \A m \in Members(rest) : n < m
  <2>1. q \in Seq(Nat) /\ Increasing(q)
    BY <1>1, <1>2, <1>4, Subsequences DEF Arriving
  <2> QED BY <2>1, IncreasingTail
<1> HIDE DEF n, rest, l0, g
<1>9. /\ g[l0] \in Seq(OfList(p, l0))
      /\ Len(g[l0]) = Len(f[l0]) + 1
      /\ Members(g[l0]) = Members(f[l0]) \cup {n}
  BY <1>2, <1>5, <1>6, ChangeAppended
<1>10. Contents(g) = Contents(f) \cup {n}
  <2>1. \A l \in Lists : Members(g[l]) = IF l = l0 THEN Members(f[l]) \cup {n} ELSE Members(f[l])
    BY <1>6, <1>9, Zenon
  <2> QED BY <1>5, <2>1 DEF Contents
<1>11. Size(g) = Size(f) + 1 /\ Size(f) \in Nat
  <2>1. \A l \in Lists : Len(f[l]) \in Nat
    BY <1>2
  <2>2. Len(g[l0]) = Len(f[l0]) + 1 /\ \A l \in Lists : l # l0 => Len(g[l]) = Len(f[l])
    BY <1>6, <1>9
  <2> QED BY <1>5, <2>1, <2>2, OneMore
<1>12. Typed(p, s, g, rest)
  BY <1>2, <1>3, <1>6, <1>9 DEF Typed
<1>13. Complete(p, s, g, rest)
  <2>1. Len(s) \in Nat /\ Len(s) + Size(f) + Len(q) = Len(p)
    BY <1>1, <1>2 DEF Complete
  <2>2. Len(s) + Size(g) + Len(rest) = Len(p)
    BY <1>3, <1>11, <2>1
  <2>3. Members(s) \cup Contents(g) \cup Members(rest) = DOMAIN p
    BY <1>1, <1>3, <1>10 DEF Complete
  <2> QED BY <2>2, <2>3 DEF Complete
<1>14. \A m \in Contents(f) : m < n
  BY <1>1, <1>3 DEF Arriving, Before
<1>15. Arriving(s, g, rest)
  <2>1. \A l \in Lists : Increasing(f[l]) /\ f[l] \in Seq(Nat)
    BY <1>1, <1>4, ListsOfArrivals, Subsequences DEF Arriving
  <2>2. \A m \in Members(f[l0]) : m < n
    BY <1>5, <1>14 DEF Contents
  <2>3. Increasing(g[l0])
    BY <1>3, <1>4, <1>5, <1>6, <2>1, <2>2, IncreasingAppended
  <2>4. \A l \in Lists : Increasing(g[l])
    BY <1>6, <2>1, <2>3
  <2>5. Before(Members(s), Contents(g) \cup Members(rest))
    BY <1>1, <1>3, <1>10 DEF Arriving, Before
  <2>6. Before(Contents(g), Members(rest))
    BY <1>1, <1>3, <1>8, <1>10 DEF Arriving, Before
  <2> QED BY <1>8, <2>4, <2>5, <2>6 DEF Arriving
<1>16. Joined(p, g)
  <2>1. SUFFICES ASSUME NEW k \in Lists, NEW l \in Lists,
                        NEW a \in Members(g[k]), NEW b \in Members(g[l]), a < b
                 PROVE  p[b] \in Joins[k]
    BY DEF Joined
  <2>2. a \in Members(f[k]) \cup {n} /\ b \in Members(f[l]) \cup {n}
    BY <1>6, <1>9
  <2>3. \A m \in Members(f[l]) : m < n /\ m \in Nat /\ n \in Nat
    BY <1>1, <1>3, <1>4, <1>14, ListsOfArrivals DEF Contents
  <2>4. \A x, y \in Nat : ~(x < x) /\ ~(x < y /\ y < x)
    OBVIOUS
  <2>5. a # n
    BY <1>3, <1>4, <2>1, <2>2, <2>3, <2>4
  <2>6. CASE b = n
    <3>1. f[k] # << >>
      BY <2>2, <2>5, EmptySequence
    <3> QED BY <1>7, <2>6, <3>1
  <2>7. CASE b # n
    BY <1>1, <2>1, <2>2, <2>5, <2>7 DEF Joined
  <2> QED BY <2>6, <2>7
<1>17. Sound(p, s, g, rest)
  BY <1>1, <1>12, <1>13, <1>15, <1>16 DEF Sound
<1> QED BY <1>17 DEF g, l0, rest, n

(***************************************************************************)
(* Putting changes on the queue.                                           *)
(***************************************************************************)
Numbers(p, ks) == [i \in 1 .. Len(ks) |-> Len(p) + i]

LEMMA NewNumbers ==
  ASSUME NEW p \in Seq(Kinds), NEW ks \in Seq(Kinds)
  PROVE  /\ p \o ks \in Seq(Kinds) /\ Len(p \o ks) = Len(p) + Len(ks)
         /\ DOMAIN p \subseteq DOMAIN (p \o ks)
         /\ \A n \in DOMAIN p : (p \o ks)[n] = p[n]
         /\ Numbers(p, ks) \in Seq(DOMAIN (p \o ks))
         /\ Len(Numbers(p, ks)) = Len(ks)
         /\ Increasing(Numbers(p, ks))
         /\ DOMAIN p \cup Members(Numbers(p, ks)) = DOMAIN (p \o ks)
         /\ Before(DOMAIN p, Members(Numbers(p, ks)))
<1> DEFINE new == Numbers(p, ks)  all == p \o ks
<1>1. /\ all \in Seq(Kinds) /\ Len(all) = Len(p) + Len(ks)
      /\ Len(p) \in Nat /\ Len(ks) \in Nat
      /\ DOMAIN p = 1 .. Len(p) /\ DOMAIN all = 1 .. Len(p) + Len(ks)
      /\ \A n \in 1 .. Len(p) : all[n] = p[n]
  OBVIOUS
<1>2. /\ DOMAIN new = 1 .. Len(ks)
      /\ \A i \in 1 .. Len(ks) : new[i] = Len(p) + i
  BY DEF Numbers
<1> HIDE DEF new, all
<1>3. /\ DOMAIN p \subseteq DOMAIN all
      /\ \A i \in 1 .. Len(ks) : new[i] \in DOMAIN all
  BY <1>1, <1>2
<1>4. new \in Seq(DOMAIN all) /\ Len(new) = Len(ks)
  <2>1. new \in [1 .. Len(ks) -> DOMAIN all]
    BY <1>2, <1>3 DEF new, Numbers
  <2>2. Len(ks) \in Nat
    BY <1>1
  <2> QED BY <2>1, <2>2
<1>5. Increasing(new)
  BY <1>1, <1>2 DEF Increasing
<1>6. DOMAIN all \subseteq DOMAIN p \cup Members(new)
  <2>1. ASSUME NEW n \in 1 .. Len(p) + Len(ks), ~(n <= Len(p))
        PROVE  n \in Members(new)
    <3>1. n - Len(p) \in 1 .. Len(ks) /\ Len(p) + (n - Len(p)) = n
      BY <1>1, <2>1
    <3> QED BY <1>2, <3>1 DEF Members
  <2> QED BY <1>1, <2>1
<1>7. Members(new) \subseteq DOMAIN all
  BY <1>2, <1>3 DEF Members
<1>8. Before(DOMAIN p, Members(new))
  BY <1>1, <1>2 DEF Before, Members
<1> QED BY <1>1, <1>3, <1>4, <1>5, <1>6, <1>7, <1>8 DEF new, all

LEMMA PostSound ==
  ASSUME NEW p, NEW s, NEW f, NEW q, Sound(p, s, f, q), NEW ks \in Seq(Kinds)
  PROVE  Sound(p \o ks, s, f, q \o Numbers(p, ks))
<1> DEFINE all == p \o ks  new == Numbers(p, ks)  later == q \o new
<1>1. Typed(p, s, f, q) /\ Complete(p, s, f, q) /\ Arriving(s, f, q) /\ Joined(p, f)
      /\ InOrder(p, s)
  BY DEF Sound
<1>2. p \in Seq(Kinds) /\ s \in Seq(DOMAIN p) /\ q \in Seq(DOMAIN p) /\ DOMAIN f = Lists
      /\ \A l \in Lists : f[l] \in Seq(OfList(p, l))
  BY <1>1 DEF Typed
<1>3. /\ all \in Seq(Kinds) /\ Len(all) = Len(p) + Len(ks)
      /\ DOMAIN p \subseteq DOMAIN all
      /\ \A n \in DOMAIN p : all[n] = p[n]
      /\ new \in Seq(DOMAIN all) /\ Len(new) = Len(ks)
      /\ Increasing(new)
      /\ DOMAIN p \cup Members(new) = DOMAIN all
      /\ Before(DOMAIN p, Members(new))
  BY <1>2, NewNumbers
<1>4. DOMAIN all \subseteq Nat /\ DOMAIN p \subseteq Nat
  BY <1>2, <1>3, ArrivalNumbers
<1>5. /\ Contents(f) \subseteq DOMAIN p /\ Members(s) \subseteq DOMAIN p
      /\ Members(q) \subseteq DOMAIN p
  BY <1>1, ListsOfArrivals
<1> HIDE DEF new, all
<1>6. q \in Seq(DOMAIN all) /\ s \in Seq(DOMAIN all)
  BY <1>2, <1>3, Subsequences
<1>7. /\ later \in Seq(DOMAIN all)
      /\ Len(later) = Len(q) + Len(new) /\ Len(q) \in Nat
      /\ Members(later) = Members(q) \cup Members(new)
  <2>1. \A x, y \in Seq(DOMAIN all) :
          /\ x \o y \in Seq(DOMAIN all)
          /\ Len(x \o y) = Len(x) + Len(y) /\ Len(x) \in Nat
          /\ Members(x \o y) = Members(x) \cup Members(y)
    BY Concatenated
  <2> QED BY <1>3, <1>6, <2>1
<1>8. Increasing(later)
  <2>1. q \in Seq(Nat) /\ new \in Seq(Nat)
    BY <1>3, <1>4, <1>6, Subsequences
  <2>2. Before(Members(q), Members(new))
    BY <1>3, <1>5 DEF Before
  <2> QED BY <1>1, <1>3, <2>1, <2>2, IncreasingConcat DEF Arriving
<1> HIDE DEF later
<1>9. Typed(all, s, f, later)
  <2>1. ASSUME NEW l \in Lists
        PROVE  f[l] \in Seq(OfList(all, l))
    <3>1. OfList(p, l) \subseteq OfList(all, l)
      BY <1>3 DEF OfList
    <3> QED BY <1>2, <3>1, Subsequences
  <2> QED BY <1>2, <1>3, <1>6, <1>7, <2>1 DEF Typed
<1>10. Complete(all, s, f, later)
  <2>1. Len(s) \in Nat /\ Size(f) \in Nat /\ Len(ks) \in Nat
    <3>1. \A l \in Lists : f[l] \in Seq(DOMAIN p)
      BY <1>1, ListsOfArrivals
    <3>2. Size(f) \in Nat
      BY <3>1, FlushedFacts
    <3> QED BY <1>2, <3>2
  <2>2. Len(s) + Size(f) + Len(q) = Len(p)
    BY <1>1 DEF Complete
  <2>3. Len(s) + Size(f) + Len(later) = Len(all)
    <3>1. \A a, b, c, d \in Nat : a + b + (c + d) = a + b + c + d
      OBVIOUS
    <3>2. Len(later) = Len(q) + Len(ks) /\ Len(all) = Len(p) + Len(ks) /\ Len(q) \in Nat
      BY <1>3, <1>7
    <3>3. Len(s) + Size(f) + (Len(q) + Len(ks)) = Len(s) + Size(f) + Len(q) + Len(ks)
      BY <2>1, <3>1, <3>2
    <3> QED BY <2>2, <3>2, <3>3, Zenon
  <2>4. Members(s) \cup Contents(f) \cup Members(later) = DOMAIN all
    BY <1>1, <1>3, <1>7 DEF Complete
  <2> QED BY <2>3, <2>4 DEF Complete
<1>11. Arriving(s, f, later)
  <2>1. Before(Members(s), Contents(f) \cup Members(later))
    BY <1>1, <1>3, <1>5, <1>7 DEF Arriving, Before
  <2>2. Before(Contents(f), Members(later))
    BY <1>1, <1>3, <1>5, <1>7 DEF Arriving, Before
  <2> QED BY <1>1, <1>8, <2>1, <2>2 DEF Arriving
<1>12. Joined(all, f)
  <2>1. \A l \in Lists : \A n \in Members(f[l]) : all[n] = p[n]
    BY <1>3, <1>5 DEF Contents
  <2> QED BY <1>1, <2>1 DEF Joined
<1>13. InOrder(all, s)
  <2>1. \A i \in DOMAIN s : all[s[i]] = p[s[i]]
    BY <1>2, <1>3
  <2> QED BY <1>1, <2>1 DEF InOrder, MayFollow
<1>14. Sound(all, s, f, later)
  BY <1>9, <1>10, <1>11, <1>12, <1>13 DEF Sound
<1> QED BY <1>14 DEF all, later, new

(***************************************************************************)
(* The invariant holds, and says what the queue promises.                  *)
(***************************************************************************)
LEMMA CollectedIsFlushed == Collected = Flushed(lists)
BY TheLists DEF Collected, Flushed

LEMMA InvariantMeans ==
  QueueInv => QueueTypeOK /\ HandsOnAll
<1> SUFFICES ASSUME QueueInv
             PROVE  QueueTypeOK /\ HandsOnAll
  OBVIOUS
<1>1. /\ Typed(posted, sent, lists, queue) /\ Complete(posted, sent, lists, queue)
      /\ InOrder(posted, sent)
  BY DEF QueueInv, Sound
<1>2. QueueTypeOK
  BY <1>1 DEF QueueInv, QueueTypeOK, Typed, OfList, Arrivals
<1>3. \A l \in Lists : lists[l] \in Seq(DOMAIN posted)
  BY <1>1, ListsOfArrivals
<1>4. sent \in Seq(DOMAIN posted) /\ queue \in Seq(DOMAIN posted)
  BY <1>1 DEF Typed
<1> DEFINE w == Flushed(lists)
<1>5. w \in Seq(DOMAIN posted) /\ Len(w) = Size(lists) /\ Members(w) = Contents(lists)
  BY <1>3, FlushedFacts
<1>6. NothingLost <=> /\ Len(sent \o w \o queue) = Len(posted)
                      /\ Members(sent \o w \o queue) = DOMAIN posted
  BY CollectedIsFlushed, Zenon DEF NothingLost
<1> HIDE DEF w
<1>7. Len(sent \o w \o queue) = Len(sent) + Len(w) + Len(queue)
  <2>1. sent \o w \in Seq(DOMAIN posted) /\ Len(sent \o w) = Len(sent) + Len(w)
    BY <1>4, <1>5
  <2>2. Len(sent \o w \o queue) = Len(sent \o w) + Len(queue)
    BY <1>4, <2>1
  <2> QED BY <2>1, <2>2, Zenon
<1>8. Members(sent \o w \o queue) = Members(sent) \cup Members(w) \cup Members(queue)
  BY <1>4, <1>5, ThreeConcatenated
<1>9. NothingLost
  BY <1>1, <1>5, <1>6, <1>7, <1>8 DEF Complete
<1>10. OnlyPositionsAreOvertaken
  BY <1>1 DEF OnlyPositionsAreOvertaken, InOrder, MayFollow
<1> QED BY <1>2, <1>9, <1>10 DEF HandsOnAll

LEMMA QueueInitially ==
  QueueInit => QueueInv
<1> SUFFICES ASSUME QueueInit
             PROVE  QueueInv
  OBVIOUS
<1>1. posted = << >> /\ queue = << >> /\ sent = << >> /\ lists = Empty
  BY DEF QueueInit
<1>2. /\ posted \in Seq(Kinds) /\ sent \in Seq(DOMAIN posted) /\ queue \in Seq(DOMAIN posted)
      /\ Len(posted) = 0 /\ Len(sent) = 0 /\ Len(queue) = 0
      /\ DOMAIN posted = {} /\ Members(sent) = {} /\ Members(queue) = {}
      /\ Increasing(queue)
  BY <1>1, EmptySequence DEF Members
<1>3. Typed(posted, sent, lists, queue)
  <2>1. \A l \in Lists : lists[l] \in Seq(OfList(posted, l))
    BY <1>1, NothingCollected, EmptySequence
  <2> QED BY <1>1, <1>2, <2>1, NothingCollected DEF Typed
<1>4. Complete(posted, sent, lists, queue)
  BY <1>1, <1>2, NothingCollected DEF Complete
<1>5. Arriving(sent, lists, queue)
  <2>1. \A l \in Lists : Increasing(lists[l])
    BY <1>1, NothingCollected, EmptySequence
  <2> QED BY <1>2, <2>1, <1>1, NothingCollected DEF Arriving, Before
<1>6. Joined(posted, lists) /\ InOrder(posted, sent)
  <2>1. \A l \in Lists : Members(lists[l]) = {}
    BY <1>1, NothingCollected, EmptySequence
  <2>2. DOMAIN sent = {}
    BY <1>1
  <2> QED BY <2>1, <2>2 DEF Joined, InOrder
<1> QED BY <1>3, <1>4, <1>5, <1>6 DEF QueueInit, QueueInv, Sound

LEMMA PostPreserves ==
  ASSUME QueueInv, NEW ks \in Seq(Kinds), PostChanges(ks), UNCHANGED << consuming, lists, sent, job >>,
         idle' \in BOOLEAN
  PROVE  QueueInv'
<1>1. Sound(posted \o ks, sent, lists, queue \o Numbers(posted, ks))
  BY PostSound DEF QueueInv
<1>2. posted' = posted \o ks /\ queue' = queue \o Numbers(posted, ks)
  BY DEF PostChanges, Numbers
<1>3. Sound(posted', sent', lists', queue')
  BY <1>1, <1>2
<1> QED BY <1>3 DEF QueueInv

LEMMA TakePreserves ==
  ASSUME QueueInv, TakeChange
  PROVE  QueueInv'
<1> DEFINE n == Head(queue)
<1>1. queue # << >> /\ Sound(posted, sent, lists, queue)
  BY DEF TakeChange, QueueInv
<1>2. CASE FlushNeeded(posted[n])
  <2>1. Sound(posted, sent \o Flushed(lists), Empty, queue)
    BY <1>1, FlushSound
  <2>2. \A l \in Lists : Empty[l] # << >> => posted[Head(queue)] \in Joins[l]
    BY NothingCollected
  <2>3. Sound(posted, sent \o Flushed(lists),
              [Empty EXCEPT ![ListOf[posted[Head(queue)]]] = Append(@, Head(queue))], Tail(queue))
    BY <1>1, <2>1, <2>2, TakeSound
  <2>4. /\ sent' = sent \o Flushed(lists)
        /\ lists' = [Empty EXCEPT ![ListOf[posted[Head(queue)]]] = Append(@, Head(queue))]
        /\ queue' = Tail(queue) /\ posted' = posted
    BY <1>2, CollectedIsFlushed DEF TakeChange
  <2>5. Sound(posted', sent', lists', queue')
    BY <2>3, <2>4, Zenon
  <2> QED BY <2>5 DEF QueueInv, TakeChange
<1>3. CASE ~FlushNeeded(posted[n])
  <2>1. \A l \in Lists : lists[l] # << >> => posted[Head(queue)] \in Joins[l]
    BY <1>3 DEF FlushNeeded
  <2>2. Sound(posted, sent,
              [lists EXCEPT ![ListOf[posted[Head(queue)]]] = Append(@, Head(queue))], Tail(queue))
    BY <1>1, <2>1, TakeSound
  <2>3. /\ sent' = sent
        /\ lists' = [lists EXCEPT ![ListOf[posted[Head(queue)]]] = Append(@, Head(queue))]
        /\ queue' = Tail(queue) /\ posted' = posted
    BY <1>3 DEF TakeChange
  <2>4. Sound(posted', sent', lists', queue')
    BY <2>2, <2>3, Zenon
  <2> QED BY <2>4 DEF QueueInv, TakeChange
<1> QED BY <1>2, <1>3

LEMMA ConsumeEndPreserves ==
  ASSUME QueueInv, ConsumeEnds
  PROVE  QueueInv'
<1>1. Sound(posted, sent \o Flushed(lists), Empty, queue)
  BY FlushSound DEF QueueInv
<1>2. sent' = sent \o Flushed(lists) /\ lists' = Empty /\ queue' = queue /\ posted' = posted
  BY CollectedIsFlushed DEF ConsumeEnds
<1>3. Sound(posted', sent', lists', queue')
  BY <1>1, <1>2, Zenon
<1> QED BY <1>3 DEF QueueInv, ConsumeEnds

LEMMA QueueStep ==
  QueueInv /\ [QueueNext]_queueVars => QueueInv'
<1> SUFFICES ASSUME QueueInv, [QueueNext]_queueVars
             PROVE  QueueInv'
  OBVIOUS
<1>1. ASSUME NEW j \in Jobs, JobPosts(j)
      PROVE  QueueInv'
  <2>1. PICK k \in Kinds : PostChanges(<< k >>)
    BY <1>1 DEF JobPosts
  <2>2. << k >> \in Seq(Kinds)
    OBVIOUS
  <2> QED BY <1>1, <2>1, <2>2, PostPreserves DEF JobPosts, QueueInv
<1>2. ASSUME NEW j \in Jobs, JobThreadEnds(j)
      PROVE  QueueInv'
  BY <1>2 DEF JobThreadEnds, QueueInv
<1>3. ASSUME NEW j \in Jobs, DoneCallback(j)
      PROVE  QueueInv'
  BY <1>3 DEF DoneCallback, QueueInv
<1>4. CASE DirChanged
  <2>1. PICK k \in {"added", "changed", "removed"} : PostChanges(<< k, k >>)
    BY <1>4 DEF DirChanged
  <2>2. << k, k >> \in Seq(Kinds)
    BY DEF Kinds
  <2> QED BY <1>4, <2>1, <2>2, PostPreserves DEF DirChanged
<1>5. CASE IdleConsumes
  BY <1>5 DEF IdleConsumes, QueueInv
<1>6. CASE TakeChange
  BY <1>6, TakePreserves
<1>7. CASE ConsumeEnds
  BY <1>7, ConsumeEndPreserves
<1>8. CASE UNCHANGED queueVars
  BY <1>8 DEF queueVars, QueueInv
<1> QED BY <1>1, <1>2, <1>3, <1>4, <1>5, <1>6, <1>7, <1>8 DEF QueueNext

LEMMA QueueInvariant == QueueSpec => []QueueInv
BY QueueInitially, QueueStep, PTL DEF QueueSpec

\* Each list holds changes of the kinds its sender takes them for, and those
\* that were posted: baul_file_changes_consume_changes, whatever is posted
\* while it runs.
THEOREM QueueTypes == QueueSpec => []QueueTypeOK
BY QueueInvariant, InvariantMeans, PTL

\* The changes that were sent, are collected and are on the queue are together
\* those that were posted, each once; and they are sent in the order in which
\* they were posted, but for an icon position after a file that appeared or
\* moved: baul_file_changes_consume_changes, for any jobs and any number of
\* changes, whatever its callers do at the same time.
THEOREM EveryChangeIsHandedOn == QueueSpec => []HandsOnAll
BY QueueInvariant, InvariantMeans, PTL

\* Nothing is left on the queue when no job is unfinished and no idle function
\* is scheduled: every caller that posts a change sees to it that it is taken.
THEOREM NoChangeIsStranded == QueueSpec => []NoStrandedChange
<1>1. QueueInit => NoStrandedChange
  BY DEF QueueInit, NoStrandedChange
<1>2. QueueInv /\ NoStrandedChange /\ [QueueNext]_queueVars => NoStrandedChange'
  <2> SUFFICES ASSUME QueueInv, NoStrandedChange, [QueueNext]_queueVars
               PROVE  NoStrandedChange'
    OBVIOUS
  <2>1. job \in [Jobs -> {"running", "done", "finished"}]
    BY DEF QueueInv
  <2>2. ASSUME NEW j \in Jobs, JobPosts(j)
        PROVE  NoStrandedChange'
    BY <2>2 DEF JobPosts, NoStrandedChange
  <2>3. ASSUME NEW j \in Jobs, JobThreadEnds(j)
        PROVE  NoStrandedChange'
    BY <2>1, <2>3 DEF JobThreadEnds, NoStrandedChange
  <2>4. ASSUME NEW j \in Jobs, DoneCallback(j)
        PROVE  NoStrandedChange'
    BY <2>4 DEF DoneCallback, NoStrandedChange
  <2>5. CASE DirChanged
    BY <2>5 DEF DirChanged, NoStrandedChange
  <2>6. CASE IdleConsumes
    BY <2>6 DEF IdleConsumes, NoStrandedChange
  <2>7. CASE TakeChange
    BY <2>7 DEF TakeChange, NoStrandedChange
  <2>8. CASE ConsumeEnds
    BY <2>8 DEF ConsumeEnds, NoStrandedChange
  <2>9. CASE UNCHANGED queueVars
    BY <2>9 DEF queueVars, NoStrandedChange
  <2> QED BY <2>2, <2>3, <2>4, <2>5, <2>6, <2>7, <2>8, <2>9 DEF QueueNext
<1> QED BY <1>1, <1>2, QueueInvariant, PTL DEF QueueSpec

-----------------------------------------------------------------------------
(***************************************************************************)
(* The progress of operations.                                             *)
(***************************************************************************)
(***************************************************************************)
(* Types.                                                                  *)
(***************************************************************************)
Infos ==
  [refs : Nat, started : BOOLEAN, finished : BOOLEAN, asking : BOOLEAN, waiting : BOOLEAN,
   canPause : BOOLEAN, cancelled : BOOLEAN, source : {"none", "idle", "timeout"},
   atIdle : SUBSET Signals]

Widgets ==
  [state : States \cup {"none", "gone"}, startOff : BOOLEAN, cancelOff : BOOLEAN]

\* An emission is one of Emission(o).
IdleFunctions ==
  [kind : {"notify", "off"}, op : Ops, widget : BOOLEAN]
  \cup [kind : {"emit"}, op : Ops, widget : {TRUE}]

Mains ==
  [info : [Ops -> Infos], widget : [Ops -> Widgets], box : Seq(Ops), idles : Seq(IdleFunctions)]

Displayed(u, o) == u.widget[o].state \notin {"none", "gone"}

(***************************************************************************)
(* The invariant. u is the main loop's part, p where the threads are, and  *)
(* l what they have before them.                                           *)
(***************************************************************************)
\* The thread holds a reference, and so does the widget.
RefsExact(u, p, o) ==
  u.info[o].refs = (IF p[o] = "over" THEN 0 ELSE 1) + (IF Displayed(u, o) THEN 1 ELSE 0)

\* What an operation has to say is on its way by one source, and says that it has
\* started until it is displayed, and that it has finished when it is over.
SourceExact(u, p, o) ==
  /\ u.info[o].source = "idle" <=> Emission(o) \in ToSet(u.idles)
  /\ u.info[o].source # "none" => p[o] # "none" /\ (p[o] # "over" \/ Displayed(u, o))
  /\ u.info[o].source = "idle" /\ p[o] # "over" => "started" \in u.info[o].atIdle
  /\ "started" \in u.info[o].atIdle => u.widget[o].state = "none"
  /\ "finished" \in u.info[o].atIdle => p[o] = "over"
  /\ u.info[o].finished <=> p[o] = "over"

\* A widget comes with the first signal and goes with the last.
Due(u, p, o) ==
  /\ p[o] = "none" => ~Displayed(u, o)
  /\ u.widget[o].state = "none" /\ p[o] \notin {"none", "over"} => u.info[o].source = "idle"
  /\ Displayed(u, o) /\ p[o] = "over" =>
       u.info[o].source = "idle" /\ "finished" \in u.info[o].atIdle
  /\ u.widget[o].state = "gone" => p[o] = "over"

\* Without a widget an operation that can be queued does not get beyond its scan.
Undisplayed(u, p, l, o) ==
  u.widget[o].state = "none" =>
    /\ u.info[o].waiting <=> o \in Queueable
    /\ o \in Queueable /\ p[o] \in {"none", "work", "asking"} => l[o] > 1

\* An operation for which something else than its signals is posted.
Posted(u, o) == \E i \in ToSet(u.idles) : i.kind # "emit" /\ i.op = o

\* Who is called is there.
Called(u, p, o) ==
  Posted(u, o) =>
    \/ Displayed(u, o)
    \/ u.widget[o].state = "none" /\ p[o] \in {"ready", "asleep"} /\ o \in Queueable

\* Its first signals come before all else an operation posts, its last ones after.
EmittedInPlace(s, unseen) ==
  \A j, k \in DOMAIN s :
    j < k /\ s[j].op = s[k].op =>
      /\ s[j].kind = "emit" => s[k].kind # "emit" /\ s[k].op \in unseen
      /\ s[k].kind = "emit" => s[j].op \notin unseen

Unseen(u) == {o \in Ops : u.widget[o].state = "none"}

\* The body of WaitsAsShown.
InfoShown(u, o) ==
  /\ u.widget[o].state \in {"initialized", "running"} => ~u.info[o].waiting
  /\ u.widget[o].state \in {"pausing", "paused", "queuing", "queued"}
       => u.info[o].waiting \/ u.info[o].cancelled

\* A widget is in the box.
Boxed(u) == \A o \in Ops : Displayed(u, o) => o \in ToSet(u.box)

OpInv(u, p, l, o) ==
  /\ RefsExact(u, p, o) /\ SourceExact(u, p, o) /\ Due(u, p, o) /\ Undisplayed(u, p, l, o)
  /\ Called(u, p, o) /\ InfoShown(u, o)

StateInv(u, p, l) ==
  /\ u \in Mains
  /\ \A o \in Ops : OpInv(u, p, l, o)
  /\ EmittedInPlace(u.idles, Unseen(u)) /\ Boxed(u)

ProgressInv == pc \in [Ops -> Places] /\ left \in [Ops -> Int] /\ StateInv(Main, pc, left)

-----------------------------------------------------------------------------
(***************************************************************************)
(* Sequences.                                                              *)
(***************************************************************************)
\* The smallest of some positions.
LEMMA Smallest ==
  ASSUME NEW I \in SUBSET Nat, I # {}
  PROVE  Min(I) \in I
<1>1. \E m \in I : \A i \in I : <<i, m>> \notin OpToRel(<, Nat)
  BY WFMin, NatLessThanWellFounded
<1>2. \A i, m \in Nat : <<i, m>> \notin OpToRel(<, Nat) => m <= i
  BY DEF OpToRel
<1>3. \E m \in I : \A i \in I : m <= i
  BY <1>1, <1>2
<1> QED BY <1>3 DEF Min

\* The beginning and the end of a sequence.
LEMMA Parts ==
  ASSUME NEW S, NEW s \in Seq(S), NEW i \in 1 .. Len(s) + 1
  PROVE  /\ SubSeq(s, 1, i - 1) \in Seq(S)
         /\ Len(SubSeq(s, 1, i - 1)) = i - 1
         /\ \A n \in 1 .. i - 1 : SubSeq(s, 1, i - 1)[n] = s[n]
         /\ SubSeq(s, i, Len(s)) \in Seq(S)
         /\ Len(SubSeq(s, i, Len(s))) = Len(s) - i + 1
         /\ \A n \in 1 .. Len(s) - i + 1 : SubSeq(s, i, Len(s))[n] = s[i + n - 1]
<1>1. Len(s) \in Nat /\ \A n \in 1 .. Len(s) : s[n] \in S
  BY LenProperties, ElementOfSeq
<1>2. /\ \A n \in 1 .. i - 1 : s[n] \in S
      /\ \A n \in i .. Len(s) : s[n] \in S
      /\ 1 \in Int /\ i \in Int /\ i - 1 \in Int /\ Len(s) \in Int
  BY <1>1
<1>3. /\ SubSeq(s, 1, i - 1) \in Seq(S)
      /\ Len(SubSeq(s, 1, i - 1)) = IF 1 <= i - 1 THEN (i - 1) - 1 + 1 ELSE 0
      /\ \A n \in 1 .. (i - 1) - 1 + 1 : SubSeq(s, 1, i - 1)[n] = s[1 + n - 1]
  BY <1>2, SubSeqProperties
<1>4. /\ SubSeq(s, i, Len(s)) \in Seq(S)
      /\ Len(SubSeq(s, i, Len(s))) = IF i <= Len(s) THEN Len(s) - i + 1 ELSE 0
      /\ \A n \in 1 .. Len(s) - i + 1 : SubSeq(s, i, Len(s))[n] = s[i + n - 1]
  BY <1>2, SubSeqProperties
<1>5. /\ (i - 1) - 1 + 1 = i - 1
      /\ \A n \in Nat : 1 + n - 1 = n
      /\ ~(1 <= i - 1) => i - 1 = 0
      /\ ~(i <= Len(s)) => Len(s) - i + 1 = 0
  BY <1>1
<1>6. \A n \in 1 .. i - 1 : n \in Nat
  BY <1>1
<1> QED BY <1>3, <1>4, <1>5, <1>6

\* A sequence without what it has at k.
LEMMA Removal ==
  ASSUME NEW S, NEW s \in Seq(S), NEW k \in 1 .. Len(s)
  PROVE  /\ RemoveAt(s, k) \in Seq(S)
         /\ Len(RemoveAt(s, k)) = Len(s) - 1
         /\ \A n \in 1 .. Len(s) - 1 : RemoveAt(s, k)[n] = s[IF n < k THEN n ELSE n + 1]
<1> DEFINE a == SubSeq(s, 1, k - 1)
           b == SubSeq(s, k + 1, Len(s))
<1>1. Len(s) \in Nat /\ k \in 1 .. Len(s) + 1 /\ k + 1 \in 1 .. Len(s) + 1
  BY LenProperties
<1>2. a \in Seq(S) /\ Len(a) = k - 1 /\ \A n \in 1 .. k - 1 : a[n] = s[n]
  BY <1>1, Parts
<1>3. /\ b \in Seq(S) /\ Len(b) = Len(s) - (k + 1) + 1
      /\ \A n \in 1 .. Len(s) - (k + 1) + 1 : b[n] = s[(k + 1) + n - 1]
  BY <1>1, Parts
<1> HIDE DEF a, b
<1>4. /\ a \o b \in Seq(S) /\ Len(a \o b) = Len(a) + Len(b)
      /\ \A n \in 1 .. Len(a) + Len(b) :
           (a \o b)[n] = IF n <= Len(a) THEN a[n] ELSE b[n - Len(a)]
  BY <1>2, <1>3, ConcatProperties
<1>5. Len(a) + Len(b) = Len(s) - 1
  BY <1>1, <1>2, <1>3
<1>6. ASSUME NEW n \in 1 .. Len(s) - 1
      PROVE  (a \o b)[n] = s[IF n < k THEN n ELSE n + 1]
  <2>1. CASE n < k
    BY <1>1, <1>2, <1>4, <1>5, <2>1
  <2>2. CASE ~(n < k)
    <3>1. n - Len(a) \in 1 .. Len(s) - (k + 1) + 1 /\ ~(n <= Len(a))
          /\ (k + 1) + (n - Len(a)) - 1 = n + 1
      BY <1>1, <1>2, <2>2
    <3>2. b[n - Len(a)] = s[(k + 1) + (n - Len(a)) - 1]
      BY <1>3, <3>1
    <3> QED BY <1>4, <1>5, <2>2, <3>1, <3>2
  <2> QED BY <2>1, <2>2
<1> QED BY <1>4, <1>5, <1>6 DEF RemoveAt, a, b

\* A sequence with e before what it has at i.
LEMMA Insertion ==
  ASSUME NEW S, NEW s \in Seq(S), NEW i \in 1 .. Len(s) + 1, NEW e \in S
  PROVE  /\ InsertAt(s, i, e) \in Seq(S)
         /\ ToSet(s) \cup {e} \subseteq ToSet(InsertAt(s, i, e))
<1> DEFINE a == SubSeq(s, 1, i - 1)
           b == SubSeq(s, i, Len(s))
           c == a \o <<e>>
<1>1. Len(s) \in Nat /\ DOMAIN s = 1 .. Len(s) /\ i \in Nat
  BY LenProperties
<1>2. a \in Seq(S) /\ Len(a) = i - 1 /\ \A n \in 1 .. i - 1 : a[n] = s[n]
  BY Parts
<1>3. /\ b \in Seq(S) /\ Len(b) = Len(s) - i + 1
      /\ \A n \in 1 .. Len(s) - i + 1 : b[n] = s[i + n - 1]
  BY Parts
<1> HIDE DEF a, b
<1>4. <<e>> \in Seq(S) /\ Len(<<e>>) = 1 /\ <<e>>[1] = e
  OBVIOUS
<1>5. /\ c \in Seq(S) /\ Len(c) = i
      /\ \A n \in 1 .. i : c[n] = IF n <= i - 1 THEN a[n] ELSE <<e>>[n - (i - 1)]
  BY <1>1, <1>2, <1>4, ConcatProperties
<1> HIDE DEF c
<1>6. /\ c \o b \in Seq(S) /\ Len(c \o b) = Len(c) + Len(b)
      /\ \A n \in 1 .. Len(c) + Len(b) :
           (c \o b)[n] = IF n <= Len(c) THEN c[n] ELSE b[n - Len(c)]
  BY <1>3, <1>5, ConcatProperties
<1>7. Len(c) + Len(b) = Len(s) + 1
  BY <1>1, <1>3, <1>5
<1>8. DOMAIN (c \o b) = 1 .. Len(s) + 1
  BY <1>6, <1>7
<1>9. (c \o b)[i] = e
  BY <1>1, <1>4, <1>5, <1>6, <1>7
<1>10. ASSUME NEW n \in 1 .. Len(s)
       PROVE  s[n] \in ToSet(c \o b)
  <2>1. CASE n < i
    <3>1. n \in 1 .. i - 1 /\ n \in 1 .. i /\ n \in 1 .. Len(s) + 1 /\ n <= Len(c)
      BY <1>1, <1>5, <2>1
    <3>2. (c \o b)[n] = c[n] /\ c[n] = a[n] /\ a[n] = s[n]
      BY <1>2, <1>5, <1>6, <1>7, <3>1
    <3> QED BY <1>8, <3>1, <3>2 DEF ToSet
  <2>2. CASE ~(n < i)
    <3>1. /\ n + 1 \in 1 .. Len(s) + 1 /\ ~(n + 1 <= Len(c)) /\ (n + 1) - Len(c) = n - i + 1
          /\ n - i + 1 \in 1 .. Len(s) - i + 1 /\ i + (n - i + 1) - 1 = n
      BY <1>1, <1>5, <2>2
    <3>2. (c \o b)[n + 1] = s[n]
      BY <1>3, <1>6, <1>7, <3>1
    <3> QED BY <1>8, <3>1, <3>2 DEF ToSet
  <2> QED BY <2>1, <2>2
<1>11. e \in ToSet(c \o b)
  BY <1>1, <1>8, <1>9 DEF ToSet
<1> QED BY <1>1, <1>6, <1>10, <1>11 DEF InsertAt, ToSet, a, b, c

LEMMA Appended ==
  ASSUME NEW S, NEW s \in Seq(S), NEW e \in S
  PROVE  /\ Append(s, e) \in Seq(S)
         /\ ToSet(Append(s, e)) = ToSet(s) \cup {e}
<1>1. /\ Append(s, e) \in Seq(S)
      /\ Len(Append(s, e)) = Len(s) + 1
      /\ \A i \in 1 .. Len(s) : Append(s, e)[i] = s[i]
      /\ Append(s, e)[Len(s) + 1] = e
  BY AppendProperties
<1>2. DOMAIN s = 1 .. Len(s) /\ Len(s) \in Nat /\ DOMAIN Append(s, e) = 1 .. Len(s) + 1
  BY <1>1, LenProperties
<1>3. ToSet(s) \cup {e} \subseteq ToSet(Append(s, e))
  BY <1>1, <1>2 DEF ToSet
<1>4. ToSet(Append(s, e)) \subseteq ToSet(s) \cup {e}
  <2>1. \A i \in 1 .. Len(s) + 1 : i \in 1 .. Len(s) \/ i = Len(s) + 1
    BY <1>2
  <2> QED BY <1>1, <1>2, <2>1 DEF ToSet
<1> QED BY <1>1, <1>3, <1>4

LEMMA FirstRemoved ==
  ASSUME NEW S, NEW s \in Seq(S), NEW e
  PROVE  \/ WithoutFirst(s, e) = s /\ \A n \in DOMAIN s : s[n] # e
         \/ \E k \in DOMAIN s : s[k] = e /\ WithoutFirst(s, e) = RemoveAt(s, k)
<1> DEFINE I == {i \in 1 .. Len(s) : s[i] = e}
<1>1. Len(s) \in Nat /\ DOMAIN s = 1 .. Len(s)
  BY LenProperties
<1>2. CASE I = {}
  <2>1. SelectInSeq(s, LAMBDA x : x = e) = 0
    BY <1>2 DEF SelectInSeq
  <2>2. WithoutFirst(s, e) = s
    BY <2>1 DEF WithoutFirst
  <2> QED BY <1>1, <1>2, <2>2
<1>3. CASE I # {}
  <2>1. I \in SUBSET Nat
    BY <1>1
  <2>2. Min(I) \in I
    BY <1>3, <2>1, Smallest
  <2>3. SelectInSeq(s, LAMBDA x : x = e) = Min(I)
    BY <1>3 DEF SelectInSeq
  <2>4. Min(I) # 0
    BY <1>1, <2>2
  <2>5. WithoutFirst(s, e) = RemoveAt(s, Min(I))
    BY <2>3, <2>4 DEF WithoutFirst
  <2> QED BY <1>1, <2>2, <2>5
<1> QED BY <1>2, <1>3

\* What is in the box stays there when a widget is moved to another place.
LEMMA Reordered ==
  ASSUME NEW s \in Seq(Ops), NEW o \in ToSet(s), NEW i \in Nat
  PROVE  /\ Reorder(s, o, i) \in Seq(Ops)
         /\ ToSet(s) \subseteq ToSet(Reorder(s, o, i))
<1> DEFINE r == WithoutFirst(s, o)
<1>1. Len(s) \in Nat /\ DOMAIN s = 1 .. Len(s) /\ o \in Ops
  BY LenProperties, ElementOfSeq DEF ToSet
<1>2. PICK k \in 1 .. Len(s) : s[k] = o /\ r = RemoveAt(s, k)
  BY <1>1, FirstRemoved DEF ToSet
<1>3. /\ r \in Seq(Ops) /\ Len(r) = Len(s) - 1
      /\ \A n \in 1 .. Len(s) - 1 : r[n] = s[IF n < k THEN n ELSE n + 1]
  BY <1>2, Removal
<1> HIDE DEF r
<1>4. DOMAIN r = 1 .. Len(s) - 1 /\ Len(r) \in Nat
  BY <1>1, <1>3, LenProperties
<1>5. ToSet(s) \subseteq ToSet(r) \cup {o}
  <2>1. ASSUME NEW n \in 1 .. Len(s), n # k
        PROVE  s[n] \in ToSet(r)
    <3>1. CASE n < k
      <4>1. n \in 1 .. Len(s) - 1 /\ r[n] = s[n]
        BY <1>1, <1>3, <3>1
      <4> QED BY <1>4, <4>1 DEF ToSet
    <3>2. CASE ~(n < k)
      <4>1. n - 1 \in 1 .. Len(s) - 1 /\ ~(n - 1 < k) /\ (n - 1) + 1 = n
        BY <1>1, <2>1, <3>2
      <4>2. r[n - 1] = s[n]
        BY <1>3, <4>1
      <4> QED BY <1>4, <4>1, <4>2 DEF ToSet
    <3> QED BY <3>1, <3>2
  <2> QED BY <1>1, <1>2, <2>1 DEF ToSet
<1>6. CASE i < Len(r)
  <2>1. i + 1 \in 1 .. Len(r) + 1
    BY <1>4, <1>6
  <2>2. /\ InsertAt(r, i + 1, o) \in Seq(Ops)
        /\ ToSet(r) \cup {o} \subseteq ToSet(InsertAt(r, i + 1, o))
    BY <1>1, <1>3, <2>1, Insertion
  <2> QED BY <1>5, <1>6, <2>2 DEF Reorder, r
<1>7. CASE ~(i < Len(r))
  BY <1>1, <1>3, <1>5, <1>7, Appended DEF Reorder, r
<1> QED BY <1>6, <1>7

-----------------------------------------------------------------------------
(***************************************************************************)
(* The widgets. What is done to them keeps the references, the signals and *)
(* the idle functions, and neither makes a widget nor takes one away.      *)
(***************************************************************************)
Repaints(u, v) ==
  /\ v \in Mains
  /\ v.idles = u.idles
  /\ ToSet(u.box) \subseteq ToSet(v.box)
  /\ \A o \in Ops :
       /\ v.info[o].refs = u.info[o].refs
       /\ v.info[o].finished = u.info[o].finished
       /\ v.info[o].source = u.info[o].source
       /\ v.info[o].atIdle = u.info[o].atIdle
       /\ Displayed(v, o) <=> Displayed(u, o)
       /\ v.widget[o].state = "none" <=> u.widget[o].state = "none"
       /\ ~Displayed(u, o) => v.info[o].waiting = u.info[o].waiting
       /\ InfoShown(u, o) => InfoShown(v, o)

SameStates(u, v) == \A o \in Ops : v.widget[o].state = u.widget[o].state

LEMMA RepaintsTransitive ==
  ASSUME NEW u, NEW v, NEW w, Repaints(u, v), Repaints(v, w)
  PROVE  Repaints(u, w)
BY DEF Repaints

LEMMA RepaintsReflexive ==
  ASSUME NEW u \in Mains
  PROVE  Repaints(u, u) /\ SameStates(u, u)
BY DEF Repaints, SameStates

LEMMA RepaintsKeepsOp ==
  ASSUME NEW u, NEW p, NEW l, NEW v, NEW o \in Ops, OpInv(u, p, l, o), Repaints(u, v)
  PROVE  OpInv(v, p, l, o)
<1>1. u.widget[o].state = "gone" <=> v.widget[o].state = "gone"
  BY DEF Repaints, Displayed
<1>2. v.idles = u.idles
  BY DEF Repaints
<1>3. RefsExact(v, p, o)
  BY DEF OpInv, RefsExact, Repaints
<1>4. SourceExact(v, p, o)
  BY DEF OpInv, SourceExact, Repaints
<1>5. Due(v, p, o)
  BY <1>1 DEF OpInv, Due, Repaints
<1>6. Undisplayed(v, p, l, o)
  BY DEF OpInv, Undisplayed, Repaints, Displayed
<1>7. Called(v, p, o)
  BY <1>2 DEF OpInv, Called, Posted, Repaints
<1>8. InfoShown(v, o)
  BY DEF OpInv, Repaints
<1> QED BY <1>3, <1>4, <1>5, <1>6, <1>7, <1>8 DEF OpInv

\* All but what concerns one operation.
Others(u, p, l, o) ==
  /\ u \in Mains
  /\ \A q \in Ops \ {o} : OpInv(u, p, l, q)
  /\ EmittedInPlace(u.idles, Unseen(u)) /\ Boxed(u)

LEMMA RepaintsKeepsOthers ==
  ASSUME NEW u, NEW p, NEW l, NEW v, NEW o, Others(u, p, l, o), Repaints(u, v)
  PROVE  Others(v, p, l, o)
<1>1. \A q \in Ops \ {o} : OpInv(v, p, l, q)
  BY RepaintsKeepsOp DEF Others
<1>2. v.idles = u.idles /\ Unseen(v) = Unseen(u)
  BY DEF Repaints, Unseen
<1>3. Boxed(v)
  BY DEF Others, Boxed, Repaints
<1> QED BY <1>1, <1>2, <1>3 DEF Others, Repaints

LEMMA RepaintsKeeps ==
  ASSUME NEW u, NEW p, NEW l, NEW v, StateInv(u, p, l), Repaints(u, v)
  PROVE  StateInv(v, p, l)
<1>1. \A o \in Ops : OpInv(v, p, l, o)
  BY RepaintsKeepsOp DEF StateInv
<1>2. v.idles = u.idles /\ Unseen(v) = Unseen(u)
  BY DEF Repaints, Unseen
<1>3. Boxed(v)
  BY DEF StateInv, Boxed, Repaints
<1> QED BY <1>1, <1>2, <1>3 DEF StateInv, Repaints

\* A widget shows another state, and its thread is told so.
Showing(u, o, state, waits) ==
  [u EXCEPT !.widget[o].state = state, !.info[o].waiting = waits]

LEMMA Shows ==
  ASSUME NEW u \in Mains, NEW o \in Ops, Displayed(u, o), NEW state \in States,
         NEW waits \in BOOLEAN,
         state \in {"initialized", "running"} => ~waits,
         state \notin {"initialized", "running"} => waits \/ u.info[o].cancelled,
         NEW v, v = Showing(u, o, state, waits)
  PROVE  /\ Repaints(u, v) /\ InfoShown(v, o)
         /\ v.widget[o].state = state
         /\ \A q \in Ops \ {o} : v.widget[q].state = u.widget[q].state
<1>1. /\ u.info \in [Ops -> Infos] /\ u.widget \in [Ops -> Widgets]
      /\ u.box \in Seq(Ops) /\ u.idles \in Seq(IdleFunctions)
  BY DEF Mains
<1>2. /\ v.box = u.box /\ v.idles = u.idles
      /\ v.info = [u.info EXCEPT ![o].waiting = waits]
      /\ v.widget = [u.widget EXCEPT ![o].state = state]
      /\ v = [info |-> v.info, widget |-> v.widget, box |-> v.box, idles |-> v.idles]
  BY DEF Mains, Showing
<1>3. /\ u.info[o] \in Infos /\ u.widget[o] \in Widgets
      /\ v.info[o] = [u.info[o] EXCEPT !.waiting = waits]
      /\ v.widget[o] = [u.widget[o] EXCEPT !.state = state]
      /\ \A q \in Ops \ {o} : v.info[q] = u.info[q] /\ v.widget[q] = u.widget[q]
  BY <1>1, <1>2
<1>4. /\ v.info[o] \in Infos /\ v.widget[o] \in Widgets
      /\ v.info[o].waiting = waits /\ v.widget[o].state = state
      /\ v.info[o].refs = u.info[o].refs
      /\ v.info[o].finished = u.info[o].finished
      /\ v.info[o].source = u.info[o].source
      /\ v.info[o].atIdle = u.info[o].atIdle
      /\ v.info[o].cancelled = u.info[o].cancelled
  BY <1>3 DEF Infos, Widgets
<1>5. v.info \in [Ops -> Infos] /\ v.widget \in [Ops -> Widgets]
  BY <1>1, <1>2, <1>3, <1>4
<1>6. v \in Mains
  BY <1>1, <1>2, <1>5 DEF Mains
<1>7. Displayed(v, o) /\ InfoShown(v, o) /\ state # "none"
  BY <1>4 DEF Displayed, InfoShown, States
<1>8. u.widget[o].state # "none"
  BY DEF Displayed
<1>9. ASSUME NEW q \in Ops \ {o}
      PROVE  /\ Displayed(v, q) <=> Displayed(u, q)
             /\ InfoShown(u, q) => InfoShown(v, q)
  BY <1>3 DEF Displayed, InfoShown
<1> QED
  <2>1. ASSUME NEW q \in Ops
        PROVE  /\ v.info[q].refs = u.info[q].refs
               /\ v.info[q].finished = u.info[q].finished
               /\ v.info[q].source = u.info[q].source
               /\ v.info[q].atIdle = u.info[q].atIdle
               /\ Displayed(v, q) <=> Displayed(u, q)
               /\ v.widget[q].state = "none" <=> u.widget[q].state = "none"
               /\ ~Displayed(u, q) => v.info[q].waiting = u.info[q].waiting
               /\ InfoShown(u, q) => InfoShown(v, q)
    <3>1. CASE q = o
      BY <1>4, <1>7, <1>8, <3>1
    <3>2. CASE q # o
      BY <1>3, <1>9, <3>2
    <3> QED BY <3>1, <3>2
  <2> QED BY <1>2, <1>3, <1>4, <1>6, <1>7, <2>1 DEF Repaints

\* Its buttons change, or whether it can be paused.
LEMMA ButtonsChange ==
  ASSUME NEW u \in Mains, NEW o \in Ops, NEW off \in BOOLEAN, NEW can \in BOOLEAN,
         NEW v, v = [u EXCEPT !.widget[o].startOff = off, !.info[o].canPause = can]
  PROVE  Repaints(u, v) /\ SameStates(u, v)
<1>1. /\ u.info \in [Ops -> Infos] /\ u.widget \in [Ops -> Widgets]
      /\ u.box \in Seq(Ops) /\ u.idles \in Seq(IdleFunctions)
  BY DEF Mains
<1>2. /\ v.box = u.box /\ v.idles = u.idles
      /\ v.info = [u.info EXCEPT ![o].canPause = can]
      /\ v.widget = [u.widget EXCEPT ![o].startOff = off]
      /\ v = [info |-> v.info, widget |-> v.widget, box |-> v.box, idles |-> v.idles]
  BY DEF Mains
<1>3. ASSUME NEW q \in Ops
      PROVE  /\ v.info[q] \in Infos /\ v.widget[q] \in Widgets
             /\ v.info[q].waiting = u.info[q].waiting
             /\ v.widget[q].state = u.widget[q].state
             /\ v.info[q].refs = u.info[q].refs
             /\ v.info[q].finished = u.info[q].finished
             /\ v.info[q].source = u.info[q].source
             /\ v.info[q].atIdle = u.info[q].atIdle
             /\ v.info[q].cancelled = u.info[q].cancelled
  <2>1. u.info[q] \in Infos /\ u.widget[q] \in Widgets
    BY <1>1
  <2>2. CASE q = o
    <3>1. /\ v.info[q] = [u.info[q] EXCEPT !.canPause = can]
          /\ v.widget[q] = [u.widget[q] EXCEPT !.startOff = off]
      BY <1>1, <1>2, <2>2
    <3> QED BY <2>1, <3>1 DEF Infos, Widgets
  <2>3. CASE q # o
    <3>1. v.info[q] = u.info[q] /\ v.widget[q] = u.widget[q]
      BY <1>1, <1>2, <2>3
    <3> QED BY <2>1, <3>1
  <2> QED BY <2>2, <2>3
<1>4. v.info \in [Ops -> Infos] /\ v.widget \in [Ops -> Widgets]
  BY <1>1, <1>2, <1>3
<1>5. v \in Mains
  BY <1>1, <1>2, <1>4 DEF Mains
<1>6. \A q \in Ops : (Displayed(v, q) <=> Displayed(u, q)) /\ (InfoShown(u, q) => InfoShown(v, q))
  BY <1>3 DEF Displayed, InfoShown
<1> QED BY <1>2, <1>3, <1>5, <1>6 DEF Repaints, SameStates

LEMMA ButtonsUpdated ==
  ASSUME NEW u \in Mains, NEW o \in Ops
  PROVE  Repaints(u, UpdateButtons(u, o)) /\ SameStates(u, UpdateButtons(u, o))
<1>1. CASE u.widget[o].state \in {"running", "queuing"} /\ ~u.info[o].canPause
  <2>1. UpdateButtons(u, o) = [u EXCEPT !.widget[o].startOff = TRUE]
    BY <1>1 DEF UpdateButtons
  <2>2. [u EXCEPT !.widget[o].startOff = TRUE]
          = [u EXCEPT !.widget[o].startOff = TRUE, !.info[o].canPause = u.info[o].canPause]
    BY DEF Mains, Infos
  <2>3. u.info[o].canPause \in BOOLEAN
    BY DEF Mains, Infos
  <2> QED BY <2>1, <2>2, <2>3, ButtonsChange
<1>2. CASE ~(u.widget[o].state \in {"running", "queuing"} /\ ~u.info[o].canPause)
  <2>1. UpdateButtons(u, o) = u
    BY <1>2 DEF UpdateButtons
  <2> QED BY <2>1, RepaintsReflexive
<1> QED BY <1>1, <1>2

\* A widget moves to another place in the box.
LEMMA BoxChanges ==
  ASSUME NEW u \in Mains, NEW o \in ToSet(u.box), NEW i \in Nat,
         NEW v, v = [u EXCEPT !.box = Reorder(@, o, i)]
  PROVE  Repaints(u, v) /\ SameStates(u, v)
<1>1. /\ v.box = Reorder(u.box, o, i) /\ v.info = u.info /\ v.widget = u.widget
      /\ v.idles = u.idles
      /\ v = [info |-> v.info, widget |-> v.widget, box |-> v.box, idles |-> v.idles]
  BY DEF Mains
<1>2. v.box \in Seq(Ops) /\ ToSet(u.box) \subseteq ToSet(v.box)
  BY <1>1, Reordered DEF Mains
<1>3. v \in Mains
  BY <1>1, <1>2 DEF Mains
<1> QED BY <1>1, <1>2, <1>3 DEF Repaints, SameStates, Displayed, InfoShown

\* How many widgets are above is a number.
LEMMA AboveIsNumber ==
  ASSUME NEW u \in Mains, NEW o \in Ops
  PROVE  Above(u, o) \in Nat
<1> DEFINE I == {i \in 1 .. Len(u.box) : u.box[i] # o /\ Stopped(u.widget[u.box[i]].state)}
           first == SelectInSeq(u.box, LAMBDA p : p # o /\ Stopped(u.widget[p].state))
<1>1. Len(u.box) \in Nat
  BY LenProperties DEF Mains
<1>2. first = 0 \/ first \in 1 .. Len(u.box)
  <2>1. CASE I = {}
    BY <2>1 DEF SelectInSeq
  <2>2. CASE I # {}
    <3>1. I \in SUBSET Nat
      BY <1>1
    <3>2. Min(I) \in I
      BY <2>2, <3>1, Smallest
    <3>3. first = Min(I)
      BY <2>2 DEF SelectInSeq
    <3> QED BY <3>2, <3>3
  <2> QED BY <2>1, <2>2
<1>3. Above(u, o) = IF first = 0 THEN Len(u.box) ELSE first - 1
  BY DEF Above
<1> HIDE DEF first
<1> QED BY <1>1, <1>2, <1>3

LEMMA Repositioned ==
  ASSUME NEW u \in Mains, NEW o \in ToSet(u.box)
  PROVE  /\ Repaints(u, RepositionAsPaused(u, o)) /\ SameStates(u, RepositionAsPaused(u, o))
         /\ Repaints(u, RepositionAsRunning(u, o)) /\ SameStates(u, RepositionAsRunning(u, o))
         /\ Repaints(u, RepositionAsQueued(u, o)) /\ SameStates(u, RepositionAsQueued(u, o))
<1>1. u.box \in Seq(Ops) /\ Len(u.box) \in Nat /\ DOMAIN u.box = 1 .. Len(u.box)
  BY LenProperties DEF Mains
<1>2. o \in Ops /\ Len(u.box) > 0
  BY <1>1, ElementOfSeq DEF ToSet
<1>3. Above(u, o) \in Nat
  BY <1>2, AboveIsNumber
<1>4. /\ (IF Above(u, o) = 0 THEN Len(u.box) ELSE Above(u, o) - 1) \in Nat
      /\ Len(u.box) - 1 \in Nat
  BY <1>1, <1>2, <1>3
<1>5. Repaints(u, RepositionAsPaused(u, o)) /\ SameStates(u, RepositionAsPaused(u, o))
  BY <1>4, BoxChanges DEF RepositionAsPaused
<1>6. Repaints(u, RepositionAsQueued(u, o)) /\ SameStates(u, RepositionAsQueued(u, o))
  BY <1>4, BoxChanges DEF RepositionAsQueued
<1>7. Repaints(u, RepositionAsRunning(u, o)) /\ SameStates(u, RepositionAsRunning(u, o))
  <2>1. CASE \E k \in 1 .. Above(u, o) : u.box[k] = o
    BY <2>1, RepaintsReflexive DEF RepositionAsRunning
  <2>2. CASE ~\E k \in 1 .. Above(u, o) : u.box[k] = o
    <3>1. RepositionAsRunning(u, o) = [u EXCEPT !.box = Reorder(@, o, Above(u, o))]
      BY <2>2 DEF RepositionAsRunning
    <3> QED BY <1>3, <3>1, BoxChanges
  <2> QED BY <2>1, <2>2
<1> QED BY <1>5, <1>6, <1>7

\* A widget runs, and so does its thread.
LEMMA RunningShown ==
  ASSUME NEW u \in Mains, NEW o \in Ops, Displayed(u, o), o \in ToSet(u.box),
         NEW v, v = ToRunning(u, o)
  PROVE  Repaints(u, v) /\ InfoShown(v, o) /\ v.widget[o].state = "running"
<1> DEFINE a == [u EXCEPT !.widget[o].state = "running", !.info[o].waiting = FALSE]
           b == RepositionAsRunning(a, o)
<1>1. Repaints(u, a) /\ InfoShown(a, o) /\ a.widget[o].state = "running"
  <2>1. a = Showing(u, o, "running", FALSE)
    BY DEF Showing
  <2> HIDE DEF a
  <2>2. "running" \in States /\ FALSE \in BOOLEAN
    BY DEF States
  <2>3. "running" \in {"initialized", "running"}
    OBVIOUS
  <2>4. Repaints(u, a)
    BY <2>1, <2>2, <2>3, Shows
  <2>5. InfoShown(a, o)
    BY <2>1, <2>2, <2>3, Shows
  <2>6. a.widget[o].state = "running"
    BY <2>1 DEF Showing, Mains, Widgets
  <2> QED BY <2>4, <2>5, <2>6
<1> HIDE DEF a
<1>2. a \in Mains /\ o \in ToSet(a.box)
  BY <1>1 DEF Repaints
<1>3. Repaints(a, b) /\ SameStates(a, b)
  BY <1>2, Repositioned
<1> HIDE DEF b
<1>4. b \in Mains
  BY <1>3 DEF Repaints
<1>5. Repaints(b, UpdateButtons(b, o)) /\ SameStates(b, UpdateButtons(b, o))
  BY <1>4, ButtonsUpdated
<1>6. v = UpdateButtons(b, o)
  BY DEF ToRunning, a, b
<1>7. Repaints(a, v) /\ SameStates(a, v)
  BY <1>3, <1>5, <1>6, RepaintsTransitive DEF SameStates
<1>8. Repaints(u, v)
  BY <1>1, <1>7, RepaintsTransitive
<1>9. InfoShown(v, o) /\ v.widget[o].state = "running"
  BY <1>1, <1>7 DEF Repaints, SameStates
<1> QED BY <1>8, <1>9

\* A widget that runs is going to stop, and so is its thread.
LEMMA PendingShown ==
  ASSUME NEW u \in Mains, NEW o \in Ops, Displayed(u, o), NEW state \in {"pausing", "queuing"}
  PROVE  Repaints(u, ToPending(u, o, state))
<1> DEFINE a == [u EXCEPT !.widget[o].state = state, !.info[o].waiting = TRUE]
<1>1. Repaints(u, a)
  <2>1. a = Showing(u, o, state, TRUE)
    BY DEF Showing
  <2> HIDE DEF a
  <2>2. state \in States /\ TRUE \in BOOLEAN
    BY DEF States
  <2> QED BY <2>1, <2>2, Shows
<1> HIDE DEF a
<1>2. Repaints(a, UpdateButtons(a, o))
  BY <1>1, ButtonsUpdated DEF Repaints
<1> QED BY <1>1, <1>2, RepaintsTransitive DEF ToPending, a

\* What update_queue finds is a widget in the box.
LEMMA QueuedFound ==
  ASSUME NEW u \in Mains
  PROVE  /\ FirstQueued(u) # 0 =>
              /\ u.box[FirstQueued(u)] \in ToSet(u.box)
              /\ u.box[FirstQueued(u)] \in Ops
              /\ Displayed(u, u.box[FirstQueued(u)])
         /\ (\E o \in ToSet(u.box) : u.widget[o].state = "queued") => FirstQueued(u) # 0
<1> DEFINE I == {i \in 1 .. Len(u.box) : u.widget[u.box[i]].state \in {"queued", "queuing"}}
<1>1. u.box \in Seq(Ops) /\ Len(u.box) \in Nat /\ DOMAIN u.box = 1 .. Len(u.box)
  BY LenProperties DEF Mains
<1>2. FirstQueued(u) = IF I = {} THEN 0 ELSE Min(I)
  BY DEF FirstQueued, SelectInSeq
<1>3. I # {} => Min(I) \in I
  <2>1. I \in SUBSET Nat
    BY <1>1
  <2> QED BY <2>1, Smallest
<1>4. FirstQueued(u) # 0 => FirstQueued(u) \in I
  BY <1>2, <1>3
<1>5. I # {} => FirstQueued(u) # 0
  <2>1. I \subseteq 1 .. Len(u.box)
    OBVIOUS
  <2> HIDE DEF I
  <2>2. \A i \in 1 .. Len(u.box) : i # 0
    BY <1>1
  <2> QED BY <1>2, <1>3, <2>1, <2>2
<1>6. (\E o \in ToSet(u.box) : u.widget[o].state = "queued") => I # {}
  BY <1>1 DEF ToSet
<1>7. ASSUME NEW k \in I
      PROVE  u.box[k] \in ToSet(u.box) /\ u.box[k] \in Ops /\ Displayed(u, u.box[k])
  BY <1>1, <1>7, ElementOfSeq DEF ToSet, Displayed
<1> QED BY <1>4, <1>5, <1>6, <1>7

\* Afterwards a widget runs, if one ran or was queued.
LEMMA QueueUpdated ==
  ASSUME NEW u \in Mains
  PROVE  /\ Repaints(u, UpdateQueue(u))
         /\ (\E o \in ToSet(u.box) : u.widget[o].state = "queued") => Running(UpdateQueue(u)) # {}
<1>1. CASE Running(u) = {} /\ FirstQueued(u) # 0
  <2> DEFINE q == u.box[FirstQueued(u)]
  <2>1. q \in ToSet(u.box) /\ q \in Ops /\ Displayed(u, q)
    BY <1>1, QueuedFound
  <2>2. UpdateQueue(u) = ToRunning(u, q)
    BY <1>1 DEF UpdateQueue
  <2> HIDE DEF q
  <2>3. Repaints(u, UpdateQueue(u)) /\ UpdateQueue(u).widget[q].state = "running"
    BY <2>1, <2>2, RunningShown
  <2>4. q \in Running(UpdateQueue(u))
    BY <2>1, <2>3 DEF Running, Shown, Stopped
  <2> QED BY <2>3, <2>4
<1>2. CASE ~(Running(u) = {} /\ FirstQueued(u) # 0)
  BY <1>2, RepaintsReflexive, QueuedFound DEF UpdateQueue
<1> QED BY <1>1, <1>2

\* A widget that was going to stop has stopped.
LEMMA PausedShown ==
  ASSUME NEW u \in Mains, NEW o \in Ops, u.widget[o].state = "pausing", InfoShown(u, o),
         o \in ToSet(u.box)
  PROVE  Repaints(u, ToPaused(u, o))
<1> DEFINE a == [u EXCEPT !.widget[o].state = "paused"]
           b == RepositionAsPaused(a, o)
           c == UpdateQueue(b)
<1>1. Repaints(u, a)
  <2>1. Displayed(u, o) /\ u.info[o].waiting \in BOOLEAN
        /\ (u.info[o].waiting \/ u.info[o].cancelled)
    BY DEF Displayed, InfoShown, Mains, Infos
  <2>2. a = Showing(u, o, "paused", u.info[o].waiting)
    <3>1. [u EXCEPT !.widget[o].state = "paused"]
            = [u EXCEPT !.widget[o].state = "paused", !.info[o].waiting = u.info[o].waiting]
      BY DEF Mains, Infos
    <3> QED BY <3>1 DEF Showing
  <2> HIDE DEF a
  <2>3. "paused" \in States
    BY DEF States
  <2> QED BY <2>1, <2>2, <2>3, Shows
<1> HIDE DEF a
<1>2. a \in Mains /\ o \in ToSet(a.box)
  BY <1>1 DEF Repaints
<1>3. Repaints(a, b)
  BY <1>2, Repositioned
<1> HIDE DEF b
<1>4. Repaints(b, c)
  BY <1>3, QueueUpdated DEF Repaints
<1> HIDE DEF c
<1>5. Repaints(c, UpdateButtons(c, o))
  BY <1>4, ButtonsUpdated DEF Repaints
<1>6. ToPaused(u, o) = UpdateButtons(c, o)
  BY DEF ToPaused, a, b, c
<1> QED BY <1>1, <1>3, <1>4, <1>5, <1>6, RepaintsTransitive

\* A widget is queued; then some widget runs.
LEMMA QueuedShown ==
  ASSUME NEW u \in Mains, NEW o \in Ops, Displayed(u, o), o \in ToSet(u.box),
         NEW v, v = ToQueued(u, o)
  PROVE  Repaints(u, v) /\ InfoShown(v, o) /\ Running(v) # {}
<1> DEFINE a == [u EXCEPT !.widget[o].state = "queued", !.info[o].waiting = TRUE]
           b == RepositionAsQueued(a, o)
           c == UpdateQueue(b)
<1>1. Repaints(u, a) /\ InfoShown(a, o) /\ a.widget[o].state = "queued"
  <2>1. a = Showing(u, o, "queued", TRUE)
    BY DEF Showing
  <2> HIDE DEF a
  <2>2. "queued" \in States /\ TRUE \in BOOLEAN
    BY DEF States
  <2>3. "queued" \notin {"initialized", "running"}
    OBVIOUS
  <2>4. Repaints(u, a)
    BY <2>1, <2>2, <2>3, Shows
  <2>5. InfoShown(a, o)
    BY <2>1, <2>2, <2>3, Shows
  <2>6. a.widget[o].state = "queued"
    BY <2>1 DEF Showing, Mains, Widgets
  <2> QED BY <2>4, <2>5, <2>6
<1> HIDE DEF a
<1>2. a \in Mains /\ o \in ToSet(a.box)
  BY <1>1 DEF Repaints
<1>3. Repaints(a, b) /\ SameStates(a, b)
  BY <1>2, Repositioned
<1> HIDE DEF b
<1>4. b \in Mains /\ o \in ToSet(b.box) /\ b.widget[o].state = "queued"
  BY <1>1, <1>2, <1>3 DEF Repaints, SameStates
<1>5. Repaints(b, c) /\ Running(c) # {}
  BY <1>4, QueueUpdated
<1> HIDE DEF c
<1>6. Repaints(c, UpdateButtons(c, o)) /\ SameStates(c, UpdateButtons(c, o))
  BY <1>5, ButtonsUpdated DEF Repaints
<1>7. v = UpdateButtons(c, o)
  BY DEF ToQueued, a, b, c
<1>8. Repaints(a, v) /\ Repaints(u, v)
  BY <1>1, <1>3, <1>5, <1>6, <1>7, RepaintsTransitive
<1>9. InfoShown(v, o)
  BY <1>1, <1>8 DEF Repaints
<1>10. Running(v) = Running(c)
  BY <1>6, <1>7 DEF Running, Shown, SameStates
<1> QED BY <1>5, <1>8, <1>9, <1>10

\* do_disable_pause
LEMMA PauseDisabled ==
  ASSUME NEW u \in Mains, NEW o \in Ops
  PROVE  Repaints(u, DisablePause(u, o))
<1> DEFINE a == [u EXCEPT !.info[o].canPause = FALSE]
<1>1. a = [u EXCEPT !.widget[o].startOff = u.widget[o].startOff, !.info[o].canPause = FALSE]
  BY DEF Mains, Widgets
<1>2. u.widget[o].startOff \in BOOLEAN
  BY DEF Mains, Widgets
<1>3. Repaints(u, a)
  BY <1>1, <1>2, ButtonsChange
<1> HIDE DEF a
<1>4. Repaints(a, UpdateButtons(a, o))
  BY <1>3, ButtonsUpdated DEF Repaints
<1> QED BY <1>3, <1>4, RepaintsTransitive DEF DisablePause, a

-----------------------------------------------------------------------------
(***************************************************************************)
(* The idle functions.                                                     *)
(***************************************************************************)
\* What is left of a sequence when what it has at k is taken away.
LEMMA RemovedElements ==
  ASSUME NEW S, NEW s \in Seq(S), NEW k \in DOMAIN s
  PROVE  /\ ToSet(RemoveAt(s, k)) \subseteq ToSet(s)
         /\ \A e \in ToSet(s) : e # s[k] => e \in ToSet(RemoveAt(s, k))
<1> DEFINE t == RemoveAt(s, k)
<1>1. Len(s) \in Nat /\ DOMAIN s = 1 .. Len(s)
  BY LenProperties
<1>2. /\ t \in Seq(S) /\ Len(t) = Len(s) - 1
      /\ \A n \in 1 .. Len(s) - 1 : t[n] = s[IF n < k THEN n ELSE n + 1]
  BY <1>1, Removal
<1> HIDE DEF t
<1>3. DOMAIN t = 1 .. Len(s) - 1
  BY <1>2, LenProperties
<1>4. \A n \in 1 .. Len(s) - 1 : (IF n < k THEN n ELSE n + 1) \in 1 .. Len(s)
  BY <1>1
<1>5. ToSet(t) \subseteq ToSet(s)
  BY <1>1, <1>2, <1>3, <1>4 DEF ToSet
<1>6. ASSUME NEW n \in 1 .. Len(s), s[n] # s[k]
      PROVE  s[n] \in ToSet(t)
  <2>1. CASE n < k
    <3>1. n \in 1 .. Len(s) - 1 /\ t[n] = s[n]
      BY <1>1, <1>2, <2>1
    <3> QED BY <1>3, <3>1 DEF ToSet
  <2>2. CASE ~(n < k)
    <3>1. n # k
      BY <1>6
    <3>2. n - 1 \in 1 .. Len(s) - 1 /\ ~(n - 1 < k) /\ (n - 1) + 1 = n
      BY <1>1, <2>2, <3>1
    <3>3. t[n - 1] = s[n]
      BY <1>2, <3>2
    <3> QED BY <1>3, <3>2, <3>3 DEF ToSet
  <2> QED BY <2>1, <2>2
<1> QED BY <1>1, <1>5, <1>6 DEF ToSet, t

LEMMA TailRemoves ==
  ASSUME NEW S, NEW s \in Seq(S), s # << >>
  PROVE  1 \in DOMAIN s /\ Head(s) = s[1] /\ Tail(s) = RemoveAt(s, 1)
<1>1. /\ Tail(s) \in Seq(S) /\ Len(Tail(s)) = Len(s) - 1
      /\ \A i \in 1 .. Len(Tail(s)) : Tail(s)[i] = s[i + 1]
  BY HeadTailProperties
<1>2. Len(s) \in Nat /\ DOMAIN s = 1 .. Len(s) /\ Len(s) # 0
  BY LenProperties, EmptySeq
<1>3. 1 \in 1 .. Len(s)
  BY <1>2
<1>4. /\ RemoveAt(s, 1) \in Seq(S) /\ Len(RemoveAt(s, 1)) = Len(s) - 1
      /\ \A n \in 1 .. Len(s) - 1 : RemoveAt(s, 1)[n] = s[IF n < 1 THEN n ELSE n + 1]
  BY <1>3, Removal
<1>5. \A n \in 1 .. Len(s) - 1 : (IF n < 1 THEN n ELSE n + 1) = n + 1
  BY <1>2
<1>6. Tail(s) = RemoveAt(s, 1)
  BY <1>1, <1>4, <1>5, SeqEqual
<1>7. Head(s) = s[1]
  OBVIOUS
<1> QED BY <1>2, <1>3, <1>6, <1>7

LEMMA EmissionIsOne ==
  /\ \A o \in Ops : Emission(o) \in IdleFunctions /\ Emission(o).kind = "emit" /\ Emission(o).op = o
  /\ \A i \in IdleFunctions : i.op \in Ops /\ (i.kind = "emit" => i = Emission(i.op))
  /\ \A o, q \in Ops : Emission(o) = Emission(q) => o = q
<1>1. \A o : Emission(o).kind = "emit" /\ Emission(o).op = o
  BY DEF Emission
<1>2. \A o \in Ops : Emission(o) \in IdleFunctions
  BY DEF Emission, IdleFunctions
<1>3. ASSUME NEW i \in IdleFunctions
      PROVE  i.op \in Ops /\ (i.kind = "emit" => i = Emission(i.op))
  <2>1. CASE i \in [kind : {"notify", "off"}, op : Ops, widget : BOOLEAN]
    <3>1. i.op \in Ops /\ i.kind \in {"notify", "off"}
      BY <2>1
    <3> QED BY <3>1
  <2>2. CASE i \in [kind : {"emit"}, op : Ops, widget : {TRUE}]
    <3>1. i.op \in Ops /\ i.kind = "emit" /\ i.widget = TRUE
          /\ i = [kind |-> i.kind, op |-> i.op, widget |-> i.widget]
      BY <2>2
    <3> QED BY <3>1 DEF Emission
  <2> QED BY <2>1, <2>2 DEF IdleFunctions
<1> QED BY <1>1, <1>2, <1>3

\* Other operations come to be displayed, whose signals were given.
LEMMA InPlaceSeen ==
  ASSUME NEW s \in Seq(IdleFunctions), NEW N, NEW M, EmittedInPlace(s, N),
         \A o \in Ops : (o \in N <=> o \in M) \/ Emission(o) \notin ToSet(s)
  PROVE  EmittedInPlace(s, M)
<1>1. DOMAIN s = 1 .. Len(s) /\ \A k \in DOMAIN s : s[k] \in IdleFunctions
  BY ElementOfSeq, LenProperties
<1>2. \A k \in DOMAIN s : s[k].op \in Ops /\ (s[k].kind = "emit" => Emission(s[k].op) \in ToSet(s))
  BY <1>1, EmissionIsOne DEF ToSet
<1> QED
  <2> SUFFICES ASSUME NEW j \in DOMAIN s, NEW k \in DOMAIN s, j < k, s[j].op = s[k].op
               PROVE  /\ s[j].kind = "emit" => s[k].kind # "emit" /\ s[k].op \in M
                      /\ s[k].kind = "emit" => s[j].op \notin M
    BY DEF EmittedInPlace
  <2>1. /\ s[j].kind = "emit" => s[k].kind # "emit" /\ s[k].op \in N
        /\ s[k].kind = "emit" => s[j].op \notin N
    BY DEF EmittedInPlace
  <2> QED BY <1>2, <2>1

LEMMA InPlaceAppended ==
  ASSUME NEW s \in Seq(IdleFunctions), NEW N, EmittedInPlace(s, N), NEW i \in IdleFunctions,
         Emission(i.op) \in ToSet(s) => i.kind # "emit" /\ i.op \in N,
         i.kind = "emit" => i.op \notin N \/ \A e \in ToSet(s) : e.op # i.op
  PROVE  EmittedInPlace(Append(s, i), N)
<1> DEFINE t == Append(s, i)
<1>1. /\ t \in Seq(IdleFunctions) /\ Len(t) = Len(s) + 1
      /\ \A n \in 1 .. Len(s) : t[n] = s[n]
      /\ t[Len(s) + 1] = i
  BY AppendProperties
<1> HIDE DEF t
<1>2. DOMAIN s = 1 .. Len(s) /\ Len(s) \in Nat /\ DOMAIN t = 1 .. Len(s) + 1
  BY <1>1, LenProperties
<1>3. \A k \in DOMAIN s : s[k] \in ToSet(s) /\ (s[k].kind = "emit" => s[k] = Emission(s[k].op))
  BY <1>2, ElementOfSeq, EmissionIsOne DEF ToSet
<1>4. ASSUME NEW j \in DOMAIN t, NEW k \in DOMAIN t, j < k, t[j].op = t[k].op
      PROVE  /\ t[j].kind = "emit" => t[k].kind # "emit" /\ t[k].op \in N
             /\ t[k].kind = "emit" => t[j].op \notin N
  <2>1. j \in DOMAIN s /\ t[j] = s[j]
    BY <1>1, <1>2, <1>4
  <2>2. CASE k \in DOMAIN s
    <3>1. t[k] = s[k]
      BY <1>1, <1>2, <2>2
    <3> QED BY <1>4, <2>1, <2>2, <3>1 DEF EmittedInPlace
  <2>3. CASE k \notin DOMAIN s
    <3>1. t[k] = i
      BY <1>1, <1>2, <2>3
    <3> QED BY <1>3, <1>4, <2>1, <3>1
  <2> QED BY <2>2, <2>3
<1> QED BY <1>4 DEF EmittedInPlace, t

LEMMA InPlaceRemoved ==
  ASSUME NEW s \in Seq(IdleFunctions), NEW N, EmittedInPlace(s, N), NEW k \in DOMAIN s
  PROVE  /\ EmittedInPlace(RemoveAt(s, k), N)
         /\ \A o \in Ops : s[k] = Emission(o) => Emission(o) \notin ToSet(RemoveAt(s, k))
<1> DEFINE t == RemoveAt(s, k)
           m(n) == IF n < k THEN n ELSE n + 1
<1>1. Len(s) \in Nat /\ DOMAIN s = 1 .. Len(s)
  BY LenProperties
<1>2. /\ t \in Seq(IdleFunctions) /\ Len(t) = Len(s) - 1
      /\ \A n \in 1 .. Len(s) - 1 : t[n] = s[m(n)]
  BY <1>1, Removal
<1> HIDE DEF t
<1>3. DOMAIN t = 1 .. Len(s) - 1
  BY <1>2, LenProperties
<1>4. \A n \in 1 .. Len(s) - 1 : m(n) \in 1 .. Len(s) /\ m(n) # k
  BY <1>1
<1>5. \A j, n \in 1 .. Len(s) - 1 : j < n => m(j) < m(n)
  BY <1>1
<1> HIDE DEF m
<1>6. EmittedInPlace(t, N)
  <2> SUFFICES ASSUME NEW j \in DOMAIN t, NEW n \in DOMAIN t, j < n, t[j].op = t[n].op
               PROVE  /\ t[j].kind = "emit" => t[n].kind # "emit" /\ t[n].op \in N
                      /\ t[n].kind = "emit" => t[j].op \notin N
    BY DEF EmittedInPlace
  <2>1. /\ m(j) \in DOMAIN s /\ m(n) \in DOMAIN s /\ m(j) < m(n)
        /\ t[j] = s[m(j)] /\ t[n] = s[m(n)]
    BY <1>1, <1>2, <1>3, <1>4, <1>5
  <2> QED BY <2>1 DEF EmittedInPlace
<1>7. ASSUME NEW o \in Ops, s[k] = Emission(o), NEW n \in DOMAIN t, t[n] = Emission(o)
      PROVE  FALSE
  <2>1. m(n) \in DOMAIN s /\ s[m(n)] = Emission(o) /\ m(n) # k
    BY <1>1, <1>2, <1>3, <1>4, <1>7
  <2>2. m(n) < k \/ k < m(n)
    BY <1>1, <2>1
  <2>3. s[m(n)].kind = "emit" /\ s[k].kind = "emit" /\ s[m(n)].op = s[k].op
    BY <1>7, <2>1, EmissionIsOne
  <2> QED BY <2>1, <2>2, <2>3 DEF EmittedInPlace
<1> QED BY <1>6, <1>7 DEF ToSet, t

-----------------------------------------------------------------------------
(***************************************************************************)
(* What is done for one operation.                                         *)
(***************************************************************************)
\* Nothing changes for the other operations.
Leaves(u, v, o) ==
  /\ v \in Mains
  /\ \A q \in Ops \ {o} : v.info[q] = u.info[q] /\ v.widget[q] = u.widget[q]
  /\ \A i \in IdleFunctions : i.op # o => (i \in ToSet(u.idles) <=> i \in ToSet(v.idles))
  /\ ToSet(u.box) \ {o} \subseteq ToSet(v.box)

LEMMA OthersKept ==
  ASSUME NEW u, NEW p, NEW l, NEW v, NEW p2, NEW l2, NEW o \in Ops,
         Others(u, p, l, o), Leaves(u, v, o),
         \A q \in Ops \ {o} : p2[q] = p[q] /\ l2[q] = l[q],
         EmittedInPlace(v.idles, Unseen(v)), Displayed(v, o) => o \in ToSet(v.box)
  PROVE  Others(v, p2, l2, o)
<1>1. /\ u \in Mains /\ v \in Mains
      /\ ToSet(u.idles) \subseteq IdleFunctions /\ ToSet(v.idles) \subseteq IdleFunctions
  <2>1. u \in Mains /\ v \in Mains
    BY DEF Others, Leaves
  <2>2. u.idles \in Seq(IdleFunctions) /\ v.idles \in Seq(IdleFunctions)
    BY <2>1 DEF Mains
  <2> QED BY <2>1, <2>2, ElementOfSeq, LenProperties DEF ToSet
<1>2. ASSUME NEW q \in Ops \ {o}
      PROVE  OpInv(v, p2, l2, q)
  <2>1. OpInv(u, p, l, q) /\ v.info[q] = u.info[q] /\ v.widget[q] = u.widget[q]
        /\ p2[q] = p[q] /\ l2[q] = l[q]
    BY DEF Others, Leaves
  <2>2. Emission(q) \in ToSet(u.idles) <=> Emission(q) \in ToSet(v.idles)
    BY EmissionIsOne DEF Leaves
  <2>3. Posted(v, q) => Posted(u, q)
    BY <1>1 DEF Posted, Leaves
  <2>4. Displayed(v, q) <=> Displayed(u, q)
    BY <2>1 DEF Displayed
  <2>5. RefsExact(v, p2, q)
    BY <2>1, <2>4 DEF OpInv, RefsExact
  <2>6. SourceExact(v, p2, q)
    BY <2>1, <2>2, <2>4 DEF OpInv, SourceExact
  <2>7. Due(v, p2, q)
    BY <2>1, <2>4 DEF OpInv, Due
  <2>8. Undisplayed(v, p2, l2, q)
    BY <2>1 DEF OpInv, Undisplayed
  <2>9. Called(v, p2, q)
    BY <2>1, <2>3, <2>4 DEF OpInv, Called
  <2>10. InfoShown(v, q)
    BY <2>1 DEF OpInv, InfoShown
  <2> QED BY <2>5, <2>6, <2>7, <2>8, <2>9, <2>10 DEF OpInv
<1>3. Boxed(v)
  BY DEF Others, Leaves, Boxed, Displayed
<1> QED BY <1>1, <1>2, <1>3 DEF Others

LEMMA OthersStay ==
  ASSUME NEW u, NEW p, NEW l, NEW v, NEW o \in Ops, Others(u, p, l, o), Leaves(u, v, o),
         EmittedInPlace(v.idles, Unseen(v)), Displayed(v, o) => o \in ToSet(v.box)
  PROVE  Others(v, p, l, o)
BY OthersKept

LEMMA Apart ==
  ASSUME NEW u, NEW p, NEW l, NEW o \in Ops
  PROVE  StateInv(u, p, l) <=> Others(u, p, l, o) /\ OpInv(u, p, l, o)
BY DEF StateInv, Others

\* A change of what concerns the operation, and of nothing that is posted.
LEMMA OthersTouched ==
  ASSUME NEW u, NEW p, NEW l, NEW v, NEW p2, NEW l2, NEW o \in Ops,
         Others(u, p, l, o), Leaves(u, v, o), v.idles = u.idles,
         \A q \in Ops \ {o} : p2[q] = p[q] /\ l2[q] = l[q],
         \/ Emission(o) \notin ToSet(u.idles)
         \/ v.widget[o].state = "none" <=> u.widget[o].state = "none",
         Displayed(v, o) => o \in ToSet(v.box)
  PROVE  Others(v, p2, l2, o)
<1>1. u.idles \in Seq(IdleFunctions) /\ EmittedInPlace(u.idles, Unseen(u))
  BY DEF Others, Mains
<1>2. \A q \in Ops \ {o} : q \in Unseen(v) <=> q \in Unseen(u)
  BY DEF Leaves, Unseen
<1>3. EmittedInPlace(v.idles, Unseen(v))
  BY <1>1, <1>2, InPlaceSeen DEF Unseen
<1> QED BY <1>3, OthersKept

\* The parts of what replaces the information on an operation.
LEMMA Rebuilt ==
  ASSUME NEW u \in Mains, NEW o \in Ops, NEW i \in Infos, NEW w \in Widgets,
         NEW b \in Seq(Ops), NEW d \in Seq(IdleFunctions), NEW v,
         v = [info |-> [u.info EXCEPT ![o] = i], widget |-> [u.widget EXCEPT ![o] = w],
              box |-> b, idles |-> d]
  PROVE  /\ v \in Mains
         /\ v.info[o] = i /\ v.widget[o] = w /\ v.box = b /\ v.idles = d
         /\ \A q \in Ops \ {o} : v.info[q] = u.info[q] /\ v.widget[q] = u.widget[q]
BY DEF Mains

LEMMA InfoRebuilt ==
  ASSUME NEW u \in Mains, NEW o \in Ops, NEW i \in Infos, NEW d \in Seq(IdleFunctions), NEW v,
         v = [info |-> [u.info EXCEPT ![o] = i], widget |-> u.widget, box |-> u.box, idles |-> d]
  PROVE  /\ v \in Mains
         /\ v.info[o] = i /\ v.widget[o] = u.widget[o] /\ v.box = u.box /\ v.idles = d
         /\ \A q \in Ops \ {o} : v.info[q] = u.info[q] /\ v.widget[q] = u.widget[q]
BY DEF Mains

\* A reference goes that is not the last.
LEMMA UnrefMore ==
  ASSUME NEW u \in Mains, NEW o \in Ops, u.info[o].refs > 1, NEW v, v = Unref(u, o)
  PROVE  /\ Leaves(u, v, o)
         /\ v.idles = u.idles /\ v.box = u.box /\ v.widget[o] = u.widget[o]
         /\ v.info[o] = [u.info[o] EXCEPT !.refs = @ - 1]
<1> DEFINE i == [u.info[o] EXCEPT !.refs = @ - 1]
<1>1. /\ u.info \in [Ops -> Infos] /\ u.widget \in [Ops -> Widgets]
      /\ u.box \in Seq(Ops) /\ u.idles \in Seq(IdleFunctions)
      /\ u = [info |-> u.info, widget |-> u.widget, box |-> u.box, idles |-> u.idles]
  BY DEF Mains
<1>2. u.info[o] \in Infos /\ u.widget[o] \in Widgets
  BY <1>1
<1>3. i \in Infos
  BY <1>2 DEF Infos
<1>4. v = [u EXCEPT !.info[o].refs = @ - 1]
  BY DEF Unref
<1>6. v = [info |-> [u.info EXCEPT ![o] = i], widget |-> u.widget, box |-> u.box,
           idles |-> u.idles]
  BY <1>1, <1>4
<1> HIDE DEF i
<1>7. /\ v \in Mains
      /\ v.info[o] = i /\ v.widget[o] = u.widget[o] /\ v.box = u.box /\ v.idles = u.idles
      /\ \A q \in Ops \ {o} : v.info[q] = u.info[q] /\ v.widget[q] = u.widget[q]
  BY <1>1, <1>3, <1>6, InfoRebuilt
<1> QED BY <1>7 DEF Leaves, i

\* The first emission goes, if there is one.
LEMMA EmissionRemoved ==
  ASSUME NEW s \in Seq(IdleFunctions), NEW N, EmittedInPlace(s, N), NEW o \in Ops,
         NEW t, t = WithoutFirst(s, Emission(o))
  PROVE  /\ t \in Seq(IdleFunctions) /\ EmittedInPlace(t, N)
         /\ ToSet(t) \subseteq ToSet(s) /\ Emission(o) \notin ToSet(t)
         /\ \A i \in ToSet(s) : i # Emission(o) => i \in ToSet(t)
<1>1. DOMAIN s = 1 .. Len(s)
  BY LenProperties
<1>2. CASE t = s /\ \A n \in DOMAIN s : s[n] # Emission(o)
  BY <1>2 DEF ToSet
<1>3. CASE \E k \in DOMAIN s : s[k] = Emission(o) /\ t = RemoveAt(s, k)
  <2>1. PICK k \in DOMAIN s : s[k] = Emission(o) /\ t = RemoveAt(s, k)
    BY <1>3
  <2>2. t \in Seq(IdleFunctions)
    BY <1>1, <2>1, Removal
  <2>3. EmittedInPlace(t, N) /\ Emission(o) \notin ToSet(t)
    BY <2>1, InPlaceRemoved
  <2>4. ToSet(t) \subseteq ToSet(s) /\ \A e \in ToSet(s) : e # s[k] => e \in ToSet(t)
    BY <2>1, RemovedElements
  <2> QED BY <2>1, <2>2, <2>3, <2>4
<1> QED BY <1>2, <1>3, FirstRemoved

\* What baul_progress_info_dispose does.
Disposed(u, o) ==
  [u EXCEPT !.info[o].refs = 0, !.info[o].source = "none", !.info[o].atIdle = {},
            !.idles = WithoutFirst(@, Emission(o))]

LEMMA DisposedParts ==
  ASSUME NEW u \in Mains, NEW o \in Ops, NEW N, EmittedInPlace(u.idles, N),
         NEW v, v = Disposed(u, o)
  PROVE  /\ Leaves(u, v, o) /\ EmittedInPlace(v.idles, N)
         /\ v.widget = u.widget /\ v.box = u.box
         /\ v.info[o] = [u.info[o] EXCEPT !.refs = 0, !.source = "none", !.atIdle = {}]
         /\ ToSet(v.idles) \subseteq ToSet(u.idles) /\ Emission(o) \notin ToSet(v.idles)
<1> DEFINE d == WithoutFirst(u.idles, Emission(o))
<1>1. /\ u.info \in [Ops -> Infos] /\ u.widget \in [Ops -> Widgets]
      /\ u.box \in Seq(Ops) /\ u.idles \in Seq(IdleFunctions)
  BY DEF Mains
<1>2. /\ v.box = u.box /\ v.idles = d /\ v.widget = u.widget
      /\ v.info = [u.info EXCEPT ![o].refs = 0, ![o].source = "none", ![o].atIdle = {}]
      /\ v = [info |-> v.info, widget |-> v.widget, box |-> v.box, idles |-> v.idles]
  BY DEF Mains, Disposed
<1>3. d \in Seq(IdleFunctions)
      /\ EmittedInPlace(d, N)
      /\ ToSet(d) \subseteq ToSet(u.idles) /\ Emission(o) \notin ToSet(d)
      /\ \A e \in ToSet(u.idles) : e # Emission(o) => e \in ToSet(d)
  BY <1>1, EmissionRemoved
<1> HIDE DEF d
<1>4. /\ v.info[o] = [u.info[o] EXCEPT !.refs = 0, !.source = "none", !.atIdle = {}]
      /\ \A q \in Ops \ {o} : v.info[q] = u.info[q]
  BY <1>1, <1>2
<1>5. v.info[o] \in Infos
  <2>1. 0 \in Nat /\ {} \in SUBSET Signals /\ u.info[o] \in Infos
    BY <1>1
  <2> QED BY <1>4, <2>1 DEF Infos
<1>6. v.info \in [Ops -> Infos]
  BY <1>1, <1>2, <1>4, <1>5
<1>7. v \in Mains
  BY <1>1, <1>2, <1>3, <1>6 DEF Mains
<1>8. \A e \in IdleFunctions : e.op # o => (e \in ToSet(u.idles) <=> e \in ToSet(v.idles))
  BY <1>2, <1>3, EmissionIsOne
<1> QED BY <1>2, <1>3, <1>4, <1>7, <1>8 DEF Leaves

\* It is over.
LEMMA UnrefLast ==
  ASSUME NEW u, NEW p, NEW l, NEW o \in Ops, Others(u, p, l, o), p[o] = "over",
         u.info[o].refs = 1, u.info[o].finished, ~Displayed(u, o), ~Posted(u, o),
         u.widget[o].state = "none" => (u.info[o].waiting <=> o \in Queueable),
         NEW v, v = Unref(u, o)
  PROVE  StateInv(v, p, l)
<1>1. u \in Mains /\ EmittedInPlace(u.idles, Unseen(u)) /\ u.info[o] \in Infos
  BY DEF Others, Mains
<1>2. /\ Leaves(u, v, o) /\ EmittedInPlace(v.idles, Unseen(u))
      /\ v.widget = u.widget /\ v.box = u.box
      /\ v.info[o] = [u.info[o] EXCEPT !.refs = 0, !.source = "none", !.atIdle = {}]
      /\ ToSet(v.idles) \subseteq ToSet(u.idles) /\ Emission(o) \notin ToSet(v.idles)
  <2>1. v = Disposed(u, o)
    BY DEF Unref, Disposed
  <2> QED BY <1>1, <2>1, DisposedParts
<1>3. /\ v.info[o].refs = 0 /\ v.info[o].source = "none" /\ v.info[o].atIdle = {}
      /\ v.info[o].finished = u.info[o].finished /\ v.info[o].waiting = u.info[o].waiting
  BY <1>1, <1>2 DEF Infos
<1>9. Unseen(v) = Unseen(u)
  BY <1>2 DEF Unseen
<1>11. ~Displayed(v, o) /\ ~Posted(v, o)
  BY <1>2 DEF Displayed, Posted
<1>12. Others(v, p, l, o)
  BY <1>2, <1>9, <1>11, OthersKept
<1>13. OpInv(v, p, l, o)
  <2>1. RefsExact(v, p, o)
    BY <1>3, <1>11 DEF RefsExact
  <2>2. SourceExact(v, p, o)
    BY <1>2, <1>3 DEF SourceExact
  <2>3. Due(v, p, o)
    BY <1>11 DEF Due
  <2>4. Undisplayed(v, p, l, o)
    BY <1>2, <1>3 DEF Undisplayed
  <2>5. Called(v, p, o)
    BY <1>11 DEF Called
  <2>6. InfoShown(v, o)
    BY <1>11 DEF InfoShown, Displayed
  <2> QED BY <2>1, <2>2, <2>3, <2>4, <2>5, <2>6 DEF OpInv
<1> QED BY <1>12, <1>13, Apart

\* The source of an operation is about to give its signals: all of the invariant
\* holds but that its emission is posted.
Ready(u, p, l, o) ==
  /\ Others(u, p, l, o)
  /\ RefsExact(u, p, o) /\ Due(u, p, o) /\ Undisplayed(u, p, l, o) /\ Called(u, p, o)
  /\ InfoShown(u, o)
  /\ u.info[o].source # "none" /\ Emission(o) \notin ToSet(u.idles)
  /\ p[o] # "none" /\ (p[o] # "over" \/ Displayed(u, o))
  /\ u.info[o].source = "idle" /\ p[o] # "over" => "started" \in u.info[o].atIdle
  /\ "started" \in u.info[o].atIdle => u.widget[o].state = "none"
  /\ "finished" \in u.info[o].atIdle => p[o] = "over"
  /\ u.info[o].finished <=> p[o] = "over"
  /\ p[o] = "over" => ~Posted(u, o)

\* What the operations of Emit start from.
Referenced(u, o) ==
  [u EXCEPT !.info[o].source = "none", !.info[o].atIdle = {}, !.info[o].refs = @ + 1]

LEMMA ReferencedParts ==
  ASSUME NEW u \in Mains, NEW o \in Ops, NEW v, v = Referenced(u, o)
  PROVE  /\ Leaves(u, v, o)
         /\ v.idles = u.idles /\ v.box = u.box /\ v.widget[o] = u.widget[o]
         /\ v.info[o].refs = u.info[o].refs + 1
         /\ v.info[o].source = "none" /\ v.info[o].atIdle = {}
         /\ v.info[o].finished = u.info[o].finished /\ v.info[o].waiting = u.info[o].waiting
         /\ v.info[o].cancelled = u.info[o].cancelled
<1> DEFINE i == [u.info[o] EXCEPT !.source = "none", !.atIdle = {}, !.refs = @ + 1]
<1>1. /\ u.info \in [Ops -> Infos] /\ u.widget \in [Ops -> Widgets]
      /\ u.box \in Seq(Ops) /\ u.idles \in Seq(IdleFunctions)
      /\ u = [info |-> u.info, widget |-> u.widget, box |-> u.box, idles |-> u.idles]
  BY DEF Mains
<1>2. u.info[o] \in Infos /\ u.widget[o] \in Widgets
  BY <1>1
<1>3. i \in Infos
  <2>1. u.info[o].refs + 1 \in Nat /\ {} \in SUBSET Signals
    BY <1>2 DEF Infos
  <2> QED BY <1>2, <2>1 DEF Infos
<1>6. v = [info |-> [u.info EXCEPT ![o] = i], widget |-> u.widget, box |-> u.box,
           idles |-> u.idles]
  BY <1>1 DEF Referenced
<1>4. /\ i.refs = u.info[o].refs + 1 /\ i.source = "none" /\ i.atIdle = {}
      /\ i.finished = u.info[o].finished /\ i.waiting = u.info[o].waiting
      /\ i.cancelled = u.info[o].cancelled
  BY <1>2 DEF Infos
<1> HIDE DEF i
<1>7. /\ v \in Mains
      /\ v.info[o] = i /\ v.widget[o] = u.widget[o] /\ v.box = u.box /\ v.idles = u.idles
      /\ \A q \in Ops \ {o} : v.info[q] = u.info[q] /\ v.widget[q] = u.widget[q]
  BY <1>1, <1>3, <1>6, InfoRebuilt
<1> QED BY <1>4, <1>7 DEF Leaves

LEMMA LeavesTransitive ==
  ASSUME NEW u, NEW v, NEW w, NEW o, Leaves(u, v, o), Leaves(v, w, o)
  PROVE  Leaves(u, w, o)
BY DEF Leaves

\* Nothing of what has started or finished: the widget is only refreshed.
LEMMA EmitChanged ==
  ASSUME NEW u, NEW p, NEW l, NEW o \in Ops, Ready(u, p, l, o),
         "started" \notin u.info[o].atIdle, "finished" \notin u.info[o].atIdle
  PROVE  StateInv(Emit(u, o), p, l)
<1> DEFINE r == Referenced(u, o)
           v == Unref(r, o)
<1>1. u \in Mains /\ u.info[o] \in Infos /\ Others(u, p, l, o)
  BY DEF Ready, Others, Mains
<1>2. Displayed(u, o) /\ p[o] \notin {"none", "over"} /\ u.info[o].refs = 2
  BY DEF Ready, Due, Displayed, RefsExact
<1>3. /\ Leaves(u, r, o) /\ r.idles = u.idles /\ r.box = u.box /\ r.widget[o] = u.widget[o]
      /\ r.info[o].refs = u.info[o].refs + 1
      /\ r.info[o].source = "none" /\ r.info[o].atIdle = {}
      /\ r.info[o].finished = u.info[o].finished /\ r.info[o].waiting = u.info[o].waiting
      /\ r.info[o].cancelled = u.info[o].cancelled
  BY <1>1, ReferencedParts
<1>4. Emit(u, o) = v
  BY DEF Emit, Referenced
<1> HIDE DEF r
<1>5. /\ r.info[o].refs = 3 /\ r.info[o].source = "none" /\ r.info[o].atIdle = {}
      /\ r.info[o].finished = u.info[o].finished /\ r.info[o].waiting = u.info[o].waiting
      /\ r.info[o].cancelled = u.info[o].cancelled
      /\ r \in Mains /\ r.info[o] \in Infos
  <2>1. r \in Mains /\ r.info[o] \in Infos
    BY <1>3 DEF Leaves, Mains
  <2> QED BY <1>2, <1>3, <2>1
<1>6. r.info[o].refs > 1
  BY <1>5
<1>7. /\ Leaves(r, v, o)
      /\ v.idles = r.idles /\ v.box = r.box /\ v.widget[o] = r.widget[o]
      /\ v.info[o] = [r.info[o] EXCEPT !.refs = @ - 1]
  BY <1>5, <1>6, UnrefMore
<1> HIDE DEF v
<1>8. /\ v.info[o].refs = 2 /\ v.info[o].source = "none" /\ v.info[o].atIdle = {}
      /\ v.info[o].finished = u.info[o].finished /\ v.info[o].waiting = u.info[o].waiting
      /\ v.info[o].cancelled = u.info[o].cancelled
  BY <1>5, <1>7 DEF Infos
<1>9. v.idles = u.idles /\ v.box = u.box /\ v.widget[o] = u.widget[o] /\ Leaves(u, v, o)
  BY <1>3, <1>7, LeavesTransitive
<1>10. Displayed(v, o) /\ o \in ToSet(v.box)
  BY <1>2, <1>9 DEF Displayed, Ready, Others, Boxed
<1>11. Others(v, p, l, o)
  BY <1>1, <1>9, <1>10, OthersTouched
<1>12. OpInv(v, p, l, o)
  <2>1. RefsExact(v, p, o)
    BY <1>2, <1>8, <1>10 DEF RefsExact
  <2>2. SourceExact(v, p, o)
    BY <1>8, <1>9 DEF SourceExact, Ready
  <2>3. Due(v, p, o)
    BY <1>2, <1>10 DEF Due, Displayed
  <2>4. Undisplayed(v, p, l, o)
    BY <1>10 DEF Undisplayed, Displayed
  <2>5. Called(v, p, o)
    BY <1>10 DEF Called
  <2>6. InfoShown(v, o)
    BY <1>8, <1>9 DEF InfoShown, Ready
  <2> QED BY <2>1, <2>2, <2>3, <2>4, <2>5, <2>6 DEF OpInv
<1> QED BY <1>4, <1>11, <1>12, Apart

\* The widget of an operation before it is queued or runs.
Appearing(u, o) ==
  [u EXCEPT !.widget[o] = [NoWidget EXCEPT !.state = "initialized"],
            !.info[o].refs = @ + 1,
            !.box = Append(@, o)]

LEMMA AppearingParts ==
  ASSUME NEW u \in Mains, NEW o \in Ops, NEW v, v = Appearing(u, o)
  PROVE  /\ Leaves(u, v, o)
         /\ v.idles = u.idles /\ v.widget[o].state = "initialized" /\ o \in ToSet(v.box)
         /\ v.info[o] = [u.info[o] EXCEPT !.refs = @ + 1]
<1> DEFINE w == [NoWidget EXCEPT !.state = "initialized"]
<1>1. /\ u.info \in [Ops -> Infos] /\ u.widget \in [Ops -> Widgets]
      /\ u.box \in Seq(Ops) /\ u.idles \in Seq(IdleFunctions)
  BY DEF Mains
<1>2. /\ v.box = Append(u.box, o) /\ v.idles = u.idles
      /\ v.widget = [u.widget EXCEPT ![o] = w]
      /\ v.info = [u.info EXCEPT ![o].refs = @ + 1]
      /\ v = [info |-> v.info, widget |-> v.widget, box |-> v.box, idles |-> v.idles]
  BY DEF Mains, Appearing
<1>3. w \in Widgets /\ w.state = "initialized"
  BY DEF NoWidget, Widgets, States
<1> HIDE DEF w
<1>4. v.box \in Seq(Ops) /\ ToSet(v.box) = ToSet(u.box) \cup {o}
  BY <1>1, <1>2, Appended
<1>5. /\ v.info[o] = [u.info[o] EXCEPT !.refs = @ + 1]
      /\ \A q \in Ops \ {o} : v.info[q] = u.info[q]
  BY <1>1, <1>2
<1>6. v.info[o] \in Infos
  <2>1. u.info[o] \in Infos
    BY <1>1
  <2>2. u.info[o].refs + 1 \in Nat
    BY <2>1 DEF Infos
  <2> QED BY <1>5, <2>1, <2>2 DEF Infos
<1>7. v.info \in [Ops -> Infos]
  BY <1>1, <1>2, <1>5, <1>6
<1>8. /\ v.widget \in [Ops -> Widgets] /\ v.widget[o].state = "initialized"
      /\ \A q \in Ops \ {o} : v.widget[q] = u.widget[q]
  BY <1>1, <1>2, <1>3
<1>9. v \in Mains
  BY <1>1, <1>2, <1>4, <1>7, <1>8 DEF Mains
<1> QED BY <1>2, <1>4, <1>5, <1>8, <1>9 DEF Leaves

\* handle_new_progress_info and new_op_started: the widget shows what the thread is told.
LEMMA StartedShown ==
  ASSUME NEW u \in Mains, NEW o \in Ops, u.info[o].finished = FALSE,
         NEW b, b = Appearing(u, o)
  PROVE  Repaints(b, Started(u, o)) /\ InfoShown(Started(u, o), o)
<1> DEFINE h == HandleNew(u, o)
<1>1. b \in Mains /\ b.widget[o].state = "initialized" /\ o \in ToSet(b.box)
  BY AppearingParts DEF Leaves
<1>2. Displayed(b, o) /\ o \in Running(b)
  BY <1>1 DEF Displayed, Running, Shown, Stopped
<1>3. h = IF u.info[o].waiting THEN ToQueued(b, o) ELSE ToRunning(b, o)
  BY <1>2 DEF HandleNew, Appearing
<1>4. Repaints(b, h) /\ InfoShown(h, o) /\ ~(h.info[o].waiting /\ Running(h) = {})
  <2>1. CASE u.info[o].waiting
    BY <1>1, <1>2, <1>3, <2>1, QueuedShown
  <2>2. CASE ~u.info[o].waiting
    <3>1. h = ToRunning(b, o)
      BY <1>3, <2>2
    <3> HIDE DEF h
    <3>2. Repaints(b, h) /\ InfoShown(h, o) /\ h.widget[o].state = "running"
      BY <1>1, <1>2, <3>1, RunningShown
    <3> QED BY <3>2 DEF InfoShown
  <2> QED BY <2>1, <2>2
<1>5. Started(u, o) = h
  BY <1>4 DEF Started
<1> QED BY <1>4, <1>5

\* The first signal.
LEMMA EmitStarted ==
  ASSUME NEW u, NEW p, NEW l, NEW o \in Ops, Ready(u, p, l, o),
         "started" \in u.info[o].atIdle
  PROVE  StateInv(Emit(u, o), p, l)
<1> DEFINE r == Referenced(u, o)
           b == Appearing(r, o)
           h == Started(r, o)
           v == Unref(h, o)
<1>1. u \in Mains /\ u.info[o] \in Infos /\ Others(u, p, l, o)
  BY DEF Ready, Others, Mains
<1>2. /\ u.widget[o].state = "none" /\ p[o] \notin {"none", "over"} /\ u.info[o].refs = 1
      /\ u.info[o].finished = FALSE /\ "finished" \notin u.info[o].atIdle
  <2>1. u.info[o].finished \in BOOLEAN
    BY <1>1 DEF Infos
  <2> QED BY <2>1 DEF Ready, Due, Displayed, RefsExact
<1>3. /\ Leaves(u, r, o) /\ r.idles = u.idles /\ r.box = u.box /\ r.widget[o] = u.widget[o]
      /\ r.info[o].refs = u.info[o].refs + 1
      /\ r.info[o].source = "none" /\ r.info[o].atIdle = {}
      /\ r.info[o].finished = u.info[o].finished /\ r.info[o].waiting = u.info[o].waiting
      /\ r.info[o].cancelled = u.info[o].cancelled
  BY <1>1, ReferencedParts
<1>4. Emit(u, o) = v
  BY <1>2 DEF Emit, Referenced
<1> HIDE DEF r
<1>5. /\ r.info[o].refs = 2 /\ r.info[o].source = "none" /\ r.info[o].atIdle = {}
      /\ r.info[o].finished = FALSE
      /\ r \in Mains /\ r.info[o] \in Infos
  <2>1. r \in Mains /\ r.info[o] \in Infos
    BY <1>3 DEF Leaves, Mains
  <2> QED BY <1>2, <1>3, <2>1
<1>6. /\ Leaves(r, b, o)
      /\ b.idles = r.idles /\ b.widget[o].state = "initialized" /\ o \in ToSet(b.box)
      /\ b.info[o] = [r.info[o] EXCEPT !.refs = @ + 1]
  BY <1>5, AppearingParts
<1>7. Repaints(b, h) /\ InfoShown(h, o)
  BY <1>5, StartedShown
<1> HIDE DEF b, h
<1>8. /\ b.info[o].refs = 3 /\ b.info[o].source = "none" /\ b.info[o].atIdle = {}
      /\ b.info[o].finished = FALSE
  BY <1>5, <1>6 DEF Infos
<1>9. Others(b, p, l, o)
  <2>1. Leaves(u, b, o) /\ b.idles = u.idles
    BY <1>3, <1>6, LeavesTransitive
  <2>2. Emission(o) \notin ToSet(u.idles)
    BY DEF Ready
  <2> QED BY <1>1, <1>6, <2>1, <2>2, OthersTouched
<1>10. Others(h, p, l, o)
  BY <1>7, <1>9, RepaintsKeepsOthers
<1>11. /\ h \in Mains /\ h.info[o] \in Infos /\ h.idles = u.idles
       /\ h.info[o].refs = 3 /\ h.info[o].source = "none" /\ h.info[o].atIdle = {}
       /\ h.info[o].finished = FALSE /\ Displayed(h, o) /\ o \in ToSet(h.box)
  <2>1. h \in Mains /\ h.info[o] \in Infos
    BY <1>7 DEF Repaints, Mains
  <2>2. Displayed(b, o)
    BY <1>6 DEF Displayed
  <2> QED BY <1>3, <1>6, <1>7, <1>8, <2>1, <2>2 DEF Repaints
<1>12. h.info[o].refs > 1
  BY <1>11
<1>13. /\ Leaves(h, v, o)
       /\ v.idles = h.idles /\ v.box = h.box /\ v.widget[o] = h.widget[o]
       /\ v.info[o] = [h.info[o] EXCEPT !.refs = @ - 1]
  BY <1>11, <1>12, UnrefMore
<1> HIDE DEF v
<1>14. /\ v.info[o].refs = 2 /\ v.info[o].source = "none" /\ v.info[o].atIdle = {}
       /\ v.info[o].finished = FALSE /\ v.info[o].waiting = h.info[o].waiting
       /\ v.info[o].cancelled = h.info[o].cancelled
  BY <1>11, <1>13 DEF Infos
<1>15. Displayed(v, o) /\ o \in ToSet(v.box)
  BY <1>11, <1>13 DEF Displayed
<1>16. Others(v, p, l, o)
  BY <1>10, <1>13, <1>15, OthersTouched
<1>17. OpInv(v, p, l, o)
  <2>1. RefsExact(v, p, o)
    BY <1>2, <1>14, <1>15 DEF RefsExact
  <2>2. SourceExact(v, p, o)
    BY <1>2, <1>11, <1>13, <1>14 DEF SourceExact, Ready
  <2>3. Due(v, p, o)
    BY <1>2, <1>15 DEF Due, Displayed
  <2>4. Undisplayed(v, p, l, o)
    BY <1>15 DEF Undisplayed, Displayed
  <2>5. Called(v, p, o)
    BY <1>15 DEF Called
  <2>6. InfoShown(v, o)
    BY <1>7, <1>13, <1>14 DEF InfoShown
  <2> QED BY <2>1, <2>2, <2>3, <2>4, <2>5, <2>6 DEF OpInv
<1> QED BY <1>4, <1>16, <1>17, Apart

\* The widget of an operation goes.
Gone(u, o) == [u EXCEPT !.widget[o].state = "gone", !.box = WithoutFirst(@, o)]

LEMMA GoneParts ==
  ASSUME NEW u \in Mains, NEW o \in Ops, NEW v, v = Gone(u, o)
  PROVE  Leaves(u, v, o) /\ v.idles = u.idles /\ v.widget[o].state = "gone" /\ v.info = u.info
<1>1. /\ u.info \in [Ops -> Infos] /\ u.widget \in [Ops -> Widgets]
      /\ u.box \in Seq(Ops) /\ u.idles \in Seq(IdleFunctions)
  BY DEF Mains
<1>2. /\ v.box = WithoutFirst(u.box, o) /\ v.idles = u.idles /\ v.info = u.info
      /\ v.widget = [u.widget EXCEPT ![o].state = "gone"]
      /\ v = [info |-> v.info, widget |-> v.widget, box |-> v.box, idles |-> v.idles]
  BY DEF Mains, Gone
<1>3. v.box \in Seq(Ops) /\ ToSet(u.box) \ {o} \subseteq ToSet(v.box)
  <2>1. CASE v.box = u.box
    BY <1>1, <2>1
  <2>2. CASE \E k \in DOMAIN u.box : u.box[k] = o /\ v.box = RemoveAt(u.box, k)
    <3>1. PICK k \in DOMAIN u.box : u.box[k] = o /\ v.box = RemoveAt(u.box, k)
      BY <2>2
    <3>2. k \in 1 .. Len(u.box)
      BY <1>1, LenProperties
    <3> QED BY <1>1, <3>1, <3>2, Removal, RemovedElements
  <2> QED BY <1>1, <1>2, <2>1, <2>2, FirstRemoved
<1>4. /\ v.widget[o] = [u.widget[o] EXCEPT !.state = "gone"]
      /\ \A q \in Ops \ {o} : v.widget[q] = u.widget[q]
  BY <1>1, <1>2
<1>5. v.widget[o] \in Widgets /\ v.widget[o].state = "gone"
  BY <1>1, <1>4 DEF Widgets
<1>6. v.widget \in [Ops -> Widgets]
  BY <1>1, <1>2, <1>4, <1>5
<1>7. v \in Mains
  BY <1>1, <1>2, <1>3, <1>6 DEF Mains
<1> QED BY <1>2, <1>3, <1>4, <1>5, <1>7 DEF Leaves

\* The last signal.
LEMMA EmitFinished ==
  ASSUME NEW u, NEW p, NEW l, NEW o \in Ops, Ready(u, p, l, o), p[o] = "over"
  PROVE  StateInv(Emit(u, o), p, l)
<1> DEFINE r == Referenced(u, o)
           g == Gone(r, o)
           w == Unref(g, o)
           x == UpdateQueue(w)
<1>1. u \in Mains /\ u.info[o] \in Infos /\ Others(u, p, l, o)
  BY DEF Ready, Others, Mains
<1>2. /\ Displayed(u, o) /\ u.info[o].refs = 1 /\ u.info[o].finished = TRUE
      /\ "started" \notin u.info[o].atIdle /\ "finished" \in u.info[o].atIdle
      /\ ~Posted(u, o) /\ Emission(o) \notin ToSet(u.idles)
  <2>1. u.info[o].finished \in BOOLEAN
    BY <1>1 DEF Infos
  <2> QED BY <2>1 DEF Ready, Due, Displayed, RefsExact
<1>3. /\ Leaves(u, r, o) /\ r.idles = u.idles /\ r.box = u.box /\ r.widget[o] = u.widget[o]
      /\ r.info[o].refs = 2 /\ r.info[o].finished = TRUE
  <2>1. /\ Leaves(u, r, o) /\ r.idles = u.idles /\ r.box = u.box /\ r.widget[o] = u.widget[o]
        /\ r.info[o].refs = u.info[o].refs + 1
        /\ r.info[o].finished = u.info[o].finished
    BY <1>1, ReferencedParts
  <2> HIDE DEF r
  <2> QED BY <1>2, <2>1
<1>4. Emit(u, o) = Unref(x, o)
  <2>1. r.widget[o].state \notin {"none", "gone"}
    BY <1>2, <1>3 DEF Displayed
  <2>2. Finished(r, o) = x
    BY <2>1 DEF Finished, Gone
  <2>3. Emit(u, o) = Unref(Finished(r, o), o)
    BY <1>2 DEF Emit, Referenced
  <2> QED BY <2>2, <2>3
<1> HIDE DEF r
<1>5. r \in Mains
  BY <1>3 DEF Leaves
<1>6. Leaves(r, g, o) /\ g.idles = r.idles /\ g.widget[o].state = "gone" /\ g.info = r.info
  BY <1>5, GoneParts
<1> HIDE DEF g
<1>7. g \in Mains /\ g.info[o] \in Infos /\ g.info[o].refs = 2 /\ g.info[o].finished = TRUE
      /\ g.info[o].refs > 1
  <2>1. g \in Mains /\ g.info[o] \in Infos
    BY <1>6 DEF Leaves, Mains
  <2>2. g.info[o].refs = 2 /\ g.info[o].finished = TRUE
    BY <1>3, <1>6
  <2> QED BY <2>1, <2>2
<1>8. /\ Leaves(g, w, o)
      /\ w.idles = g.idles /\ w.widget[o] = g.widget[o]
      /\ w.info[o] = [g.info[o] EXCEPT !.refs = @ - 1]
  BY <1>7, UnrefMore
<1>9. w.info[o].refs = 1 /\ w.info[o].finished = TRUE
  BY <1>7, <1>8 DEF Infos
<1> HIDE DEF w
<1>10. Others(w, p, l, o)
  <2>1. Leaves(u, w, o) /\ w.idles = u.idles
    BY <1>3, <1>6, <1>8, LeavesTransitive
  <2>2. ~Displayed(w, o)
    BY <1>6, <1>8 DEF Displayed
  <2> QED BY <1>1, <1>2, <2>1, <2>2, OthersTouched
<1>11. w \in Mains
  BY <1>8 DEF Leaves
<1>12. Repaints(w, x)
  BY <1>11, QueueUpdated
<1> HIDE DEF x
<1>13. Others(x, p, l, o)
  BY <1>10, <1>12, RepaintsKeepsOthers
<1>14. /\ x.info[o].refs = 1 /\ x.info[o].finished = TRUE /\ ~Displayed(x, o)
       /\ x.widget[o].state # "none" /\ x.idles = u.idles
  <2>1. ~Displayed(w, o) /\ w.widget[o].state # "none"
    BY <1>6, <1>8 DEF Displayed
  <2>2. /\ x.info[o].refs = w.info[o].refs /\ x.info[o].finished = w.info[o].finished
        /\ Displayed(x, o) <=> Displayed(w, o)
        /\ x.widget[o].state = "none" <=> w.widget[o].state = "none"
        /\ x.idles = w.idles
    BY <1>12 DEF Repaints
  <2>3. x.info[o].refs = 1
    BY <1>9, <2>2
  <2>4. x.info[o].finished = TRUE
    BY <1>9, <2>2
  <2>5. x.idles = u.idles
    BY <1>3, <1>6, <1>8, <2>2
  <2>6. ~Displayed(x, o) /\ x.widget[o].state # "none"
    BY <2>1, <2>2
  <2> QED BY <2>3, <2>4, <2>5, <2>6
<1>15. ~Posted(x, o)
  BY <1>2, <1>14 DEF Posted
<1>16. StateInv(Unref(x, o), p, l)
  BY <1>13, <1>14, <1>15, UnrefLast
<1> QED BY <1>4, <1>16

LEMMA EmitKeeps ==
  ASSUME NEW u, NEW p, NEW l, NEW o \in Ops, Ready(u, p, l, o)
  PROVE  StateInv(Emit(u, o), p, l)
<1>1. "finished" \in u.info[o].atIdle => p[o] = "over"
  BY DEF Ready
<1> QED BY <1>1, EmitChanged, EmitStarted, EmitFinished

\* An operation's signals are given when the time is over, or from an idle function.
LEMMA TimeoutReady ==
  ASSUME NEW u, NEW p, NEW l, StateInv(u, p, l), NEW o \in Ops, u.info[o].source = "timeout"
  PROVE  Ready(u, p, l, o)
<1>1. OpInv(u, p, l, o) /\ Others(u, p, l, o)
  BY Apart
<1>2. p[o] # "over"
  BY <1>1 DEF OpInv, SourceExact, Due
<1> QED BY <1>1, <1>2 DEF Ready, OpInv, SourceExact

\* The first idle function is taken from the main loop.
LEMMA HeadTaken ==
  ASSUME NEW u, NEW p, NEW l, StateInv(u, p, l), u.idles # << >>,
         NEW v, v = [u EXCEPT !.idles = Tail(@)], NEW i, i = Head(u.idles)
  PROVE  /\ i \in IdleFunctions
         /\ i.kind = "emit" => Ready(v, p, l, i.op)
         /\ i.kind # "emit" => StateInv(v, p, l)
<1>1. /\ u \in Mains /\ u.idles \in Seq(IdleFunctions) /\ EmittedInPlace(u.idles, Unseen(u))
  BY DEF StateInv, Mains
<1>2. 1 \in DOMAIN u.idles /\ i = u.idles[1] /\ Tail(u.idles) = RemoveAt(u.idles, 1)
  BY <1>1, TailRemoves
<1>3. /\ v.info = u.info /\ v.widget = u.widget /\ v.box = u.box
      /\ v.idles = RemoveAt(u.idles, 1) /\ v \in Mains
  <2>1. /\ v.info = u.info /\ v.widget = u.widget /\ v.box = u.box /\ v.idles = Tail(u.idles)
        /\ v = [info |-> v.info, widget |-> v.widget, box |-> v.box, idles |-> v.idles]
    BY <1>1 DEF Mains
  <2>2. Tail(u.idles) \in Seq(IdleFunctions)
    BY <1>1, HeadTailProperties
  <2> QED BY <1>1, <1>2, <2>1, <2>2 DEF Mains
<1>4. i \in IdleFunctions /\ i.op \in Ops /\ (i.kind = "emit" => i = Emission(i.op))
  <2>1. i \in IdleFunctions
    BY <1>1, HeadTailProperties
  <2> QED BY <2>1, EmissionIsOne
<1> DEFINE o == i.op
<1>5. /\ ToSet(v.idles) \subseteq ToSet(u.idles)
      /\ \A e \in ToSet(u.idles) : e # i => e \in ToSet(v.idles)
  BY <1>1, <1>2, <1>3, RemovedElements
<1>6. /\ EmittedInPlace(v.idles, Unseen(v))
      /\ i = Emission(o) => Emission(o) \notin ToSet(v.idles)
  <2>1. Unseen(v) = Unseen(u)
    BY <1>3 DEF Unseen
  <2> QED BY <1>1, <1>2, <1>3, <1>4, <2>1, InPlaceRemoved
<1>7. Others(u, p, l, o) /\ OpInv(u, p, l, o)
  BY <1>4, Apart
<1>8. Displayed(v, o) <=> Displayed(u, o)
  BY <1>3 DEF Displayed
<1>9. Others(v, p, l, o)
  <2>1. Leaves(u, v, o)
    BY <1>3, <1>5 DEF Leaves
  <2>2. Displayed(v, o) => o \in ToSet(v.box)
    BY <1>3, <1>4, <1>7, <1>8 DEF Others, Boxed
  <2>3. o \in Ops /\ EmittedInPlace(v.idles, Unseen(v)) /\ Others(u, p, l, o)
    BY <1>4, <1>6, <1>7
  <2> HIDE DEF o
  <2> QED BY <2>1, <2>2, <2>3, OthersStay
<1>10. /\ RefsExact(v, p, o) /\ Due(v, p, o) /\ Undisplayed(v, p, l, o) /\ Called(v, p, o)
       /\ InfoShown(v, o)
  <2>1. Posted(v, o) => Posted(u, o)
    BY <1>5 DEF Posted
  <2> QED BY <1>3, <1>7, <1>8, <2>1
       DEF OpInv, RefsExact, Due, Undisplayed, Called, InfoShown
<1>11. ASSUME i.kind = "emit"
       PROVE  Ready(v, p, l, o)
  <2>1. i = Emission(o) /\ Emission(o) \notin ToSet(v.idles) /\ u.info[o].source = "idle"
    <3>1. i \in ToSet(u.idles)
      BY <1>2 DEF ToSet
    <3>2. i = Emission(o)
      BY <1>4, <1>11
    <3>3. u.info[o].source = "idle"
      BY <1>7, <3>1, <3>2 DEF OpInv, SourceExact
    <3> QED BY <1>6, <3>2, <3>3
  <2>2. p[o] = "over" => ~Posted(v, o)
    <3>1. SUFFICES ASSUME p[o] = "over", NEW e \in ToSet(v.idles), e.kind # "emit", e.op = o
                   PROVE  FALSE
      BY DEF Posted
    <3>2. PICK k \in DOMAIN u.idles : u.idles[k] = e
      BY <1>5, <3>1 DEF ToSet
    <3>3. u.idles[1] # u.idles[k] /\ k \in 1 .. Len(u.idles)
      BY <1>1, <1>2, <1>11, <3>1, <3>2, LenProperties
    <3>4. 1 < k
      BY <1>1, <3>3, LenProperties
    <3>5. o \in Unseen(u)
      BY <1>1, <1>2, <1>11, <3>1, <3>2, <3>4 DEF EmittedInPlace
    <3>6. Displayed(u, o)
      BY <1>7, <2>1, <3>1 DEF OpInv, SourceExact
    <3> QED BY <3>5, <3>6 DEF Unseen, Displayed
  <2> QED BY <1>3, <1>7, <1>8, <1>9, <1>10, <2>1, <2>2 DEF Ready, OpInv, SourceExact
<1>12. ASSUME i.kind # "emit"
       PROVE  StateInv(v, p, l)
  <2>1. Emission(o) \in ToSet(v.idles) <=> Emission(o) \in ToSet(u.idles)
    BY <1>4, <1>5, <1>12, EmissionIsOne
  <2>2. SourceExact(v, p, o)
    BY <1>3, <1>7, <1>8, <2>1 DEF OpInv, SourceExact
  <2>3. OpInv(v, p, l, o)
    BY <1>10, <2>2 DEF OpInv
  <2> QED BY <1>4, <1>9, <2>3, Apart
<1> QED BY <1>4, <1>11, <1>12

-----------------------------------------------------------------------------
(***************************************************************************)
(* What the user and the threads do.                                       *)
(***************************************************************************)
LEMMA OneKeeps ==
  ASSUME NEW u, NEW p, NEW l, StateInv(u, p, l), NEW o \in Ops
  PROVE  /\ u \in Mains /\ Others(u, p, l, o) /\ OpInv(u, p, l, o)
         /\ u.info[o] \in Infos /\ u.widget[o] \in Widgets
         /\ u.widget[o].state \in States \cup {"none", "gone"}
         /\ Displayed(u, o) => o \in ToSet(u.box)
BY DEF StateInv, Others, Mains, Widgets, Boxed

\* widget_state_notify_paused_callback
LEMMA NotifyKeeps ==
  ASSUME NEW u, NEW p, NEW l, StateInv(u, p, l), NEW i, i.op \in Ops
  PROVE  StateInv(NotifyPaused(u, i), p, l)
<1> DEFINE o == i.op
<1>1. u \in Mains /\ InfoShown(u, o) /\ (Displayed(u, o) => o \in ToSet(u.box))
  BY OneKeeps DEF OpInv
<1>2. CASE NotifyPaused(u, i) = u
  BY <1>2
<1>3. CASE u.widget[o].state = "pausing" /\ NotifyPaused(u, i) = ToPaused(u, o)
  <2>1. o \in ToSet(u.box)
    BY <1>1, <1>3 DEF Displayed
  <2>2. Repaints(u, ToPaused(u, o))
    BY <1>1, <1>3, <2>1, PausedShown
  <2> QED BY <1>3, <2>2, RepaintsKeeps
<1>4. CASE u.widget[o].state = "queuing" /\ NotifyPaused(u, i) = ToQueued(u, o)
  <2>1. Displayed(u, o)
    BY <1>4 DEF Displayed
  <2>2. Repaints(u, ToQueued(u, o))
    BY <1>1, <2>1, QueuedShown
  <2> QED BY <1>4, <2>2, RepaintsKeeps
<1> QED BY <1>2, <1>3, <1>4 DEF NotifyPaused

\* start_clicked
LEMMA StartClickKeeps ==
  ASSUME NEW u, NEW p, NEW l, StateInv(u, p, l), NEW o \in Ops, Displayed(u, o)
  PROVE  StateInv(ToPending(u, o, "pausing"), p, l) /\ StateInv(ToRunning(u, o), p, l)
<1>1. u \in Mains /\ o \in ToSet(u.box)
  BY OneKeeps
<1>2. Repaints(u, ToPending(u, o, "pausing"))
  BY <1>1, PendingShown
<1>3. Repaints(u, ToRunning(u, o))
  BY <1>1, RunningShown
<1> QED BY <1>2, <1>3, RepaintsKeeps

\* queue_clicked
LEMMA QueueClickKeeps ==
  ASSUME NEW u, NEW p, NEW l, StateInv(u, p, l), NEW o \in Ops, Displayed(u, o)
  PROVE  StateInv(ToPending(u, o, "queuing"), p, l) /\ StateInv(ToQueued(u, o), p, l)
<1>1. u \in Mains /\ o \in ToSet(u.box)
  BY OneKeeps
<1>2. Repaints(u, ToPending(u, o, "queuing"))
  BY <1>1, PendingShown
<1>3. Repaints(u, ToQueued(u, o))
  BY <1>1, QueuedShown
<1> QED BY <1>2, <1>3, RepaintsKeeps

\* cancel_clicked
Cancelling(u, o, yes, no) ==
  [u EXCEPT !.info[o].cancelled = yes, !.info[o].waiting = no, !.widget[o].cancelOff = yes]

LEMMA CancelShown ==
  ASSUME NEW u \in Mains, NEW o \in Ops, NEW yes \in BOOLEAN, NEW no \in BOOLEAN, yes, ~no,
         Displayed(u, o), NEW v, v = Cancelling(u, o, yes, no)
  PROVE  Repaints(u, v)
<1>1. /\ u.info \in [Ops -> Infos] /\ u.widget \in [Ops -> Widgets]
      /\ u.box \in Seq(Ops) /\ u.idles \in Seq(IdleFunctions)
  BY DEF Mains
<1>2. /\ v.box = u.box /\ v.idles = u.idles
      /\ v.info = [u.info EXCEPT ![o].cancelled = yes, ![o].waiting = no]
      /\ v.widget = [u.widget EXCEPT ![o].cancelOff = yes]
      /\ v = [info |-> v.info, widget |-> v.widget, box |-> v.box, idles |-> v.idles]
  BY DEF Mains, Cancelling
<1>3. /\ u.info[o] \in Infos /\ u.widget[o] \in Widgets
      /\ v.info[o] = [u.info[o] EXCEPT !.cancelled = yes, !.waiting = no]
      /\ v.widget[o] = [u.widget[o] EXCEPT !.cancelOff = yes]
      /\ \A q \in Ops \ {o} : v.info[q] = u.info[q] /\ v.widget[q] = u.widget[q]
  BY <1>1, <1>2
<1>4. /\ v.info[o] \in Infos /\ v.widget[o] \in Widgets
      /\ v.info[o].waiting = no /\ v.info[o].cancelled = yes
      /\ v.widget[o].state = u.widget[o].state
      /\ v.info[o].refs = u.info[o].refs
      /\ v.info[o].finished = u.info[o].finished
      /\ v.info[o].source = u.info[o].source
      /\ v.info[o].atIdle = u.info[o].atIdle
  BY <1>3 DEF Infos, Widgets
<1>5. v.info \in [Ops -> Infos] /\ v.widget \in [Ops -> Widgets]
  <2>1. \A q \in Ops : v.info[q] \in Infos /\ v.widget[q] \in Widgets
    BY <1>1, <1>3, <1>4
  <2>2. v.info = [q \in Ops |-> v.info[q]] /\ v.widget = [q \in Ops |-> v.widget[q]]
    BY <1>1, <1>2
  <2> QED BY <2>1, <2>2
<1>6. v \in Mains
  BY <1>1, <1>2, <1>5 DEF Mains
<1>7. ASSUME NEW q \in Ops
      PROVE  /\ v.info[q].refs = u.info[q].refs
             /\ v.info[q].finished = u.info[q].finished
             /\ v.info[q].source = u.info[q].source
             /\ v.info[q].atIdle = u.info[q].atIdle
             /\ Displayed(v, q) <=> Displayed(u, q)
             /\ v.widget[q].state = "none" <=> u.widget[q].state = "none"
             /\ ~Displayed(u, q) => v.info[q].waiting = u.info[q].waiting
             /\ InfoShown(u, q) => InfoShown(v, q)
  <2>1. CASE q = o
    <3>1. Displayed(v, o) <=> Displayed(u, o)
      BY <1>4 DEF Displayed
    <3>2. InfoShown(v, o)
      BY <1>4 DEF InfoShown
    <3> QED BY <1>4, <2>1, <3>1, <3>2
  <2>2. CASE q # o
    BY <1>3, <2>2 DEF Displayed, InfoShown
  <2> QED BY <2>1, <2>2
<1> QED BY <1>2, <1>6, <1>7 DEF Repaints

LEMMA CancelKeeps ==
  ASSUME NEW u, NEW p, NEW l, StateInv(u, p, l), NEW o \in Ops, Displayed(u, o),
         NEW v, v = Cancelling(u, o, TRUE, FALSE)
  PROVE  StateInv(DisablePause(v, o), p, l)
<1>1. u \in Mains
  BY DEF StateInv
<1>2. Repaints(u, v)
  BY <1>1, CancelShown
<1>3. Repaints(v, DisablePause(v, o))
  BY <1>2, PauseDisabled DEF Repaints
<1> QED BY <1>2, <1>3, RepaintsKeeps

\* A field of what is known of an operation changes.
Marked(u, o, j) == [u EXCEPT !.info[o] = j]

LEMMA MarkedParts ==
  ASSUME NEW u \in Mains, NEW o \in Ops, NEW j \in Infos, NEW v, v = Marked(u, o, j)
  PROVE  /\ Leaves(u, v, o) /\ v.info[o] = j
         /\ v.widget = u.widget /\ v.box = u.box /\ v.idles = u.idles
<1>1. /\ u.info \in [Ops -> Infos] /\ u.widget \in [Ops -> Widgets]
      /\ u.box \in Seq(Ops) /\ u.idles \in Seq(IdleFunctions)
  BY DEF Mains
<1>2. /\ v.box = u.box /\ v.idles = u.idles /\ v.widget = u.widget
      /\ v.info = [u.info EXCEPT ![o] = j]
      /\ v = [info |-> v.info, widget |-> v.widget, box |-> v.box, idles |-> v.idles]
  BY DEF Mains, Marked
<1>3. /\ v.info[o] = j /\ v.info \in [Ops -> Infos]
      /\ \A q \in Ops \ {o} : v.info[q] = u.info[q]
  BY <1>1, <1>2
<1>4. v \in Mains
  BY <1>1, <1>2, <1>3 DEF Mains
<1> QED BY <1>2, <1>3, <1>4 DEF Leaves

LEMMA PostParts ==
  ASSUME NEW u \in Mains, NEW i \in IdleFunctions, NEW o, o = i.op, NEW v, v = Post(u, i)
  PROVE  /\ Leaves(u, v, o) /\ v.info = u.info /\ v.widget = u.widget /\ v.box = u.box
         /\ v.idles = Append(u.idles, i) /\ ToSet(v.idles) = ToSet(u.idles) \cup {i}
<1>1. u.idles \in Seq(IdleFunctions)
  BY DEF Mains
<1>2. /\ v.box = u.box /\ v.idles = Append(u.idles, i)
      /\ v.widget = u.widget /\ v.info = u.info
      /\ v = [info |-> v.info, widget |-> v.widget, box |-> v.box, idles |-> v.idles]
  BY DEF Mains, Post
<1>3. v.idles \in Seq(IdleFunctions) /\ ToSet(v.idles) = ToSet(u.idles) \cup {i}
  BY <1>1, <1>2, Appended
<1>4. v \in Mains
  BY <1>2, <1>3 DEF Mains
<1> QED BY <1>2, <1>3, <1>4 DEF Leaves

LEMMA IdleAppended ==
  ASSUME NEW s \in Seq(IdleFunctions), NEW i \in IdleFunctions, NEW t, t = Append(s, i)
  PROVE  ToSet(t) = ToSet(s) \cup {i}
<1>1. ToSet(Append(s, i)) = ToSet(s) \cup {i}
  BY Appended
<1> QED BY <1>1

\* Something is posted for an operation: its first signals, its last ones, or
\* something else while it is displayed or after its first signals.
LEMMA OthersPosted ==
  ASSUME NEW u, NEW p, NEW l, NEW v, NEW p2, NEW l2, NEW o \in Ops,
         Others(u, p, l, o), Leaves(u, v, o), v.widget[o] = u.widget[o], v.box = u.box,
         NEW i \in IdleFunctions, i.op = o, v.idles = Append(u.idles, i),
         \A q \in Ops \ {o} : p2[q] = p[q] /\ l2[q] = l[q],
         Emission(o) \in ToSet(u.idles) => i.kind # "emit" /\ u.widget[o].state = "none",
         i.kind = "emit" => u.widget[o].state # "none" \/ \A e \in ToSet(u.idles) : e.op # o
  PROVE  Others(v, p2, l2, o)
<1>1. u.idles \in Seq(IdleFunctions) /\ EmittedInPlace(u.idles, Unseen(u))
  BY DEF Others, Mains
<1>2. Unseen(v) = Unseen(u) /\ (o \in Unseen(u) <=> u.widget[o].state = "none")
  BY DEF Unseen, Leaves
<1>3. EmittedInPlace(v.idles, Unseen(v))
  BY <1>1, <1>2, InPlaceAppended
<1>4. Displayed(v, o) => o \in ToSet(v.box)
  BY DEF Others, Boxed, Displayed
<1> QED BY <1>3, <1>4, OthersKept

\* A signal is to be given, by some source.
Noted(u, o, s) == [u EXCEPT !.info[o].atIdle = @ \cup {s}]
Sourced(u, o, source) == [u EXCEPT !.info[o].source = source]

LEMMA NotedParts ==
  ASSUME NEW u \in Mains, NEW o \in Ops, NEW s \in Signals, NEW v, v = Noted(u, o, s)
  PROVE  /\ Leaves(u, v, o) /\ v.widget = u.widget /\ v.box = u.box /\ v.idles = u.idles
         /\ v.info[o].refs = u.info[o].refs /\ v.info[o].finished = u.info[o].finished
         /\ v.info[o].waiting = u.info[o].waiting /\ v.info[o].cancelled = u.info[o].cancelled
         /\ v.info[o].atIdle = u.info[o].atIdle \cup {s}
         /\ v.info[o].source = u.info[o].source
<1> DEFINE j == [u.info[o] EXCEPT !.atIdle = @ \cup {s}]
<1>1. u.info[o] \in Infos
  BY DEF Mains
<1>2. /\ j \in Infos
      /\ j.refs = u.info[o].refs /\ j.finished = u.info[o].finished
      /\ j.waiting = u.info[o].waiting /\ j.cancelled = u.info[o].cancelled
      /\ j.atIdle = u.info[o].atIdle \cup {s} /\ j.source = u.info[o].source
  <2>1. u.info[o].atIdle \cup {s} \in SUBSET Signals
    BY <1>1 DEF Infos
  <2> QED BY <1>1, <2>1 DEF Infos
<1>3. v = Marked(u, o, j)
  BY DEF Marked, Noted
<1> HIDE DEF j
<1>4. /\ Leaves(u, v, o) /\ v.info[o] = j
      /\ v.widget = u.widget /\ v.box = u.box /\ v.idles = u.idles
  <2>1. j \in Infos
    BY <1>2
  <2> QED BY <1>3, <2>1, MarkedParts
<1> QED BY <1>2, <1>4

LEMMA SourcedParts ==
  ASSUME NEW u \in Mains, NEW o \in Ops, NEW source \in {"none", "idle", "timeout"},
         NEW v, v = Sourced(u, o, source)
  PROVE  /\ Leaves(u, v, o) /\ v.widget = u.widget /\ v.box = u.box /\ v.idles = u.idles
         /\ v.info[o].refs = u.info[o].refs /\ v.info[o].finished = u.info[o].finished
         /\ v.info[o].waiting = u.info[o].waiting /\ v.info[o].cancelled = u.info[o].cancelled
         /\ v.info[o].atIdle = u.info[o].atIdle
         /\ v.info[o].source = source
<1> DEFINE j == [u.info[o] EXCEPT !.source = source]
<1>1. u.info[o] \in Infos
  BY DEF Mains
<1>2. /\ j \in Infos
      /\ j.refs = u.info[o].refs /\ j.finished = u.info[o].finished
      /\ j.waiting = u.info[o].waiting /\ j.cancelled = u.info[o].cancelled
      /\ j.atIdle = u.info[o].atIdle /\ j.source = source
  BY <1>1 DEF Infos
<1>3. v = Marked(u, o, j)
  BY DEF Marked, Sourced
<1> HIDE DEF j
<1>4. /\ Leaves(u, v, o) /\ v.info[o] = j
      /\ v.widget = u.widget /\ v.box = u.box /\ v.idles = u.idles
  <2>1. j \in Infos
    BY <1>2
  <2> QED BY <1>3, <2>1, MarkedParts
<1> QED BY <1>2, <1>4

\* Of what is known of the operation only that it has started, that it has finished,
\* that it asks or that it was cancelled changes.
Marks(u, v, o) ==
  /\ Leaves(u, v, o) /\ v.widget = u.widget /\ v.box = u.box /\ v.idles = u.idles
  /\ v.info[o].refs = u.info[o].refs /\ v.info[o].waiting = u.info[o].waiting
  /\ v.info[o].source = u.info[o].source /\ v.info[o].atIdle = u.info[o].atIdle

LEMMA MarkMarks ==
  ASSUME NEW u \in Mains, NEW o \in Ops, NEW j \in Infos, NEW v, v = Marked(u, o, j),
         j.refs = u.info[o].refs, j.waiting = u.info[o].waiting,
         j.source = u.info[o].source, j.atIdle = u.info[o].atIdle
  PROVE  v \in Mains /\ Marks(u, v, o) /\ v.info[o] = j
<1>1. /\ Leaves(u, v, o) /\ v.info[o] = j
      /\ v.widget = u.widget /\ v.box = u.box /\ v.idles = u.idles
  BY MarkedParts
<1> QED BY <1>1 DEF Marks, Leaves

Begins(u, o, yes) == [u EXCEPT !.info[o].started = yes]
Ends(u, o, yes) == [u EXCEPT !.info[o].finished = yes]
Questions(u, o, yes) == [u EXCEPT !.info[o].asking = yes]
Answers(u, o, no, abort) == [u EXCEPT !.info[o].asking = no, !.info[o].cancelled = abort]

LEMMA BeginsMarks ==
  ASSUME NEW u \in Mains, NEW o \in Ops, NEW yes \in BOOLEAN, NEW v, v = Begins(u, o, yes)
  PROVE  /\ v \in Mains /\ Marks(u, v, o)
         /\ v.info[o].finished = u.info[o].finished
         /\ v.info[o].cancelled = u.info[o].cancelled
<1> DEFINE j == [u.info[o] EXCEPT !.started = yes]
<1>1. u.info[o] \in Infos
  BY DEF Mains
<1>2. /\ j \in Infos
      /\ j.refs = u.info[o].refs /\ j.waiting = u.info[o].waiting
      /\ j.source = u.info[o].source /\ j.atIdle = u.info[o].atIdle
      /\ j.finished = u.info[o].finished /\ j.cancelled = u.info[o].cancelled
  BY <1>1 DEF Infos
<1>3. v = Marked(u, o, j)
  BY DEF Marked, Begins
<1> HIDE DEF j
<1> QED BY <1>2, <1>3, MarkMarks

\* The operation has finished.
Ended(u, v, o) ==
  /\ v \in Mains /\ Marks(u, v, o) /\ v.info[o].finished = TRUE
  /\ v.info[o].cancelled = u.info[o].cancelled

LEMMA EndsMarks ==
  ASSUME NEW u \in Mains, NEW o \in Ops, NEW yes \in BOOLEAN, NEW v, v = Ends(u, o, yes)
  PROVE  yes => Ended(u, v, o)
<1> DEFINE j == [u.info[o] EXCEPT !.finished = yes]
<1>1. u.info[o] \in Infos
  BY DEF Mains
<1>2. /\ j \in Infos
      /\ j.refs = u.info[o].refs /\ j.waiting = u.info[o].waiting
      /\ j.source = u.info[o].source /\ j.atIdle = u.info[o].atIdle
      /\ yes => j.finished = TRUE
      /\ j.cancelled = u.info[o].cancelled
  BY <1>1 DEF Infos
<1>3. v = Marked(u, o, j)
  BY DEF Marked, Ends
<1> HIDE DEF j
<1>4. v \in Mains /\ Marks(u, v, o) /\ v.info[o] = j
  BY <1>2, <1>3, MarkMarks
<1> QED BY <1>2, <1>4 DEF Ended

LEMMA QuestionsMarks ==
  ASSUME NEW u \in Mains, NEW o \in Ops, NEW yes \in BOOLEAN, NEW v, v = Questions(u, o, yes)
  PROVE  /\ v \in Mains /\ Marks(u, v, o)
         /\ v.info[o].finished = u.info[o].finished
         /\ v.info[o].cancelled = u.info[o].cancelled
<1> DEFINE j == [u.info[o] EXCEPT !.asking = yes]
<1>1. u.info[o] \in Infos
  BY DEF Mains
<1>2. /\ j \in Infos
      /\ j.refs = u.info[o].refs /\ j.waiting = u.info[o].waiting
      /\ j.source = u.info[o].source /\ j.atIdle = u.info[o].atIdle
      /\ j.finished = u.info[o].finished /\ j.cancelled = u.info[o].cancelled
  BY <1>1 DEF Infos
<1>3. v = Marked(u, o, j)
  BY DEF Marked, Questions
<1> HIDE DEF j
<1> QED BY <1>2, <1>3, MarkMarks

LEMMA AnswersMarks ==
  ASSUME NEW u \in Mains, NEW o \in Ops, NEW no \in BOOLEAN, NEW abort \in BOOLEAN,
         NEW v, v = Answers(u, o, no, abort)
  PROVE  /\ v \in Mains /\ Marks(u, v, o)
         /\ v.info[o].finished = u.info[o].finished
         /\ v.info[o].cancelled = abort
<1> DEFINE j == [u.info[o] EXCEPT !.asking = no, !.cancelled = abort]
<1>1. u.info[o] \in Infos
  BY DEF Mains
<1>2. /\ j \in Infos
      /\ j.refs = u.info[o].refs /\ j.waiting = u.info[o].waiting
      /\ j.source = u.info[o].source /\ j.atIdle = u.info[o].atIdle
      /\ j.finished = u.info[o].finished /\ j.cancelled = abort
  BY <1>1 DEF Infos
<1>3. v = Marked(u, o, j)
  BY DEF Marked, Answers
<1> HIDE DEF j
<1> QED BY <1>2, <1>3, MarkMarks

\* The source is now an idle function.
SignalNow(u, o, s) == Signal(u, o, s, TRUE)

LEMMA SignalledNow ==
  ASSUME NEW u \in Mains, NEW o \in Ops, NEW s \in Signals, NEW v, v = SignalNow(u, o, s)
  PROVE  /\ Leaves(u, v, o) /\ v.widget = u.widget /\ v.box = u.box
         /\ v.info[o].refs = u.info[o].refs /\ v.info[o].finished = u.info[o].finished
         /\ v.info[o].waiting = u.info[o].waiting /\ v.info[o].cancelled = u.info[o].cancelled
         /\ v.info[o].atIdle = u.info[o].atIdle \cup {s}
         /\ v.info[o].source = "idle"
         /\ u.info[o].source = "idle" => v.idles = u.idles
         /\ u.info[o].source # "idle" => v.idles = Append(u.idles, Emission(o))
<1> DEFINE a == Noted(u, o, s)
           b == Sourced(a, o, "idle")
<1>1. /\ Leaves(u, a, o) /\ a.widget = u.widget /\ a.box = u.box /\ a.idles = u.idles
      /\ a.info[o].refs = u.info[o].refs /\ a.info[o].finished = u.info[o].finished
      /\ a.info[o].waiting = u.info[o].waiting /\ a.info[o].cancelled = u.info[o].cancelled
      /\ a.info[o].atIdle = u.info[o].atIdle \cup {s}
      /\ a.info[o].source = u.info[o].source
  BY NotedParts
<1>2. v = IF a.info[o].source \in {"none", "timeout"} THEN Post(b, Emission(o)) ELSE a
  BY DEF SignalNow, Signal, QueueIdle, Noted, Sourced
<1>3. a \in Mains /\ u.info[o].source \in {"none", "idle", "timeout"}
  BY <1>1 DEF Leaves, Mains, Infos
<1>4. CASE u.info[o].source = "idle"
  <2>1. v = a
    BY <1>1, <1>2, <1>4
  <2> QED BY <1>1, <1>4, <2>1
<1>5. CASE u.info[o].source \in {"none", "timeout"}
  <2>1. v = Post(b, Emission(o))
    BY <1>1, <1>2, <1>5
  <2> HIDE DEF a
  <2>2. /\ Leaves(a, b, o) /\ b.widget = a.widget /\ b.box = a.box /\ b.idles = a.idles
        /\ b.info[o].refs = a.info[o].refs /\ b.info[o].finished = a.info[o].finished
        /\ b.info[o].waiting = a.info[o].waiting /\ b.info[o].cancelled = a.info[o].cancelled
        /\ b.info[o].atIdle = a.info[o].atIdle
        /\ b.info[o].source = "idle"
    BY <1>3, SourcedParts
  <2> HIDE DEF b
  <2>3. b \in Mains /\ Emission(o) \in IdleFunctions /\ Emission(o).op = o
    BY <2>2, EmissionIsOne DEF Leaves
  <2>4. /\ Leaves(b, v, o) /\ v.info = b.info /\ v.widget = b.widget /\ v.box = b.box
        /\ v.idles = Append(b.idles, Emission(o))
    BY <2>1, <2>3, PostParts
  <2>5. Leaves(u, v, o)
    BY <1>1, <2>2, <2>4, LeavesTransitive
  <2>6. u.info[o].source # "idle"
    BY <1>5
  <2> QED BY <1>1, <2>2, <2>4, <2>5, <2>6
<1> QED BY <1>3, <1>4, <1>5

\* There is a source now.
SignalLater(u, o, s) == Signal(u, o, s, FALSE)

LEMMA SignalledLater ==
  ASSUME NEW u \in Mains, NEW o \in Ops, NEW s \in Signals, NEW v, v = SignalLater(u, o, s)
  PROVE  /\ Leaves(u, v, o) /\ v.widget = u.widget /\ v.box = u.box /\ v.idles = u.idles
         /\ v.info[o].refs = u.info[o].refs /\ v.info[o].finished = u.info[o].finished
         /\ v.info[o].waiting = u.info[o].waiting /\ v.info[o].cancelled = u.info[o].cancelled
         /\ v.info[o].atIdle = u.info[o].atIdle \cup {s}
         /\ v.info[o].source = IF u.info[o].source = "none" THEN "timeout"
                               ELSE u.info[o].source
<1> DEFINE a == Noted(u, o, s)
           b == Sourced(a, o, "timeout")
<1>1. /\ Leaves(u, a, o) /\ a.widget = u.widget /\ a.box = u.box /\ a.idles = u.idles
      /\ a.info[o].refs = u.info[o].refs /\ a.info[o].finished = u.info[o].finished
      /\ a.info[o].waiting = u.info[o].waiting /\ a.info[o].cancelled = u.info[o].cancelled
      /\ a.info[o].atIdle = u.info[o].atIdle \cup {s}
      /\ a.info[o].source = u.info[o].source
  BY NotedParts
<1>2. v = IF a.info[o].source = "none" THEN b ELSE a
  BY DEF SignalLater, Signal, QueueIdle, Noted, Sourced
<1>3. a \in Mains
  BY <1>1 DEF Leaves
<1>4. CASE u.info[o].source # "none"
  <2>1. v = a
    BY <1>1, <1>2, <1>4
  <2> QED BY <1>1, <1>4, <2>1
<1>5. CASE u.info[o].source = "none"
  <2>1. v = b
    BY <1>1, <1>2, <1>5
  <2> HIDE DEF a
  <2>2. /\ Leaves(a, b, o) /\ b.widget = a.widget /\ b.box = a.box /\ b.idles = a.idles
        /\ b.info[o].refs = a.info[o].refs /\ b.info[o].finished = a.info[o].finished
        /\ b.info[o].waiting = a.info[o].waiting /\ b.info[o].cancelled = a.info[o].cancelled
        /\ b.info[o].atIdle = a.info[o].atIdle
        /\ b.info[o].source = "timeout"
    BY <1>3, SourcedParts
  <2> HIDE DEF b
  <2>3. Leaves(u, v, o)
    BY <1>1, <2>1, <2>2, LeavesTransitive
  <2> QED BY <1>1, <1>5, <2>1, <2>2, <2>3
<1> QED BY <1>4, <1>5

\* The thread goes from one place to another before it is done, and what else is
\* known of the operation changes but for whether it waits.
LEMMA GoKeeps ==
  ASSUME NEW u, NEW p, NEW l, StateInv(u, p, l), NEW o \in Ops, NEW v, Marks(u, v, o),
         v.info[o].finished = u.info[o].finished,
         v.info[o].cancelled = u.info[o].cancelled \/ v.info[o].cancelled = TRUE,
         p[o] \notin {"none", "over"},
         NEW p2, NEW l2, p2[o] \notin {"none", "over"},
         \A q \in Ops \ {o} : p2[q] = p[q] /\ l2[q] = l[q],
         Undisplayed(u, p2, l2, o), Called(u, p2, o)
  PROVE  StateInv(v, p2, l2)
<1>1. Others(u, p, l, o) /\ OpInv(u, p, l, o) /\ (Displayed(u, o) => o \in ToSet(u.box))
  BY OneKeeps
<1>2. Displayed(v, o) <=> Displayed(u, o)
  BY DEF Displayed, Marks
<1>3. Others(v, p2, l2, o)
  BY <1>1, <1>2, OthersTouched DEF Marks
<1>4. OpInv(v, p2, l2, o)
  <2>1. RefsExact(v, p2, o)
    BY <1>1, <1>2 DEF OpInv, RefsExact, Marks
  <2>2. SourceExact(v, p2, o)
    BY <1>1, <1>2 DEF OpInv, SourceExact, Marks
  <2>3. Due(v, p2, o)
    BY <1>1, <1>2 DEF OpInv, Due, Marks
  <2>4. Undisplayed(v, p2, l2, o)
    BY DEF Undisplayed, Marks
  <2>5. Called(v, p2, o)
    BY <1>2 DEF Called, Posted, Marks
  <2>6. InfoShown(v, o)
    BY <1>1 DEF OpInv, InfoShown, Marks
  <2> QED BY <2>1, <2>2, <2>3, <2>4, <2>5, <2>6 DEF OpInv
<1> QED BY <1>3, <1>4, Apart

\* Something else than signals is posted.
LEMMA PostKeeps ==
  ASSUME NEW u, NEW p, NEW l, StateInv(u, p, l), NEW o \in Ops,
         NEW i \in IdleFunctions, i.op = o, i.kind # "emit", NEW v, v = Post(u, i),
         p[o] \notin {"none", "over"},
         NEW p2, p2[o] = p[o] \/ p2[o] = "asleep", \A q \in Ops \ {o} : p2[q] = p[q],
         u.widget[o].state = "none" => p2[o] \in {"ready", "asleep"} /\ o \in Queueable
  PROVE  StateInv(v, p2, l)
<1>1. /\ Others(u, p, l, o) /\ OpInv(u, p, l, o) /\ u \in Mains
      /\ Displayed(u, o) => o \in ToSet(u.box)
  BY OneKeeps
<1>2. /\ Leaves(u, v, o) /\ v.info = u.info /\ v.widget = u.widget /\ v.box = u.box
      /\ v.idles = Append(u.idles, i) /\ ToSet(v.idles) = ToSet(u.idles) \cup {i}
  BY <1>1, PostParts
<1>3. Displayed(v, o) <=> Displayed(u, o)
  BY <1>2 DEF Displayed
<1>4. u.widget[o].state # "gone"
  BY <1>1 DEF OpInv, Due
<1>5. Emission(o) \in ToSet(u.idles) => u.widget[o].state = "none"
  BY <1>1 DEF OpInv, SourceExact
<1>6. Others(v, p2, l, o)
  BY <1>1, <1>2, <1>5, OthersPosted
<1>7. OpInv(v, p2, l, o)
  <2>1. RefsExact(v, p2, o)
    BY <1>1, <1>2, <1>3 DEF OpInv, RefsExact
  <2>2. SourceExact(v, p2, o)
    <3>1. Emission(o) \in ToSet(v.idles) <=> Emission(o) \in ToSet(u.idles)
      BY <1>2, EmissionIsOne
    <3> QED BY <1>1, <1>2, <1>3, <3>1 DEF OpInv, SourceExact
  <2>3. Due(v, p2, o)
    BY <1>1, <1>2, <1>3 DEF OpInv, Due
  <2>4. Undisplayed(v, p2, l, o)
    BY <1>1, <1>2 DEF OpInv, Undisplayed
  <2>5. Called(v, p2, o)
    BY <1>2, <1>4 DEF Called, Displayed
  <2>6. InfoShown(v, o)
    BY <1>1, <1>2 DEF OpInv, InfoShown
  <2> QED BY <2>1, <2>2, <2>3, <2>4, <2>5, <2>6 DEF OpInv
<1> QED BY <1>6, <1>7, Apart

\* baul_progress_info_start
LEMMA StartKeeps ==
  ASSUME NEW u, NEW p, NEW l, StateInv(u, p, l), NEW o \in Ops, p[o] = "none",
         NEW m \in Mains, Marks(u, m, o), m.info[o].finished = u.info[o].finished,
         NEW v, v = SignalNow(m, o, "started"),
         NEW p2, p2[o] = "work", \A q \in Ops \ {o} : p2[q] = p[q]
  PROVE  StateInv(v, p2, l)
<1>1. /\ Others(u, p, l, o) /\ OpInv(u, p, l, o) /\ u \in Mains /\ u.info[o] \in Infos
      /\ u.widget[o].state \in States \cup {"none", "gone"}
  BY OneKeeps
<1>5. /\ Leaves(u, m, o)
      /\ m.widget = u.widget /\ m.box = u.box /\ m.idles = u.idles
      /\ m.info[o].refs = u.info[o].refs /\ m.info[o].waiting = u.info[o].waiting
      /\ m.info[o].source = u.info[o].source /\ m.info[o].atIdle = u.info[o].atIdle
  BY DEF Marks
<1>6. u.info[o].source = "none" /\ u.widget[o].state = "none" /\ ~Posted(u, o)
  BY <1>1 DEF OpInv, SourceExact, Due, Called, Displayed
<1>7. /\ Leaves(m, v, o) /\ v.widget = m.widget /\ v.box = m.box
      /\ v.info[o].refs = m.info[o].refs /\ v.info[o].finished = m.info[o].finished
      /\ v.info[o].waiting = m.info[o].waiting
      /\ v.info[o].atIdle = m.info[o].atIdle \cup {"started"}
      /\ v.info[o].source = "idle" /\ v.idles = Append(m.idles, Emission(o))
  <2>1. "started" \in Signals
    BY DEF Signals
  <2>2. m.info[o].source # "idle"
    BY <1>5, <1>6
  <2> QED BY <2>1, <2>2, SignalledNow
<1>8. /\ Leaves(u, v, o) /\ v.widget = u.widget /\ v.box = u.box
      /\ v.idles = Append(u.idles, Emission(o))
      /\ ToSet(v.idles) = ToSet(u.idles) \cup {Emission(o)}
  <2>1. u.idles \in Seq(IdleFunctions) /\ Emission(o) \in IdleFunctions
    BY <1>1, EmissionIsOne DEF Mains
  <2>2. Leaves(u, v, o)
    BY <1>5, <1>7, LeavesTransitive
  <2>3. v.idles = Append(u.idles, Emission(o)) /\ v.widget = u.widget /\ v.box = u.box
    BY <1>5, <1>7
  <2>4. ToSet(v.idles) = ToSet(u.idles) \cup {Emission(o)}
    BY <2>1, <2>3, IdleAppended
  <2> QED BY <2>2, <2>3, <2>4
<1>9. Emission(o) \notin ToSet(u.idles)
  BY <1>1, <1>6 DEF OpInv, SourceExact
<1>10. \A e \in ToSet(u.idles) : e.op # o
  <2>1. ToSet(u.idles) \subseteq IdleFunctions
    BY <1>1, ElementOfSeq, LenProperties DEF Mains, ToSet
  <2> QED BY <1>6, <1>9, <2>1, EmissionIsOne DEF Posted
<1>11. Others(v, p2, l, o)
  <2>1. Emission(o) \in IdleFunctions /\ Emission(o).op = o
    BY EmissionIsOne
  <2> QED BY <1>1, <1>8, <1>9, <1>10, <2>1, OthersPosted
<1>12. OpInv(v, p2, l, o)
  <2>1. Displayed(v, o) <=> Displayed(u, o)
    BY <1>8 DEF Displayed
  <2>2. RefsExact(v, p2, o)
    BY <1>1, <1>5, <1>7, <2>1 DEF OpInv, RefsExact
  <2>3. SourceExact(v, p2, o)
    BY <1>1, <1>5, <1>6, <1>7, <1>8 DEF OpInv, SourceExact
  <2>4. Due(v, p2, o)
    BY <1>6, <1>7, <1>8 DEF Due
  <2>5. Undisplayed(v, p2, l, o)
    BY <1>1, <1>5, <1>7, <1>8 DEF OpInv, Undisplayed
  <2>6. Called(v, p2, o)
    <3>1. Emission(o).kind = "emit"
      BY EmissionIsOne
    <3>2. ~Posted(v, o)
      BY <1>6, <1>8, <3>1 DEF Posted
    <3> QED BY <3>2 DEF Called
  <2>7. InfoShown(v, o)
    BY <1>6, <1>8 DEF InfoShown
  <2> QED BY <2>2, <2>3, <2>4, <2>5, <2>6, <2>7 DEF OpInv
<1> QED BY <1>11, <1>12, Apart

\* baul_progress_info_set_status and its like
LEMMA ReportKeeps ==
  ASSUME NEW u, NEW p, NEW l, StateInv(u, p, l), NEW o \in Ops, p[o] = "work",
         NEW v, v = SignalLater(u, o, "changed")
  PROVE  StateInv(v, p, l)
<1>1. /\ Others(u, p, l, o) /\ OpInv(u, p, l, o) /\ u \in Mains /\ u.info[o] \in Infos
      /\ Displayed(u, o) => o \in ToSet(u.box)
  BY OneKeeps
<1>2. /\ Leaves(u, v, o) /\ v.widget = u.widget /\ v.box = u.box
      /\ v.info[o].refs = u.info[o].refs /\ v.info[o].finished = u.info[o].finished
      /\ v.info[o].waiting = u.info[o].waiting /\ v.info[o].cancelled = u.info[o].cancelled
      /\ v.info[o].atIdle = u.info[o].atIdle \cup {"changed"}
      /\ v.info[o].source = IF u.info[o].source = "none" THEN "timeout" ELSE u.info[o].source
      /\ v.idles = u.idles
  <2>1. "changed" \in Signals
    BY DEF Signals
  <2> QED BY <1>1, <2>1, SignalledLater
<1>3. Displayed(v, o) <=> Displayed(u, o)
  BY <1>2 DEF Displayed
<1>4. Others(v, p, l, o)
  BY <1>1, <1>2, <1>3, OthersTouched
<1>5. OpInv(v, p, l, o)
  <2>1. RefsExact(v, p, o)
    BY <1>1, <1>2, <1>3 DEF OpInv, RefsExact
  <2>2. SourceExact(v, p, o)
    BY <1>1, <1>2, <1>3 DEF OpInv, SourceExact
  <2>3. Due(v, p, o)
    BY <1>1, <1>2, <1>3 DEF OpInv, Due
  <2>4. Undisplayed(v, p, l, o)
    BY <1>1, <1>2 DEF OpInv, Undisplayed
  <2>5. Called(v, p, o)
    BY <1>1, <1>2, <1>3 DEF OpInv, Called, Posted
  <2>6. InfoShown(v, o)
    BY <1>1, <1>2 DEF OpInv, InfoShown
  <2> QED BY <2>1, <2>2, <2>3, <2>4, <2>5, <2>6 DEF OpInv
<1> QED BY <1>4, <1>5, Apart

\* finalize_common: the operation says that it has finished, and its thread has no
\* more to do with it.
LEMMA DoneKeeps ==
  ASSUME NEW u, NEW p, NEW l, StateInv(u, p, l), NEW o \in Ops, p[o] = "done",
         NEW m, Ended(u, m, o),
         NEW s, s = SignalNow(m, o, "finished"),
         NEW v, v = Unref(s, o),
         NEW p2, p2[o] = "over", \A q \in Ops \ {o} : p2[q] = p[q]
  PROVE  StateInv(v, p2, l)
<1>1. /\ Others(u, p, l, o) /\ OpInv(u, p, l, o) /\ u \in Mains /\ u.info[o] \in Infos
      /\ u.widget[o].state \in States \cup {"none", "gone"}
      /\ Displayed(u, o) => o \in ToSet(u.box)
  BY OneKeeps
<1>4. /\ m \in Mains /\ Marks(u, m, o) /\ m.info[o].finished = TRUE
      /\ m.info[o].cancelled = u.info[o].cancelled
  BY DEF Ended
<1>5. /\ Leaves(u, m, o)
      /\ m.widget = u.widget /\ m.box = u.box /\ m.idles = u.idles
      /\ m.info[o].refs = u.info[o].refs /\ m.info[o].waiting = u.info[o].waiting
      /\ m.info[o].source = u.info[o].source /\ m.info[o].atIdle = u.info[o].atIdle
  BY <1>4 DEF Marks
<1>6. /\ Leaves(m, s, o) /\ s.widget = m.widget /\ s.box = m.box
      /\ s.info[o].refs = m.info[o].refs /\ s.info[o].finished = m.info[o].finished
      /\ s.info[o].waiting = m.info[o].waiting /\ s.info[o].cancelled = m.info[o].cancelled
      /\ s.info[o].atIdle = m.info[o].atIdle \cup {"finished"}
      /\ s.info[o].source = "idle"
      /\ m.info[o].source = "idle" => s.idles = m.idles
      /\ m.info[o].source # "idle" => s.idles = Append(m.idles, Emission(o))
  <2>1. "finished" \in Signals
    BY DEF Signals
  <2> QED BY <1>4, <2>1, SignalledNow
<1>7. /\ Leaves(u, s, o) /\ s.widget = u.widget /\ s.box = u.box /\ s \in Mains
      /\ s.info[o].refs = u.info[o].refs /\ s.info[o].finished = TRUE
      /\ s.info[o].waiting = u.info[o].waiting /\ s.info[o].cancelled = u.info[o].cancelled
      /\ s.info[o].atIdle = u.info[o].atIdle \cup {"finished"}
      /\ u.info[o].source = "idle" => s.idles = u.idles
      /\ u.info[o].source # "idle" => s.idles = Append(u.idles, Emission(o))
  <2>1. Leaves(u, s, o) /\ s \in Mains
    BY <1>5, <1>6, LeavesTransitive DEF Leaves
  <2> QED BY <1>4, <1>5, <1>6, <2>1
<1>8. u.widget[o].state # "gone" /\ (u.widget[o].state = "none" \/ Displayed(u, o))
  BY <1>1 DEF OpInv, Due, Displayed
<1>9. CASE u.widget[o].state = "none"
  <2>1. u.info[o].source = "idle" /\ u.info[o].refs = 1 /\ ~Displayed(u, o) /\ ~Posted(u, o)
        /\ (u.info[o].waiting <=> o \in Queueable)
    BY <1>1, <1>9 DEF OpInv, Due, RefsExact, Displayed, Called, Undisplayed
  <2>2. s.idles = u.idles /\ ~Displayed(s, o) /\ ~Posted(s, o)
    BY <1>7, <2>1 DEF Displayed, Posted
  <2>3. Others(s, p2, l, o)
    BY <1>1, <1>7, <2>2, OthersTouched
  <2>4. /\ s.info[o].refs = 1 /\ s.info[o].finished
        /\ s.info[o].waiting <=> o \in Queueable
    BY <1>7, <2>1
  <2> QED BY <2>2, <2>3, <2>4, UnrefLast
<1>10. CASE Displayed(u, o)
  <2>1. /\ u.info[o].source # "idle" /\ u.info[o].refs = 2
        /\ Emission(o) \notin ToSet(u.idles) /\ u.widget[o].state # "none"
    BY <1>1, <1>10 DEF OpInv, SourceExact, RefsExact, Displayed
  <2>2. s.idles = Append(u.idles, Emission(o)) /\ s.info[o].refs = 2 /\ s.info[o].refs > 1
        /\ s.info[o] \in Infos
    BY <1>7, <2>1 DEF Mains
  <2>3. /\ Leaves(s, v, o)
        /\ v.idles = s.idles /\ v.box = s.box /\ v.widget[o] = s.widget[o]
        /\ v.info[o] = [s.info[o] EXCEPT !.refs = @ - 1]
    BY <1>7, <2>2, UnrefMore
  <2>4. /\ v.info[o].refs = 1 /\ v.info[o].finished = TRUE /\ v.info[o].source = "idle"
        /\ v.info[o].waiting = u.info[o].waiting /\ v.info[o].cancelled = u.info[o].cancelled
        /\ v.info[o].atIdle = u.info[o].atIdle \cup {"finished"}
    <3>1. /\ v.info[o].refs = s.info[o].refs - 1
          /\ v.info[o].finished = s.info[o].finished /\ v.info[o].source = s.info[o].source
          /\ v.info[o].waiting = s.info[o].waiting
          /\ v.info[o].cancelled = s.info[o].cancelled
          /\ v.info[o].atIdle = s.info[o].atIdle
      BY <2>2, <2>3 DEF Infos
    <3> QED BY <1>6, <1>7, <2>2, <3>1
  <2>5. /\ Leaves(u, v, o) /\ v.widget[o] = u.widget[o] /\ v.box = u.box
        /\ v.idles = Append(u.idles, Emission(o))
        /\ ToSet(v.idles) = ToSet(u.idles) \cup {Emission(o)}
    <3>1. u.idles \in Seq(IdleFunctions) /\ Emission(o) \in IdleFunctions
      BY <1>1, EmissionIsOne DEF Mains
    <3>2. Leaves(u, v, o)
      BY <1>7, <2>3, LeavesTransitive
    <3>3. v.idles = Append(u.idles, Emission(o)) /\ v.box = u.box
      BY <1>7, <2>2, <2>3
    <3>4. v.widget[o] = u.widget[o]
      BY <1>7, <2>3
    <3>5. ToSet(v.idles) = ToSet(u.idles) \cup {Emission(o)}
      BY <3>1, <3>3, IdleAppended
    <3> QED BY <3>2, <3>3, <3>4, <3>5
  <2>6. Others(v, p2, l, o)
    <3>1. Emission(o) \in IdleFunctions /\ Emission(o).op = o
      BY EmissionIsOne
    <3> QED BY <1>1, <2>1, <2>5, <3>1, OthersPosted
  <2>7. Displayed(v, o)
    BY <1>10, <2>5 DEF Displayed
  <2>8. OpInv(v, p2, l, o)
    <3>1. RefsExact(v, p2, o)
      BY <2>4, <2>7 DEF RefsExact
    <3>2. SourceExact(v, p2, o)
      BY <1>1, <2>4, <2>5, <2>7 DEF OpInv, SourceExact
    <3>3. Due(v, p2, o)
      BY <2>4, <2>7 DEF Due, Displayed
    <3>4. Undisplayed(v, p2, l, o)
      BY <2>7 DEF Undisplayed, Displayed
    <3>5. Called(v, p2, o)
      BY <2>7 DEF Called
    <3>6. InfoShown(v, o)
      BY <1>1, <2>4, <2>5 DEF OpInv, InfoShown
    <3> QED BY <3>1, <3>2, <3>3, <3>4, <3>5, <3>6 DEF OpInv
  <2> QED BY <2>6, <2>8, Apart
<1> QED BY <1>8, <1>9, <1>10

-----------------------------------------------------------------------------
(***************************************************************************)
(* Every step keeps the invariant.                                         *)
(***************************************************************************)
LEMMA Becoming ==
  ASSUME NEW v \in Mains, Becomes(v)
  PROVE  Main' = v
<1>1. info' = v.info /\ widget' = v.widget /\ box' = v.box /\ idles' = v.idles
  BY DEF Becomes
<1>2. v = [info |-> v.info, widget |-> v.widget, box |-> v.box, idles |-> v.idles]
  BY DEF Mains
<1>3. Main' = [info |-> info', widget |-> widget', box |-> box', idles |-> idles']
  BY DEF Main
<1> QED BY <1>1, <1>2, <1>3

LEMMA MainKept ==
  ASSUME UNCHANGED mainVars
  PROVE  Main' = Main
BY DEF mainVars, Main

LEMMA MainParts ==
  /\ Main.info = info /\ Main.widget = widget /\ Main.box = box /\ Main.idles = idles
BY DEF Main

\* Where the invariant is kept, from the state that follows.
LEMMA NextState ==
  ASSUME NEW v, Main' = v, StateInv(v, pc', left'),
         pc' \in [Ops -> Places], left' \in [Ops -> Int]
  PROVE  ProgressInv'
BY DEF ProgressInv

LEMMA BecomesKeeps ==
  ASSUME NEW v, Becomes(v), StateInv(v, pc', left'),
         pc' \in [Ops -> Places], left' \in [Ops -> Int]
  PROVE  ProgressInv'
<1>1. v \in Mains
  BY DEF StateInv
<1>2. Main' = v
  BY <1>1, Becoming
<1> QED BY <1>2, NextState

LEMMA RunIdleKeeps ==
  ASSUME ProgressInv, RunIdle
  PROVE  ProgressInv'
<1> DEFINE i == Head(idles)
           u == [Main EXCEPT !.idles = Tail(@)]
<1>1. /\ StateInv(Main, pc, left) /\ pc \in [Ops -> Places] /\ left \in [Ops -> Int]
      /\ pc' = pc /\ left' = left
  BY DEF ProgressInv, RunIdle
<1>2. /\ i \in IdleFunctions
      /\ i.kind = "emit" => Ready(u, pc, left, i.op)
      /\ i.kind # "emit" => StateInv(u, pc, left)
  <2>1. Main.idles # << >> /\ i = Head(Main.idles)
    BY MainParts DEF RunIdle
  <2>2. u = [Main EXCEPT !.idles = Tail(@)]
    OBVIOUS
  <2> HIDE DEF u, i
  <2> QED BY <1>1, <2>1, <2>2, HeadTaken
<1>3. Becomes(CASE i.kind = "emit"   -> Emit(u, i.op)
                [] i.kind = "notify" -> NotifyPaused(u, i)
                [] i.kind = "off"    -> DisablePause(u, i.op))
  BY DEF RunIdle
<1> HIDE DEF u, i
<1>4. i.op \in Ops /\ i.kind \in {"emit", "notify", "off"}
  BY <1>2 DEF IdleFunctions
<1>5. CASE i.kind = "emit"
  <2>1. StateInv(Emit(u, i.op), pc, left)
    BY <1>2, <1>4, <1>5, EmitKeeps
  <2>2. Becomes(Emit(u, i.op))
    BY <1>3, <1>5
  <2> QED BY <1>1, <2>1, <2>2, BecomesKeeps
<1>6. CASE i.kind = "notify"
  <2>1. StateInv(NotifyPaused(u, i), pc, left)
    BY <1>2, <1>4, <1>6, NotifyKeeps
  <2>2. Becomes(NotifyPaused(u, i))
    BY <1>3, <1>6
  <2> QED BY <1>1, <2>1, <2>2, BecomesKeeps
<1>7. CASE i.kind = "off"
  <2>1. StateInv(u, pc, left)
    BY <1>2, <1>7
  <2>2. u \in Mains
    BY <2>1 DEF StateInv
  <2>3. Repaints(u, DisablePause(u, i.op))
    BY <1>4, <2>2, PauseDisabled
  <2>4. StateInv(DisablePause(u, i.op), pc, left)
    BY <2>1, <2>3, RepaintsKeeps
  <2>5. Becomes(DisablePause(u, i.op))
    BY <1>3, <1>7
  <2> QED BY <1>1, <2>4, <2>5, BecomesKeeps
<1> QED BY <1>4, <1>5, <1>6, <1>7

LEMMA RunTimeoutKeeps ==
  ASSUME ProgressInv, NEW o \in Ops, RunTimeout(o)
  PROVE  ProgressInv'
<1>1. /\ StateInv(Main, pc, left) /\ pc \in [Ops -> Places] /\ left \in [Ops -> Int]
      /\ pc' = pc /\ left' = left /\ Main.info[o].source = "timeout"
      /\ Becomes(Emit(Main, o))
  BY MainParts DEF ProgressInv, RunTimeout
<1>2. StateInv(Emit(Main, o), pc, left)
  BY <1>1, TimeoutReady, EmitKeeps
<1> QED BY <1>1, <1>2, BecomesKeeps

LEMMA StartClickedKeeps ==
  ASSUME ProgressInv, NEW o \in Ops, StartClicked(o)
  PROVE  ProgressInv'
<1>1. /\ StateInv(Main, pc, left) /\ pc \in [Ops -> Places] /\ left \in [Ops -> Int]
      /\ pc' = pc /\ left' = left /\ Displayed(Main, o)
  BY MainParts DEF ProgressInv, StartClicked, Clickable, Displayed
<1>2. Becomes(ToPending(Main, o, "pausing")) \/ Becomes(ToRunning(Main, o))
  BY DEF StartClicked
<1>3. StateInv(ToPending(Main, o, "pausing"), pc, left) /\ StateInv(ToRunning(Main, o), pc, left)
  BY <1>1, StartClickKeeps
<1> QED BY <1>1, <1>2, <1>3, BecomesKeeps

LEMMA QueueClickedKeeps ==
  ASSUME ProgressInv, NEW o \in Ops, QueueClicked(o)
  PROVE  ProgressInv'
<1>1. /\ StateInv(Main, pc, left) /\ pc \in [Ops -> Places] /\ left \in [Ops -> Int]
      /\ pc' = pc /\ left' = left /\ Displayed(Main, o)
  BY MainParts DEF ProgressInv, QueueClicked, Clickable, Displayed
<1>2. Becomes(ToPending(Main, o, "queuing")) \/ Becomes(ToQueued(Main, o))
  BY DEF QueueClicked
<1>3. StateInv(ToPending(Main, o, "queuing"), pc, left) /\ StateInv(ToQueued(Main, o), pc, left)
  BY <1>1, QueueClickKeeps
<1> QED BY <1>1, <1>2, <1>3, BecomesKeeps

LEMMA CancelClickedKeeps ==
  ASSUME ProgressInv, NEW o \in Ops, CancelClicked(o)
  PROVE  ProgressInv'
<1> DEFINE v == Cancelling(Main, o, TRUE, FALSE)
<1>1. /\ StateInv(Main, pc, left) /\ pc \in [Ops -> Places] /\ left \in [Ops -> Int]
      /\ pc' = pc /\ left' = left /\ Displayed(Main, o)
  BY MainParts DEF ProgressInv, CancelClicked, Clickable, Displayed
<1>2. Becomes(DisablePause(v, o))
  BY DEF CancelClicked, Cancelling
<1>3. StateInv(DisablePause(v, o), pc, left)
  <2>1. v = Cancelling(Main, o, TRUE, FALSE)
    OBVIOUS
  <2> HIDE DEF v
  <2> QED BY <1>1, <2>1, CancelKeeps
<1> QED BY <1>1, <1>2, <1>3, BecomesKeeps

LEMMA GoesTo ==
  ASSUME pc \in [Ops -> Places], NEW o \in Ops, NEW place \in Places, Goes(o, place)
  PROVE  /\ pc' \in [Ops -> Places] /\ pc'[o] = place
         /\ \A q \in Ops \ {o} : pc'[q] = pc[q]
BY DEF Goes

LEMMA StartKept ==
  ASSUME ProgressInv, NEW o \in Ops, Start(o)
  PROVE  ProgressInv'
<1> DEFINE m == Begins(Main, o, TRUE)
           v == SignalNow(m, o, "started")
<1>1. /\ StateInv(Main, pc, left) /\ pc \in [Ops -> Places] /\ left \in [Ops -> Int]
      /\ left' = left /\ pc[o] = "none"
  BY DEF ProgressInv, Start
<1>2. pc' \in [Ops -> Places] /\ pc'[o] = "work" /\ \A q \in Ops \ {o} : pc'[q] = pc[q]
  BY <1>1, GoesTo DEF Start, Places
<1>3. Becomes(v)
  BY DEF Start, Begins, SignalNow
<1>4. m \in Mains /\ Marks(Main, m, o) /\ m.info[o].finished = Main.info[o].finished
  <2>1. m = Begins(Main, o, TRUE) /\ Main \in Mains
    BY <1>1 DEF StateInv
  <2> HIDE DEF m
  <2> QED BY <2>1, BeginsMarks
<1>5. StateInv(v, pc', left')
  <2>1. v = SignalNow(m, o, "started")
    OBVIOUS
  <2> HIDE DEF m, v
  <2> QED BY <1>1, <1>2, <1>4, <2>1, StartKeeps
<1> QED BY <1>1, <1>2, <1>3, <1>5, BecomesKeeps

LEMMA ReportKept ==
  ASSUME ProgressInv, NEW o \in Ops, Report(o)
  PROVE  ProgressInv'
<1> DEFINE v == SignalLater(Main, o, "changed")
<1>1. /\ StateInv(Main, pc, left) /\ pc \in [Ops -> Places] /\ left \in [Ops -> Int]
      /\ left' = left /\ pc' = pc /\ pc[o] = "work"
  BY DEF ProgressInv, Report
<1>2. Becomes(v)
  BY DEF Report, SignalLater
<1>3. StateInv(v, pc, left)
  <2>1. v = SignalLater(Main, o, "changed")
    OBVIOUS
  <2> HIDE DEF v
  <2> QED BY <1>1, <2>1, ReportKeeps
<1> QED BY <1>1, <1>2, <1>3, BecomesKeeps

LEMMA LastFileKept ==
  ASSUME ProgressInv, NEW o \in Ops, LastFile(o)
  PROVE  ProgressInv'
<1> DEFINE i == [kind |-> "off", op |-> o, widget |-> TRUE]
           v == Post(Main, i)
<1>1. /\ StateInv(Main, pc, left) /\ pc \in [Ops -> Places] /\ left \in [Ops -> Int]
      /\ left' = left /\ pc' = pc /\ pc[o] \in {"ready", "work"} /\ left[o] = 1
      /\ o \in Queueable
  BY DEF ProgressInv, LastFile
<1>2. Becomes(v)
  BY DEF LastFile
<1>3. Main.widget[o].state = "none" => pc[o] = "ready"
  BY <1>1, OneKeeps DEF OpInv, Undisplayed
<1>4. StateInv(v, pc, left)
  <2>1. v = Post(Main, i) /\ i \in IdleFunctions /\ i.op = o /\ i.kind # "emit"
    BY DEF IdleFunctions
  <2> HIDE DEF v, i
  <2> QED BY <1>1, <1>3, <2>1, PostKeeps
<1> QED BY <1>1, <1>2, <1>4, BecomesKeeps

\* Nothing changes but where the thread is.
LEMMA GoesKeeps ==
  ASSUME NEW u, NEW p, NEW l, StateInv(u, p, l), NEW o \in Ops,
         p[o] \notin {"none", "over"}, NEW p2, NEW l2, p2[o] \notin {"none", "over"},
         \A q \in Ops \ {o} : p2[q] = p[q] /\ l2[q] = l[q],
         Undisplayed(u, p2, l2, o), Called(u, p2, o)
  PROVE  StateInv(u, p2, l2)
<1>1. u \in Mains
  BY DEF StateInv
<1>2. Marks(u, u, o)
  BY <1>1 DEF Marks, Leaves
<1> QED BY <1>2, GoKeeps

LEMMA GetReadyKept ==
  ASSUME ProgressInv, NEW o \in Ops, GetReady(o)
  PROVE  ProgressInv'
<1>1. /\ StateInv(Main, pc, left) /\ pc \in [Ops -> Places] /\ left \in [Ops -> Int]
      /\ left' = left /\ pc[o] = "ready"
  BY DEF ProgressInv, GetReady
<1>2. OpInv(Main, pc, left, o)
  BY <1>1, OneKeeps
<1>3. CASE info[o].waiting
  <2> DEFINE i == [kind |-> "notify", op |-> o, widget |-> widget[o].state # "none"]
             v == Post(Main, i)
  <2>1. Becomes(v) /\ Goes(o, "asleep")
    BY <1>3 DEF GetReady
  <2>2. pc' \in [Ops -> Places] /\ pc'[o] = "asleep" /\ \A q \in Ops \ {o} : pc'[q] = pc[q]
    BY <1>1, <2>1, GoesTo DEF Places
  <2>3. Main.widget[o].state = "none" => o \in Queueable
    BY <1>2, <1>3, MainParts DEF OpInv, Undisplayed
  <2>4. StateInv(v, pc', left)
    <3>1. v = Post(Main, i) /\ i \in IdleFunctions /\ i.op = o /\ i.kind # "emit"
      <4>1. (widget[o].state # "none") \in BOOLEAN
        OBVIOUS
      <4> QED BY <4>1 DEF IdleFunctions
    <3> HIDE DEF v, i
    <3> QED BY <1>1, <2>2, <2>3, <3>1, PostKeeps
  <2> QED BY <1>1, <2>1, <2>2, <2>4, BecomesKeeps
<1>4. CASE ~info[o].waiting
  <2>1. Goes(o, "work") /\ Main' = Main
    BY <1>4, MainKept DEF GetReady
  <2>2. pc' \in [Ops -> Places] /\ pc'[o] = "work" /\ \A q \in Ops \ {o} : pc'[q] = pc[q]
    BY <1>1, <2>1, GoesTo DEF Places
  <2>3. Main.widget[o].state = "none" => o \notin Queueable
    BY <1>2, <1>4, MainParts DEF OpInv, Undisplayed
  <2>4. Undisplayed(Main, pc', left', o)
    BY <1>1, <1>2, <2>3 DEF OpInv, Undisplayed
  <2>5. Called(Main, pc', o)
    BY <1>2, <2>3 DEF OpInv, Called
  <2>6. StateInv(Main, pc', left')
    BY <1>1, <2>2, <2>4, <2>5, GoesKeeps
  <2> QED BY <1>1, <2>1, <2>2, <2>6, NextState
<1> QED BY <1>3, <1>4

LEMMA WakeKept ==
  ASSUME ProgressInv, NEW o \in Ops, Wake(o)
  PROVE  ProgressInv'
<1>1. /\ StateInv(Main, pc, left) /\ pc \in [Ops -> Places] /\ left \in [Ops -> Int]
      /\ left' = left /\ pc[o] = "asleep" /\ ~Main.info[o].waiting
      /\ Main' = Main
  BY MainParts, MainKept DEF ProgressInv, Wake
<1>2. OpInv(Main, pc, left, o)
  BY <1>1, OneKeeps
<1>3. pc' \in [Ops -> Places] /\ pc'[o] = "work" /\ \A q \in Ops \ {o} : pc'[q] = pc[q]
  BY <1>1, GoesTo DEF Places, Wake
<1>4. Main.widget[o].state = "none" => o \notin Queueable
  BY <1>1, <1>2 DEF OpInv, Undisplayed
<1>5. Undisplayed(Main, pc', left', o)
  BY <1>1, <1>2, <1>4 DEF OpInv, Undisplayed
<1>6. Called(Main, pc', o)
  BY <1>2, <1>4 DEF OpInv, Called
<1>7. StateInv(Main, pc', left')
  BY <1>1, <1>3, <1>5, <1>6, GoesKeeps
<1> QED BY <1>1, <1>3, <1>7, NextState

LEMMA NextFileKept ==
  ASSUME ProgressInv, NEW o \in Ops, NextFile(o)
  PROVE  ProgressInv'
<1>1. /\ StateInv(Main, pc, left) /\ pc \in [Ops -> Places] /\ left \in [Ops -> Int]
      /\ left' = [left EXCEPT ![o] = @ - 1] /\ pc[o] = "work" /\ Main' = Main
  BY MainKept DEF ProgressInv, NextFile
<1>2. OpInv(Main, pc, left, o)
  BY <1>1, OneKeeps
<1>3. PICK place \in {"ready", "done"} :
        Goes(o, place) /\ (place = "done" => info[o].cancelled \/ left[o] = 1)
  BY DEF NextFile
<1>4. pc' \in [Ops -> Places] /\ pc'[o] = place /\ \A q \in Ops \ {o} : pc'[q] = pc[q]
  BY <1>1, <1>3, GoesTo DEF Places
<1>5. left' \in [Ops -> Int] /\ \A q \in Ops \ {o} : left'[q] = left[q]
  BY <1>1
<1>6. Undisplayed(Main, pc', left', o)
  BY <1>2, <1>3, <1>4 DEF OpInv, Undisplayed
<1>7. Called(Main, pc', o)
  BY <1>1, <1>2 DEF OpInv, Called
<1>8. StateInv(Main, pc', left')
  <2>1. pc'[o] \notin {"none", "over"} /\ pc[o] \notin {"none", "over"}
    BY <1>1, <1>4
  <2>2. \A q \in Ops \ {o} : pc'[q] = pc[q] /\ left'[q] = left[q]
    BY <1>4, <1>5
  <2>3. StateInv(Main, pc, left)
    BY <1>1
  <2> QED BY <1>6, <1>7, <2>1, <2>2, <2>3, GoesKeeps
<1> QED BY <1>1, <1>4, <1>5, <1>8, NextState

LEMMA MarkedMain ==
  ASSUME NEW o, NEW j, info' = [info EXCEPT ![o] = j], UNCHANGED << widget, box, idles >>
  PROVE  Main' = Marked(Main, o, j)
<1>1. Main' = [info |-> info', widget |-> widget', box |-> box', idles |-> idles']
  BY DEF Main
<1>2. Marked(Main, o, j) = [Main EXCEPT !.info = [Main.info EXCEPT ![o] = j]]
  BY DEF Marked
<1>3. [Main EXCEPT !.info = info'] = [info |-> info', widget |-> widget, box |-> box,
                                      idles |-> idles]
  BY DEF Main
<1>4. Main.info = info
  BY MainParts
<1> QED BY <1>1, <1>2, <1>3, <1>4

LEMMA AskKept ==
  ASSUME ProgressInv, NEW o \in Ops, Ask(o)
  PROVE  ProgressInv'
<1>1. /\ StateInv(Main, pc, left) /\ pc \in [Ops -> Places] /\ left \in [Ops -> Int]
      /\ left' = left /\ pc[o] = "work"
  BY DEF ProgressInv, Ask
<1>2. OpInv(Main, pc, left, o) /\ Main \in Mains
  BY <1>1, OneKeeps
<1>3. pc' \in [Ops -> Places] /\ pc'[o] = "asking" /\ \A q \in Ops \ {o} : pc'[q] = pc[q]
  BY <1>1, GoesTo DEF Places, Ask
<1>4. PICK yes \in BOOLEAN : info' = [info EXCEPT ![o].asking = yes]
  BY DEF Ask
<1> DEFINE v == Questions(Main, o, yes)
           j == [Main.info[o] EXCEPT !.asking = yes]
<1>8. Main' = v
  <2>1. info' = [info EXCEPT ![o] = j] /\ UNCHANGED << widget, box, idles >>
    BY <1>4, MainParts DEF Ask
  <2>2. v = Marked(Main, o, j)
    BY DEF Marked, Questions
  <2> HIDE DEF v, j
  <2> QED BY <2>1, <2>2, MarkedMain
<1>5. Undisplayed(Main, pc', left', o)
  BY <1>1, <1>2, <1>3 DEF OpInv, Undisplayed
<1>6. Called(Main, pc', o)
  BY <1>1, <1>2 DEF OpInv, Called
<1>7. StateInv(v, pc', left')
  <2>1. v = Questions(Main, o, yes)
    OBVIOUS
  <2> HIDE DEF v
  <2>2. /\ Marks(Main, v, o) /\ v.info[o].finished = Main.info[o].finished
        /\ v.info[o].cancelled = Main.info[o].cancelled
    BY <1>2, <2>1, QuestionsMarks
  <2> QED BY <1>1, <1>3, <1>5, <1>6, <2>2, GoKeeps
<1> QED BY <1>1, <1>3, <1>7, <1>8, NextState

LEMMA AnswerKept ==
  ASSUME ProgressInv, NEW o \in Ops, Answer(o)
  PROVE  ProgressInv'
<1>1. /\ StateInv(Main, pc, left) /\ pc \in [Ops -> Places] /\ left \in [Ops -> Int]
      /\ left' = left /\ pc[o] = "asking"
  BY DEF ProgressInv, Answer
<1>2. OpInv(Main, pc, left, o) /\ Main \in Mains /\ Main.info[o] \in Infos
  BY <1>1, OneKeeps
<1>3. pc' \in [Ops -> Places] /\ pc'[o] = "work" /\ \A q \in Ops \ {o} : pc'[q] = pc[q]
  BY <1>1, GoesTo DEF Places, Answer
<1>4. PICK no \in BOOLEAN, yes \in BOOLEAN :
        /\ info' = [info EXCEPT ![o].asking = no, ![o].cancelled = yes]
        /\ yes = Main.info[o].cancelled \/ yes = TRUE
  <2>1. PICK abort \in BOOLEAN :
          info' = [info EXCEPT ![o].asking = FALSE, ![o].cancelled = @ \/ abort]
    BY DEF Answer
  <2>2. PICK yes \in BOOLEAN : yes = (info[o].cancelled \/ abort)
    OBVIOUS
  <2>3. info' = [info EXCEPT ![o].asking = FALSE, ![o].cancelled = yes]
    BY <2>1, <2>2
  <2>4. yes = info[o].cancelled \/ yes = TRUE
    BY <1>2, <2>2, MainParts DEF Infos
  <2> QED BY <2>3, <2>4, MainParts
<1> DEFINE v == Answers(Main, o, no, yes)
           j == [Main.info[o] EXCEPT !.asking = no, !.cancelled = yes]
<1>5. Main' = v
  <2>1. info' = [info EXCEPT ![o] = j] /\ UNCHANGED << widget, box, idles >>
    BY <1>4, MainParts DEF Answer
  <2>2. v = Marked(Main, o, j)
    BY DEF Marked, Answers
  <2> HIDE DEF v, j
  <2> QED BY <2>1, <2>2, MarkedMain
<1>6. Undisplayed(Main, pc', left', o)
  BY <1>1, <1>2, <1>3 DEF OpInv, Undisplayed
<1>7. Called(Main, pc', o)
  BY <1>1, <1>2 DEF OpInv, Called
<1>8. StateInv(v, pc', left')
  <2>1. v = Answers(Main, o, no, yes)
    OBVIOUS
  <2> HIDE DEF v
  <2>2. /\ Marks(Main, v, o) /\ v.info[o].finished = Main.info[o].finished
        /\ v.info[o].cancelled = yes
    BY <1>2, <2>1, AnswersMarks
  <2>3. v.info[o].cancelled = Main.info[o].cancelled \/ v.info[o].cancelled = TRUE
    BY <1>4, <2>2
  <2> QED BY <1>1, <1>3, <1>6, <1>7, <2>2, <2>3, GoKeeps
<1> QED BY <1>1, <1>3, <1>5, <1>8, NextState

LEMMA JobDoneKept ==
  ASSUME ProgressInv, NEW o \in Ops, JobDone(o)
  PROVE  ProgressInv'
<1>1. /\ StateInv(Main, pc, left) /\ pc \in [Ops -> Places] /\ left \in [Ops -> Int]
      /\ left' = left /\ pc[o] = "done" /\ Main \in Mains
  BY DEF ProgressInv, JobDone, StateInv
<1>2. pc' \in [Ops -> Places] /\ pc'[o] = "over" /\ \A q \in Ops \ {o} : pc'[q] = pc[q]
  BY <1>1, GoesTo DEF JobDone, Places
<1>3. PICK yes \in BOOLEAN :
        yes /\ Becomes(Unref(SignalNow(Ends(Main, o, yes), o, "finished"), o))
  BY DEF JobDone, Ends, SignalNow
<1>4. PICK m : m = Ends(Main, o, yes)
  OBVIOUS
<1>5. PICK s : s = SignalNow(m, o, "finished")
  OBVIOUS
<1>6. PICK v : v = Unref(s, o)
  OBVIOUS
<1>7. Ended(Main, m, o)
  BY <1>1, <1>3, <1>4, EndsMarks
<1>8. StateInv(v, pc', left)
  <2>1. StateInv(Main, pc, left) /\ pc[o] = "done"
    BY <1>1
  <2>2. pc'[o] = "over" /\ \A q \in Ops \ {o} : pc'[q] = pc[q]
    BY <1>2
  <2>3. PICK p2 : p2 = pc'
    OBVIOUS
  <2>4. p2[o] = "over" /\ \A q \in Ops \ {o} : p2[q] = pc[q]
    BY <2>2, <2>3
  <2>5. StateInv(v, p2, left)
    BY <1>5, <1>6, <1>7, <2>1, <2>4, DoneKeeps
  <2> QED BY <2>3, <2>5
<1>9. Becomes(v)
  BY <1>3, <1>4, <1>5, <1>6
<1> QED BY <1>1, <1>2, <1>8, <1>9, BecomesKeeps

LEMMA InitProgress ==
  ASSUME Init
  PROVE  ProgressInv
<1>1. /\ info = [o \in Ops |-> NewInfo(o)] /\ widget = [o \in Ops |-> NoWidget]
      /\ box = << >> /\ idles = << >>
      /\ pc = [o \in Ops |-> "none"] /\ left = [o \in Ops |-> Items + 1]
  BY DEF Init
<1>2. pc \in [Ops -> Places] /\ left \in [Ops -> Int]
  BY <1>1, ProgressInfoAssumption DEF Places
<1>3. ASSUME NEW o \in Ops
      PROVE  /\ info[o] \in Infos
             /\ info[o].refs = 1 /\ info[o].finished = FALSE /\ info[o].source = "none"
             /\ info[o].waiting <=> o \in Queueable
             /\ info[o].atIdle = {}
  <2>1. info[o] = NewInfo(o)
    BY <1>1
  <2>2. NewInfo(o) \in Infos
    BY DEF NewInfo, Infos
  <2>3. NewInfo(o).waiting <=> o \in Queueable
    BY DEF NewInfo
  <2>4. /\ NewInfo(o).refs = 1 /\ NewInfo(o).finished = FALSE /\ NewInfo(o).source = "none"
        /\ NewInfo(o).atIdle = {}
    BY DEF NewInfo
  <2> QED BY <2>1, <2>2, <2>3, <2>4
<1>4. \A o \in Ops : widget[o] = NoWidget /\ widget[o] \in Widgets /\ widget[o].state = "none"
  BY <1>1 DEF NoWidget, Widgets
<1>5. info = [o \in Ops |-> info[o]] /\ widget = [o \in Ops |-> widget[o]]
  BY <1>1
<1>6. info \in [Ops -> Infos] /\ widget \in [Ops -> Widgets]
  BY <1>3, <1>4, <1>5
<1>7. Main \in Mains
  BY <1>1, <1>6 DEF Main, Mains
<1>8. ToSet(Main.idles) = {} /\ DOMAIN Main.idles = {}
  BY <1>1, MainParts DEF ToSet
<1>9. ASSUME NEW o \in Ops
      PROVE  OpInv(Main, pc, left, o)
  <2>1. ~Displayed(Main, o) /\ Main.widget[o].state = "none" /\ pc[o] = "none"
        /\ ~Posted(Main, o) /\ left[o] = Items + 1
    BY <1>1, <1>4, <1>8, MainParts DEF Displayed, Posted
  <2>2. RefsExact(Main, pc, o)
    <3>1. Main.info[o].refs = 1
      BY <1>3, MainParts
    <3>2. (IF pc[o] = "over" THEN 0 ELSE 1) = 1 /\ (IF Displayed(Main, o) THEN 1 ELSE 0) = 0
      BY <2>1
    <3> QED BY <3>1, <3>2 DEF RefsExact
  <2>3. SourceExact(Main, pc, o)
    BY <1>3, <1>8, <2>1, MainParts DEF SourceExact
  <2>4. Due(Main, pc, o)
    BY <2>1 DEF Due
  <2>5. Undisplayed(Main, pc, left, o)
    <3>1. Main.info[o].waiting <=> o \in Queueable
      BY <1>3, MainParts
    <3>2. left[o] > 1
      BY <2>1, ProgressInfoAssumption
    <3> QED BY <3>1, <3>2 DEF Undisplayed
  <2>6. Called(Main, pc, o)
    BY <2>1 DEF Called
  <2>7. InfoShown(Main, o)
    BY <2>1 DEF InfoShown
  <2> QED BY <2>2, <2>3, <2>4, <2>5, <2>6, <2>7 DEF OpInv
<1>10. EmittedInPlace(Main.idles, Unseen(Main)) /\ Boxed(Main)
  BY <1>4, <1>8, MainParts DEF EmittedInPlace, Boxed, Displayed
<1> QED BY <1>2, <1>7, <1>9, <1>10 DEF ProgressInv, StateInv

LEMMA NextProgress ==
  ASSUME ProgressInv, [Next]_vars
  PROVE  ProgressInv'
<1>1. CASE RunIdle
  BY <1>1, RunIdleKeeps
<1>2. ASSUME NEW o \in Ops, Start(o)
      PROVE  ProgressInv'
  BY <1>2, StartKept
<1>3. ASSUME NEW o \in Ops, ThreadStep(o)
      PROVE  ProgressInv'
  BY <1>3, GetReadyKept, WakeKept, NextFileKept, AnswerKept, JobDoneKept DEF ThreadStep
<1>4. ASSUME NEW o \in Ops, Report(o) \/ LastFile(o) \/ Ask(o) \/ RunTimeout(o)
      PROVE  ProgressInv'
  BY <1>4, ReportKept, LastFileKept, AskKept, RunTimeoutKeeps
<1>5. ASSUME NEW o \in Ops, StartClicked(o) \/ QueueClicked(o) \/ CancelClicked(o)
      PROVE  ProgressInv'
  BY <1>5, StartClickedKeeps, QueueClickedKeeps, CancelClickedKeeps
<1>6. CASE UNCHANGED vars
  <2>1. UNCHANGED mainVars /\ pc' = pc /\ left' = left
    BY <1>6 DEF vars
  <2>2. Main' = Main
    BY <2>1, MainKept
  <2>3. StateInv(Main, pc, left) /\ pc \in [Ops -> Places] /\ left \in [Ops -> Int]
    BY DEF ProgressInv
  <2> QED BY <2>1, <2>2, <2>3, NextState
<1> QED BY <1>1, <1>2, <1>3, <1>4, <1>5, <1>6 DEF Next

\* The invariant holds of every state of every run.
THEOREM ProgressHolds == Spec => []ProgressInv
<1>1. Init => ProgressInv
  BY InitProgress
<1>2. ProgressInv /\ [Next]_vars => ProgressInv'
  BY NextProgress
<1> QED BY <1>1, <1>2, PTL DEF Spec

-----------------------------------------------------------------------------
(***************************************************************************)
(* What the invariant says of the callbacks and of the widgets.            *)
(***************************************************************************)
LEMMA CalledIsThere ==
  ASSUME ProgressInv
  PROVE  NoDanglingCallback
<1> SUFFICES ASSUME idles # << >>, NEW i, i = Head(idles)
             PROVE  /\ info[i.op].refs > 0
                    /\ i.kind = "notify" /\ i.widget => widget[i.op].state # "gone"
                    /\ i.kind = "off" => widget[i.op].state \notin {"none", "gone"}
  BY DEF NoDanglingCallback
<1>1. /\ Main \in Mains /\ idles \in Seq(IdleFunctions)
      /\ EmittedInPlace(idles, Unseen(Main)) /\ StateInv(Main, pc, left)
  BY MainParts DEF ProgressInv, StateInv, Mains
<1>2. i = idles[1] /\ 1 \in DOMAIN idles /\ i \in IdleFunctions /\ i \in ToSet(idles)
  <2>1. 1 \in DOMAIN idles /\ i = idles[1]
    BY <1>1, TailRemoves
  <2> QED BY <1>1, <2>1, HeadTailProperties DEF ToSet
<1>3. PICK o \in Ops : o = i.op
  BY <1>2 DEF IdleFunctions
<1>4. OpInv(Main, pc, left, o) /\ info[o] \in Infos
  BY <1>1, OneKeeps, MainParts
<1>5. CASE i.kind = "emit"
  <2>1. i = Emission(o)
    BY <1>2, <1>3, <1>5, EmissionIsOne
  <2>2. pc[o] # "over" \/ Displayed(Main, o)
    BY <1>2, <1>4, <2>1, MainParts DEF OpInv, SourceExact
  <2>3. info[o].refs > 0
    BY <1>4, <2>2, MainParts DEF OpInv, RefsExact
  <2> QED BY <1>3, <1>5, <2>3
<1>6. CASE i.kind # "emit"
  <2>1. Posted(Main, o)
    BY <1>2, <1>3, <1>6, MainParts DEF Posted
  <2>2. \/ Displayed(Main, o)
        \/ widget[o].state = "none" /\ pc[o] \in {"ready", "asleep"}
    BY <1>4, <2>1, MainParts DEF OpInv, Called
  <2>3. info[o].refs > 0
    BY <1>4, <2>2, MainParts DEF OpInv, RefsExact
  <2>4. widget[o].state # "gone"
    BY <2>2, MainParts DEF Displayed
  \* Until an operation is displayed its first signals come before all else.
  <2>5. widget[o].state # "none"
    <3>1. SUFFICES ASSUME widget[o].state = "none"
                   PROVE  FALSE
      OBVIOUS
    <3>2. pc[o] \in {"ready", "asleep"}
      BY <2>2, <3>1, MainParts DEF Displayed
    <3>3. Emission(o) \in ToSet(idles)
      BY <1>4, <3>1, <3>2, MainParts DEF OpInv, Due, SourceExact
    <3>4. PICK k \in DOMAIN idles : idles[k] = Emission(o)
      BY <3>3 DEF ToSet
    <3>5. Emission(o).kind = "emit" /\ Emission(o).op = o
      BY EmissionIsOne
    <3>6. 1 < k
      BY <1>1, <1>2, <1>6, <3>4, <3>5, LenProperties
    <3>7. o \notin Unseen(Main)
      BY <1>1, <1>2, <1>3, <3>4, <3>5, <3>6 DEF EmittedInPlace
    <3> QED BY <3>1, <3>7, MainParts DEF Unseen
  <2> QED BY <1>3, <2>3, <2>4, <2>5
<1> QED BY <1>5, <1>6

\* An idle function is called with an operation that is still there, and those
\* that pause an operation or take its pause button away with a widget that is
\* still there: nothing that baul-progress-info.c posts outlives what it is about.
THEOREM NoCallbackDangles == Spec => []NoDanglingCallback
<1>1. ProgressInv => NoDanglingCallback
  BY CalledIsThere
<1> QED BY <1>1, ProgressHolds, PTL

\* A thread waits at its next file when its widget says that it pauses or is
\* queued, unless the operation was cancelled, and it never waits behind a widget
\* that shows it as running (widget_state_transit_to and its callers).
THEOREM ThreadsWaitAsShown == Spec => []WaitsAsShown
<1>1. ProgressInv => WaitsAsShown
  <2>1. ASSUME ProgressInv, NEW o \in Ops
        PROVE  InfoShown(Main, o)
    BY <2>1 DEF ProgressInv, StateInv, OpInv
  <2> QED BY <2>1, MainParts DEF WaitsAsShown, InfoShown
<1> QED BY <1>1, ProgressHolds, PTL

\* Whichever source gives them, the last signals of an operation that is over are
\* given, and they remove its widget (queue_idle, idle_callback, op_finished).
THEOREM NoWidgetIsLeftOver == Spec => []NothingLeftOver
<1>1. ProgressInv => NothingLeftOver
  <2>1. ASSUME ProgressInv, NEW o \in Ops, pc[o] = "over", info[o].source = "none"
        PROVE  ~Displayed(Main, o)
    BY <2>1, MainParts DEF ProgressInv, StateInv, OpInv, Due
  <2> QED BY <2>1, MainParts DEF NothingLeftOver, Displayed
<1> QED BY <1>1, ProgressHolds, PTL
=============================================================================
