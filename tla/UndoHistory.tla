------------------------------ MODULE UndoHistory ------------------------------
(***************************************************************************)
(* What an undo manager promises: the operations that can be undone and    *)
(* those that can be redone form one history, which is undone from its end *)
(* and redone from where it was undone to.  A new operation ends what could *)
(* be redone; the oldest operations are forgotten beyond a limit, and any   *)
(* may be forgotten when the trash is emptied, with all that could be      *)
(* redone.                                                                 *)
(***************************************************************************)
EXTENDS Integers, Sequences

CONSTANTS Ops, Levels

VARIABLES
    done,   \* what can be undone, the newest first
    undone  \* what can be redone, the next one first

Init == done = << >> /\ undone = << >>

Perform(op) ==
    /\ done' = SubSeq(<<op>> \o done, 1, IF Len(done) < Levels THEN Len(done) + 1 ELSE Levels)
    /\ undone' = << >>

Undo ==
    /\ done # << >>
    /\ done' = Tail(done)
    /\ undone' = <<Head(done)>> \o undone

Redo ==
    /\ undone # << >>
    /\ undone' = Tail(undone)
    /\ done' = <<Head(undone)>> \o done

\* What is left keeps its order.
Forget ==
    /\ undone' = << >>
    /\ done' \in Seq(Ops)
    /\ \E place \in [DOMAIN done' -> DOMAIN done] :
          /\ \A m, n \in DOMAIN done' : m < n => place[m] < place[n]
          /\ \A n \in DOMAIN done' : done'[n] = done[place[n]]

Next == (\E op \in Ops : Perform(op)) \/ Undo \/ Redo \/ Forget

Spec == Init /\ [][Next]_<<done, undone>>
=============================================================================
