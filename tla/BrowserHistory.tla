---------------------------- MODULE BrowserHistory ----------------------------
(* What Back and Forward promise: the places a tab has shown, in the order  *)
(* of the visits, and which of them it shows now.                           *)
EXTENDS Naturals, Sequences

CONSTANT Locations

VARIABLES
  entries,   \* the places, the oldest first
  position   \* which of them is shown; 0 before the first

vars == << entries, position >>

Init ==
  /\ entries = << >>
  /\ position = 0

\* A new place replaces the ones that were ahead.
Visit(l) ==
  /\ entries' = Append(SubSeq(entries, 1, position), l)
  /\ position' = position + 1

\* Asking for the place that is shown already only drops the ones ahead.
Revisit ==
  /\ entries' = SubSeq(entries, 1, position)
  /\ UNCHANGED position

\* Back and Forward move within the history and change none of it.
Go(p) ==
  /\ position' = p
  /\ UNCHANGED entries

Forget ==
  /\ position > 0
  /\ entries' = << entries[position] >>
  /\ position' = 1

Next ==
  \/ \E l \in Locations : Visit(l)
  \/ Revisit
  \/ \E p \in 1..Len(entries) : Go(p)
  \/ Forget

Spec == Init /\ [][Next]_vars
=============================================================================
