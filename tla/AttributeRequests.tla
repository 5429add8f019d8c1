--------------------------- MODULE AttributeRequests ---------------------------
(***************************************************************************)
(* What libbaul-private promises the callers of baul_file_call_when_ready  *)
(* (docs/baul-io.txt): "your callback function will be called when and if  *)
(* the requested information is ready".  A request waits, becomes due when *)
(* what it asks for is known, and is then delivered.  It can be withdrawn  *)
(* at any time before it is delivered.  Requests for which the promise is  *)
(* not kept are named: they may become due with nothing known.             *)
(***************************************************************************)
CONSTANTS
  Requests,
  Unpromised   \* the requests that become due whether they are known or not

VARIABLES
  waiting,   \* requests made and not satisfied
  due,       \* requests satisfied and not yet delivered
  known      \* requests whose information is up to date

vars == << waiting, due, known >>

Init == waiting = {} /\ due = {} /\ known \subseteq Requests

Ask(r) ==
  /\ r \notin waiting
  /\ waiting' = waiting \cup {r}
  /\ UNCHANGED << due, known >>

Withdraw(r) ==
  /\ waiting' = waiting \ {r}
  /\ due' = due \ {r}
  /\ UNCHANGED known

\* Information arrives, or is invalidated.
Learn ==
  /\ known' \subseteq Requests
  /\ UNCHANGED << waiting, due >>

\* Requests become due together, and only when their information is known.
Satisfy(S) ==
  /\ S \subseteq waiting
  /\ S \ Unpromised \subseteq known
  /\ waiting' = waiting \ S
  /\ due' = due \cup S
  /\ UNCHANGED known

Deliver(S) ==
  /\ S \subseteq due
  /\ due' = due \ S
  /\ UNCHANGED << waiting, known >>

Next ==
  \/ \E r \in Requests : Ask(r) \/ Withdraw(r)
  \/ Learn
  \/ \E S \in SUBSET Requests : Satisfy(S) \/ Deliver(S)

Spec == Init /\ [][Next]_vars
=============================================================================
