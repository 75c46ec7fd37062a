----------------------------- MODULE CallLedger -----------------------------
(***************************************************************************)
(* What libamp promises about the results of amp_call, without ask keys,    *)
(* tables, boxes or a stack: every call is numbered when it is made, waits  *)
(* for a result, and then gets one or is known to have lost it.  A call     *)
(* that still waits when the M-th number after its own is drawn is lost.    *)
(***************************************************************************)
EXTENDS Integers

CONSTANTS
  Calls,
  M         \* how many calls can wait at once

VARIABLES
  fate,     \* call -> "unused", "waiting", "done" or "lost"
  drawn,    \* numbers drawn so far
  number    \* call -> the number last drawn for it

vars == <<fate, drawn, number>>

Init ==
  /\ fate = [c \in Calls |-> "unused"]
  /\ drawn = 0
  /\ number = [c \in Calls |-> 0]

Settle(c, f) == fate' = [fate EXCEPT ![c] = f]

\* f, less the calls that have waited for M numbers when the next is drawn
Displacing(f) ==
  [d \in Calls |-> IF fate[d] = "waiting" /\ (drawn + 1) - number[d] = M
                   THEN "lost" ELSE f[d]]

\* a number is drawn for c, which then waits, or was refused after all
Draw(c, f) ==
  /\ fate[c] = "unused"
  /\ drawn' = drawn + 1
  /\ number' = [number EXCEPT ![c] = drawn + 1]
  /\ fate' = Displacing([fate EXCEPT ![c] = f])

Start(c)  == Draw(c, "waiting")
Refuse(c) == Draw(c, "unused")

Deliver(c) == fate[c] = "waiting" /\ Settle(c, "done") /\ UNCHANGED <<drawn, number>>
Lose(c)    == fate[c] = "waiting" /\ Settle(c, "lost") /\ UNCHANGED <<drawn, number>>

\* amp_free_proto: nobody waits any more
Close ==
  /\ fate' = [c \in Calls |-> IF fate[c] = "waiting" THEN "lost" ELSE fate[c]]
  /\ UNCHANGED <<drawn, number>>

Next == Close \/ \E c \in Calls : Start(c) \/ Refuse(c) \/ Deliver(c) \/ Lose(c)

Spec == Init /\ [][Next]_vars
=============================================================================
