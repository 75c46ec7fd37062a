------------------------------ MODULE AmpLedger ------------------------------
(* AmpProto keeps the promise of CallLedger: the refinement mapping.        *)
EXTENDS AmpProto

\* what has become of call c, read off the callback table and the history
Fate(c) == IF invoked[c] > 1 THEN "done twice"     \* no fate of CallLedger
           ELSE IF invoked[c] = 1 THEN "done"
           ELSE IF ret[c] = "none" THEN "unused"
           ELSE IF c \in Registered THEN "waiting"
           ELSE "lost"

Promise == INSTANCE CallLedger WITH
             fate   <- [c \in Calls |-> Fate(c)],
             drawn  <- issued,
             number <- issued_at

(* Ask keys modulo UINT_MAX + 1 in a hash table are as good as numbering    *)
(* the calls: whatever user code, the peer and the allocator do, a call     *)
(* gets its result once, a lost call never comes back to life, and the only *)
(* call that amp_call ever displaces is the one that has waited for exactly *)
(* as long as there are keys.                                               *)
KeepsPromise == Promise!Spec
=============================================================================
