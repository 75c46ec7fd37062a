---------------------------- MODULE MCAmpProto ------------------------------
(* Small instances of AmpProto for TLC. *)
EXTENDS AmpLedger, TLC

CONSTANTS sum, long

\* every decimal text near the limits of int and unsigned int
MCNumerals == -INT_MAX - 2 .. UINT_MAX + 1

\* What a peer may answer: any key, a bad one, both kinds of reply at once,
\* and boxes that are not AMP at all.
ReplyBoxes ==
  {EmptyBox, [EmptyBox EXCEPT !.other = TRUE]}
    \cup {AnswerBox(v) : v \in Keys \cup {Garbage}}
    \cup {[EmptyBox EXCEPT !.error = 0 - 1], [ErrorBox(0) EXCEPT !.answer = 1]}

\* What a peer may ask, and one reply.
RequestBoxes ==
  {CallBox(cmd, a) : cmd \in Commands, a \in {Garbage, None}} \cup {AnswerBox(1)}

\* A faithful peer: replies with keys amp_call can draw.
ValidReplyBoxes == {AnswerBox(k) : k \in Keys} \cup {ErrorBox(k) : k \in Keys}

\* Both, for user code that misuses the API.
MisuseBoxes == {CallBox(sum, Garbage), CallBox(sum, None)}
                 \cup {AnswerBox(k) : k \in Keys}
                 \cup {EmptyBox, [EmptyBox EXCEPT !.other = TRUE]}

Symmetry == Permutations(Calls)

\* user code that never calls amp_reset_proto, whose allocation may fail too
NeverResets == Init /\ [][UserStep \/ ConsumeStep \/ ReturnStep]_vars
=============================================================================
