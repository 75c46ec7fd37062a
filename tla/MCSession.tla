------------------------------ MODULE MCSession ------------------------------
(* One client of each kind, and up to four operands.  A long long has five  *)
(* bits, enough for benchclient's 5 + 7; an int has three, so that a count  *)
(* of 0 and one that does not fit are seen to wrap.                         *)
EXTENDS Session

Number(n) == [valid |-> TRUE, n |-> n]
NaN       == [valid |-> FALSE, n |-> 0]
Numbers(s) == [i \in 1 .. Len(s) |-> Number(s[i])]

MCSumArgs ==
  { Numbers(<<1>>), Numbers(<<1, 2>>), Numbers(<<15, 2, -3>>), Numbers(<<1, 2, 3, 4>>), Numbers(<<1, 2, 3, 4, 5>>),
    Numbers(<<1, 16>>), Numbers(<<1, -17>>), <<Number(1), NaN>> }
MCCountArgs == { Number(2), Number(0), Number(5), NaN }
MCHostPorts == { << 2, Number(1234) >>, <<>>, << 3, Number(1) >>, << 2, Number(65536) >> }
=============================================================================
