------------------------------- MODULE Session -------------------------------
(***************************************************************************)
(* The example programs: several sumclient and benchclient processes, each  *)
(* with a TCP connection to one asyncserver.  A box crosses the stream as a *)
(* number of cells that a read may take in any portions; what libamp does   *)
(* between a box and a callback is the subject of AmpProto and AmpParser.   *)
(***************************************************************************)
EXTENDS Integers, Sequences

CONSTANTS
  SumClients, BenchClients,
  SumArgs,       \* operand lists given to sumclient
  CountArgs,     \* numbers of calls given to benchclient
  HostPorts,     \* <host:port> arguments
  MaxAddresses,  \* addresses that getaddrinfo returns
  NI_MAXHOST, MAX_OPERANDS,
  LLONG_MAX, INT_MAX,
  ReadMax,       \* cells that fit in the 256 bytes of buf
  RequestCells, AnswerCells

Clients   == SumClients \cup BenchClients
LLONG_MIN == -LLONG_MAX - 1

(* A Sum request is at most 85 bytes long: _command, _ask and two operands  *)
(* of up to 20 digits.  Its answer is shorter.                              *)
ASSUME SessionAssumption ==
  /\ SumClients \cap BenchClients = {}
  /\ ReadMax \in Nat /\ RequestCells \in 1 .. ReadMax /\ AnswerCells \in 1 .. ReadMax
  /\ INT_MAX \in Nat \ {0} /\ LLONG_MAX \in Nat /\ LLONG_MAX >= 12
  /\ MAX_OPERANDS \in 1 .. INT_MAX + 1
  /\ SumArgs \subseteq Seq([valid : BOOLEAN, n : Int]) /\ CountArgs \subseteq [valid : BOOLEAN, n : Int]

VARIABLES
  pc,        \* of each client: "start", "connecting", "calling", "waiting" or "ended"
  status,    \* how it ended: "usage", "0", "1" or "killed"; "" before
  idx,       \* sumclient: Sum_State_T.idx; benchclient: Bench_State_T.count
  max,       \* max_idx or max_count
  operands,  \* of sumclient
  printed,   \* the result it printed, if any
  args,      \* history: what it was asked to do
  calls,     \* history: the answers it has received
  conn,      \* the client's socket: "none", "open", or broken: "eof", "reset"
  toServer, toClient,  \* the bytes under way
  inbuf,     \* the input buffer of the bufferevent
  bev,       \* the server's side: "none", "open" or "freed"
  server     \* "up" or "down"

clientVars == <<pc, status, idx, max, operands, printed, args, calls>>
netVars    == <<conn, toServer, toClient, inbuf, bev>>
vars       == <<clientVars, netVars, server>>

TypeOK ==
  /\ pc \in [Clients -> {"start", "connecting", "calling", "waiting", "ended"}]
  /\ status \in [Clients -> {"", "usage", "0", "1", "killed"}]
  /\ idx \in [Clients -> -INT_MAX - 1 .. INT_MAX] /\ max \in [Clients -> -INT_MAX - 1 .. INT_MAX]
  /\ \A c \in SumClients : /\ operands[c] \in Seq(LLONG_MIN .. LLONG_MAX)
                           /\ Len(operands[c]) <= MAX_OPERANDS
                           /\ idx[c] <= max[c] /\ max[c] < MAX_OPERANDS
  /\ conn \in [Clients -> {"none", "open", "eof", "reset"}]
  /\ bev \in [Clients -> {"none", "open", "freed"}]
  /\ \A c \in Clients : Len(toClient[c]) <= AnswerCells
  /\ server \in {"up", "down"}

Init ==
  /\ pc = [c \in Clients |-> "start"] /\ status = [c \in Clients |-> ""]
  /\ idx = [c \in Clients |-> 0] /\ max = [c \in Clients |-> 0]
  /\ operands = [c \in Clients |-> <<>>] /\ printed = [c \in Clients |-> <<>>]
  /\ args = [c \in Clients |-> <<>>] /\ calls = [c \in Clients |-> 0]
  /\ conn = [c \in Clients |-> "none"] /\ bev = [c \in Clients |-> "none"]
  /\ toServer = [c \in Clients |-> <<>>] /\ toClient = [c \in Clients |-> <<>>]
  /\ inbuf = [c \in Clients |-> <<>>]
  /\ server = "up"

-----------------------------------------------------------------------------
(* Arguments *)

\* two's complement: the conversion to int, and what overflow of a sum yields
Wrapped(n, m) == ((n + m + 1) % (2 * (m + 1))) - (m + 1)

\* strtonum on a text that is a number, [valid |-> TRUE, n |-> ...], or is not
StrToNum(text, lo, hi) ==
  LET error == CASE ~text.valid \/ lo > hi -> "invalid"
                 [] text.valid /\ lo <= hi /\ text.n < lo -> "too small"
                 [] text.valid /\ lo <= hi /\ text.n > hi -> "too large"
                 [] OTHER -> ""
  IN  [error |-> error, value |-> IF error = "" THEN text.n ELSE 0]

\* <<>> has no colon; otherwise the length of the host and the text of the port
ParseHostPort(hp) ==
  CASE hp = <<>>                 -> 1
    [] hp # <<>> /\ hp[1] + 1 > NI_MAXHOST -> 2
    [] OTHER -> IF StrToNum(hp[2], 1, 65535).value = 0 THEN 1 ELSE 0

End(c, how) ==
  /\ pc' = [pc EXCEPT ![c] = "ended"]
  /\ status' = [status EXCEPT ![c] = how]

SumArgsOK_OneMore(ops, hp) ==
  /\ Len(ops) >= 2 /\ Len(ops) - 1 <= MAX_OPERANDS
  /\ \A i \in 1 .. Len(ops) : StrToNum(ops[i], LLONG_MIN, LLONG_MAX).error = ""
  /\ ParseHostPort(hp) = 0
\* not too few operands, nor too many, all of them numbers, and a <host:port>
SumArgsOK(ops, hp) ==
  /\ Len(ops) >= 2 /\ Len(ops) - 1 < MAX_OPERANDS
  /\ \A i \in 1 .. Len(ops) : StrToNum(ops[i], LLONG_MIN, LLONG_MAX).error = ""
  /\ ParseHostPort(hp) = 0

SumMain(c, ops, hp) ==
  /\ pc[c] = "start"
  /\ IF SumArgsOK(ops, hp)
       THEN /\ pc' = [pc EXCEPT ![c] = "connecting"]
            /\ max' = [max EXCEPT ![c] = Len(ops) - 1]
            /\ operands' = [operands EXCEPT ![c] = [i \in 1 .. Len(ops) |-> ops[i].n]]
            /\ args' = [args EXCEPT ![c] = operands'[c]]
            /\ UNCHANGED status
       ELSE /\ End(c, "usage")
            /\ UNCHANGED <<max, operands, args>>
  /\ UNCHANGED <<idx, printed, calls, netVars, server>>

BenchMain(c, count, hp) ==
  /\ pc[c] = "start"
  /\ LET n == StrToNum(count, 0, LLONG_MAX) IN
     IF ParseHostPort(hp) = 0 /\ n.error = ""
       THEN /\ pc' = [pc EXCEPT ![c] = "connecting"]
            /\ max' = [max EXCEPT ![c] = Wrapped(n.value, INT_MAX)]
            /\ args' = [args EXCEPT ![c] = << n.value >>]
            /\ UNCHANGED status
       ELSE End(c, "usage") /\ UNCHANGED <<max, args>>
  /\ UNCHANGED <<idx, operands, printed, calls, netVars, server>>

\* connect_tcp: what becomes of each address tried, in turn
ConnectTcp(tries) == \E i \in 1 .. Len(tries) : tries[i] = "connected"

Connect(c) ==
  /\ pc[c] = "connecting"
  /\ \E n \in 0 .. MaxAddresses :
     \E tries \in [1 .. n -> {"no socket", "refused", "connected"}] :
       /\ \A i \in 1 .. n - 1 : tries[i] # "connected"
       /\ server = "down" => ~ConnectTcp(tries)
       /\ IF ConnectTcp(tries)
            THEN /\ pc' = [pc EXCEPT ![c] = "calling"]
                 /\ conn' = [conn EXCEPT ![c] = "open"]
                 /\ UNCHANGED status
            ELSE End(c, "1") /\ UNCHANGED conn
  /\ UNCHANGED <<idx, max, operands, printed, args, calls, toServer, toClient, inbuf, bev, server>>

-----------------------------------------------------------------------------
(* sumclient and benchclient *)

Cells(box, n) == [i \in 1 .. n |-> [box |-> box, last |-> i = n]]

(* amp_call with do_write, which ignores what send returns.  On a broken    *)
(* connection the bytes are lost; the signal for writing to one kills the   *)
(* process, unless send reports, and so clears, the error.                  *)
Send(c, a, b) ==
  IF conn[c] = "open"
    THEN /\ toServer' = [toServer EXCEPT ![c] = @ \o Cells(<<a, b>>, RequestCells)]
         /\ pc' = [pc EXCEPT ![c] = "waiting"]
         /\ UNCHANGED <<conn, status>>
    ELSE /\ \/ pc' = [pc EXCEPT ![c] = "waiting"] /\ UNCHANGED status
            \/ End(c, "killed")
         /\ \E state \in {"eof", "reset"} : conn' = [conn EXCEPT ![c] = state]
         /\ UNCHANGED toServer

SumCall_Rereads(c, ops) ==
  /\ Send(c, ops[idx[c] + 1], ops[idx[c] + 1])
  /\ idx' = [idx EXCEPT ![c] = @ + 1]
  /\ operands' = [operands EXCEPT ![c] = ops]
\* do_sum_call of sumclient, with the operands it finds
SumCall(c, ops) ==
  /\ Send(c, ops[idx[c] + 1], ops[idx[c] + 2])
  /\ idx' = [idx EXCEPT ![c] = @ + 1]
  /\ operands' = [operands EXCEPT ![c] = ops]

BenchCall_Pipelined(c) ==
  /\ conn[c] = "open" /\ pc' = [pc EXCEPT ![c] = "waiting"]
  /\ toServer' = [toServer EXCEPT ![c] = @ \o Cells(<<5, 7>>, RequestCells) \o Cells(<<5, 7>>, RequestCells)]
  /\ UNCHANGED <<conn, status>>
\* do_sum_call of benchclient
BenchCall(c) == Send(c, 5, 7)

FirstSum(c) ==
  /\ c \in SumClients /\ pc[c] = "calling"
  /\ SumCall(c, operands[c])
  /\ UNCHANGED <<max, printed, args, calls, toClient, inbuf, bev, server>>

FirstBench(c) ==
  /\ c \in BenchClients /\ pc[c] = "calling"
  /\ BenchCall(c)
  /\ UNCHANGED <<idx, max, operands, printed, args, calls, toClient, inbuf, bev, server>>

\* a call of recv returns the first n bytes that have arrived
Receive(c, n) ==
  /\ pc[c] = "waiting" /\ n <= Len(toClient[c])
  /\ toClient' = [toClient EXCEPT ![c] = SubSeq(@, n + 1, Len(@))]

\* the boxes that end in these cells, each by its last cell
Boxes(cells) ==
  LET ended[i \in 0 .. Len(cells)] ==
        IF i = 0 THEN <<>>
        ELSE IF cells[i].last THEN Append(ended[i - 1], cells[i]) ELSE ended[i - 1]
  IN  ended[Len(cells)]
Arrived(c, n) == Boxes(SubSeq(toClient[c], 1, n))

RecvPart(c, n) ==
  /\ Receive(c, n) /\ Arrived(c, n) = <<>>
  /\ UNCHANGED <<clientVars, conn, toServer, inbuf, bev, server>>

\* the client prints and exits; its socket is closed
Finish(c, result) ==
  /\ printed' = [printed EXCEPT ![c] = <<result>>]
  /\ End(c, "0")

\* resp_cb of sumclient
SumReply(c, n) ==
  /\ c \in SumClients /\ Receive(c, n) /\ Arrived(c, n) # <<>>
  /\ calls' = [calls EXCEPT ![c] = @ + 1]
  /\ LET total == Arrived(c, n)[1].box[1] IN
     IF idx[c] = max[c]
       THEN Finish(c, total) /\ UNCHANGED <<idx, operands, conn, toServer>>
       ELSE /\ SumCall(c, [operands[c] EXCEPT ![idx[c] + 1] = total])
            /\ UNCHANGED printed
  /\ UNCHANGED <<max, args, inbuf, bev, server>>

\* resp_cb of benchclient
BenchReply(c, n) ==
  /\ c \in BenchClients /\ Receive(c, n) /\ Arrived(c, n) # <<>>
  /\ calls' = [calls EXCEPT ![c] = @ + 1]
  /\ idx' = [idx EXCEPT ![c] = Wrapped(@ + 1, INT_MAX)]
  /\ IF idx'[c] = max[c] THEN Finish(c, idx'[c]) /\ UNCHANGED <<conn, toServer>>
                         ELSE BenchCall(c) /\ UNCHANGED printed
  /\ UNCHANGED <<max, operands, args, inbuf, bev, server>>

\* recv fails, and main returns 0
RecvFails(c) ==
  /\ pc[c] = "waiting" /\ conn[c] = "reset"
  /\ End(c, "0")
  /\ UNCHANGED <<idx, max, operands, printed, args, calls, netVars, server>>

\* recv returns 0, again and again
RecvEof(c) ==
  /\ pc[c] = "waiting" /\ conn[c] = "eof" /\ toClient[c] = <<>>
  /\ UNCHANGED vars

-----------------------------------------------------------------------------
(* asyncserver *)

\* listener_cb
Accept(c) ==
  /\ server = "up" /\ conn[c] # "none" /\ bev[c] = "none"
  /\ bev' = [bev EXCEPT ![c] = "open"]
  /\ UNCHANGED <<clientVars, conn, toServer, toClient, inbuf, server>>

\* sum_responder, for each request in turn
Answers(requests) ==
  LET answer(r) == Cells(<< Wrapped(r.box[1] + r.box[2], LLONG_MAX) >>, AnswerCells)
      out[i \in 0 .. Len(requests)] == IF i = 0 THEN <<>> ELSE out[i - 1] \o answer(requests[i])
  IN  out[Len(requests)]

Taken_OneLess(in) == IF Len(in) < ReadMax - 1 THEN Len(in) ELSE ReadMax - 1
\* what bufferevent_read takes out of the input buffer
Taken(in) == IF Len(in) < ReadMax THEN Len(in) ELSE ReadMax

(* libevent has read n bytes from the socket into the input buffer, and     *)
(* calls conn_readcb, once.                                                 *)
ReadCb(c, n) ==
  /\ server = "up" /\ bev[c] = "open" /\ n <= Len(toServer[c])
  /\ toServer' = [toServer EXCEPT ![c] = SubSeq(@, n + 1, Len(@))]
  /\ LET in  == inbuf[c] \o SubSeq(toServer[c], 1, n)
         out == Answers(Boxes(SubSeq(in, 1, Taken(in))))
     IN  /\ inbuf' = [inbuf EXCEPT ![c] = SubSeq(in, Taken(in) + 1, Len(in))]
         /\ toClient' = [toClient EXCEPT ![c] = IF conn[c] = "open" /\ pc[c] # "ended"
                                                THEN @ \o out ELSE @]
  /\ UNCHANGED <<clientVars, conn, bev, server>>

\* conn_eventcb, on the end of the stream or an error; the AMP_Proto is kept
EventCb(c) ==
  /\ server = "up" /\ bev[c] = "open"
  /\ conn[c] = "reset" \/ (pc[c] = "ended" /\ toServer[c] = <<>>)
  /\ bev' = [bev EXCEPT ![c] = "freed"]
  /\ inbuf' = [inbuf EXCEPT ![c] = <<>>]
  /\ UNCHANGED <<clientVars, conn, toServer, toClient, server>>

-----------------------------------------------------------------------------
(* Failures: a connection breaks, or the server ends.                       *)

Reset(c) ==
  /\ conn[c] = "open" /\ pc[c] # "ended"
  /\ conn' = [conn EXCEPT ![c] = "reset"]
  /\ toServer' = [toServer EXCEPT ![c] = <<>>]
  /\ toClient' = [toClient EXCEPT ![c] = <<>>]
  /\ UNCHANGED <<clientVars, inbuf, bev, server>>

(* Each open connection ends with the server: in an orderly way, or with a  *)
(* reset when the server had bytes of it left to read.                      *)
ServerEnds ==
  /\ server = "up" /\ server' = "down"
  /\ \E resets \in SUBSET {c \in Clients : conn[c] = "open"} :
       /\ conn' = [c \in Clients |-> IF conn[c] # "open" THEN conn[c]
                                     ELSE IF c \in resets THEN "reset" ELSE "eof"]
       /\ toClient' = [c \in Clients |-> IF c \in resets THEN <<>> ELSE toClient[c]]
  /\ toServer' = [c \in Clients |-> <<>>]
  /\ inbuf' = [c \in Clients |-> <<>>]
  /\ UNCHANGED <<clientVars, bev>>

-----------------------------------------------------------------------------
Client(c) ==
  \/ Connect(c) \/ FirstSum(c) \/ FirstBench(c) \/ RecvFails(c)
  \/ \E n \in 1 .. ReadMax : RecvPart(c, n) \/ SumReply(c, n) \/ BenchReply(c, n)

Serve(c) == Accept(c) \/ EventCb(c) \/ \E n \in 1 .. Len(toServer[c]) : ReadCb(c, n)

Next ==
  \/ \E c \in Clients, hp \in HostPorts :
       \/ c \in SumClients /\ \E ops \in SumArgs : SumMain(c, ops, hp)
       \/ c \in BenchClients /\ \E count \in CountArgs : BenchMain(c, count, hp)
  \/ \E c \in Clients : Client(c) \/ RecvEof(c) \/ Serve(c) \/ Reset(c)
  \/ ServerEnds

(* A client that can run runs, and libevent serves each connection with     *)
(* something to read.                                                       *)
Fairness == \A c \in Clients : WF_vars(Client(c)) /\ WF_vars(Serve(c))

Spec == Init /\ [][Next]_vars /\ Fairness

-----------------------------------------------------------------------------
SumOf(ops) == LET sum[i \in 0 .. Len(ops)] == IF i = 0 THEN 0 ELSE sum[i - 1] + ops[i]
              IN  sum[Len(ops)]

(* A client that prints a result prints the right one, after as many        *)
(* answers as it had calls to make: the sum of its operands, in as many     *)
(* bits as a long long has, or the number of calls asked for, whatever the  *)
(* portions the stream was read in and wherever it might have broken.       *)
(* A client that ends with nothing printed has found its connection broken, *)
(* or never had one.                                                        *)
Results ==
  \A c \in Clients :
    /\ printed[c] # <<>> =>
         IF c \in SumClients
           THEN /\ printed[c] = << Wrapped(SumOf(args[c]), LLONG_MAX) >>
                /\ calls[c] = Len(args[c]) - 1
           ELSE args[c][1] \in 1 .. INT_MAX => printed[c] = args[c] /\ calls[c] = args[c][1]
    /\ (pc[c] = "ended" /\ printed[c] = <<>>) => conn[c] # "open"

(* A client waits for one answer at a time: at any moment its request is in *)
(* the stream, or in the server's input buffer, or its answer is on the way *)
(* back, exactly one of these; so no read ever meets a second box.          *)
Lockstep ==
  \A c \in Clients :
    (pc[c] = "waiting" /\ conn[c] = "open") =>
      LET underWay == toServer[c] \o inbuf[c] \o toClient[c] IN
      Len(Boxes(underWay)) = 1

(* While the connection and the server last, every client started with a   *)
(* number of calls that an int holds gets its result: no part of a box is   *)
(* left unread, though conn_readcb takes at most 256 bytes of what has      *)
(* arrived and is not called again for the rest (asyncserver.c:129).        *)
Completes ==
  \A c \in Clients :
    (pc[c] = "calling" /\ max[c] > 0) ~> (printed[c] # <<>> \/ conn[c] # "open")
=============================================================================
