# Verification of libamp

TLA+ models of libamp, a C implementation of the Asynchronous Messaging
Protocol (AMP), with TLC runs and TLAPS proofs. The models follow the source:
`amp.c`, `dispatch.c`, `box.c`, `table.c`, `types.c`, `buftoll.c`, the failure
injection of `mem.c`, and the example programs, which are the library's only users.

## The system

libamp is a library without threads and without I/O. One `AMP_Proto` is one side
of one connection. A program hands it the bytes it received
(`amp_consume_bytes`); the library cuts them into *boxes* (maps from keys to
values), and calls *user functions*: a responder for a request, a result
callback for an answer, and a write handler for everything it sends. User
functions may call the library again, so its concurrency is re-entrancy.

| Component | State | Operations | Correct when | Module |
| --- | --- | --- | --- | --- |
| Engine (`amp.c`, `dispatch.c`) | `error`, `box`, `last_ask_key`, table of outstanding requests, table of responders, write handler | `amp_call`, `amp_call_no_answer`, `amp_cancel`, `amp_respond`, `amp_add_responder`, `amp_remove_responder`, `amp_set_write_handler`, `amp_reset_proto`, `amp_free_proto`, `amp_free_request`, dispatch of a box | a call gets one result or a known loss; callbacks and boxes are freed once; a fatal error stays | `AmpProto` |
| Parser (`amp_parse_box`, `amp_consume_bytes`) | `state`, `key_len`, `key_data`, `val_len`, `val_data`, `box`, `error` | one chunk of bytes at a time | the box dispatched is the box sent, wherever chunks end; it always returns | `AmpParser` |
| Messages (`_amp_process_full_packet`, `_amp_new_*`, `amp_free_*`) | requests, responses, errors, results and their chunks | build, hand over, reply, free | whatever fails, each allocation has one owner | `Messages` |
| Box (`box.c`) | chained hash table of pairs | put, get, delete, compare, serialize | it is a map; serializing and parsing are inverse | `Box` |
| Tables (`table.c` under `dispatch.c`) | chained hash tables of bindings, keys kept elsewhere | put, get, remove, free | they are maps; no binding outlives its key | `Dispatch` |
| Typed values (`types.c`, `buftoll.c`) | the locals of the digit loops | encode and decode int, unsigned, long long, bool, double, DateTime | decode inverts encode; range errors exactly outside the range | `Types` |
| Allocation (`mem.c`) | failure injection | `MALLOC` | | any allocation of `AmpProto`, `Messages`, `Box`, `Dispatch` may fail |
| Examples (`examples/`) | arguments, a socket, one `AMP_Proto` each | `main`, read loops, responder, event callbacks | results are right; every byte is consumed once; they stop | `Session` |
| `list.c`, `log.c`, `unix_string.c`, `ampc/`, `jansson/`, `test/` | | | not modelled, see the end | |

How they meet. The parser fills a box and hands it to the engine; the engine makes
a message of it, decoding its ask key with the typed values, looks the message up
in one of the two tables, and gives it to user code, which may re-enter any of
these. What it sends is a box, serialized into bytes that are the other side's
parser input. `Messages` is composed of `Types`; `Box` and `Dispatch` share
`Chains` and implement one abstract map, `KeyValueStore`; `AmpProto` implements
`CallLedger`. The engine's own model uses what the others establish: tables that
are maps, boxes that are maps, messages with one owner, decoding that is exact.

The hard parts: ask keys that wrap around and are reused while calls wait; late,
duplicate and malformed replies; cancellation racing a reply; calls made from
inside callbacks and replies consumed inside write handlers; an allocation or a
write failing at any point; parser state carried over chunks, boxes, errors and
resets. `PROJECT.json` lists them one by one, each at its line, with the
properties that watch them.

## Modules

| Module | What it is |
| --- | --- |
| `AmpProto` | the engine, one action per operation, at the granularity of whole boxes |
| `CallLedger` | what the engine promises about the results of calls, without keys, tables or a stack |
| `AmpLedger` | `AmpProto` implements `CallLedger`: the refinement mapping and the property `KeepsPromise` |
| `AmpParser` | the parser, one action per iteration of its loop |
| `Messages` | one box becomes a message, one action per allocation; extends `Types` |
| `Types` | one typed value, one action per iteration of the digit loops |
| `KeyValueStore` | what a hash table promises: a map per owner, with the last request and its outcome |
| `Chains` | a bucket: search, insertion at the head, removal; operators only |
| `Box` | `AMP_Box` over `Chains`; implements `KeyValueStore` |
| `Dispatch` | the tables of callbacks and of responders over `Chains`; implements `KeyValueStore` |
| `Session` | the example programs, joined by byte streams that may break |
| `MCAmpProto`, `MCMessages`, `MCTypes`, `MCBox`, `MCDispatch`, `MCSession` | small instances: which boxes, texts, keys and arguments occur |
| `AmpProtoProofs` | arithmetic of key reuse, the stack of user functions, types; errors stay, boxes have one owner, what a crash needs; at most one result, no lost call, whom a kept key names; the engine implements `CallLedger`; callback structs have one owner |
| `AmpParserProofs` | type correctness of the parser, agreement of its variables, fatal errors |
| `TypesProofs` | the digit loops neither overflow nor misread; types; a decoded DateTime is valid |
| `MessagesProofs` | one owner for whatever a message is made of; types; ask keys are read exactly |
| `ChainsProofs` | lemmas only: what insertion and removal do to a chain without duplicates, sums and joins over a table, induction on an index |
| `BoxProofs` | a box is a map; its counters; equality |
| `DispatchProofs` | the tables are maps; their keys stay readable; every structure has one owner |
| `SessionProofs` | results are right, one box is under way, types |

### AmpProto

A step is what the library does between two entries into user code. `stack`
holds the user functions the library has entered: `"call"`, `"no_answer"`,
`"respond"` and `"unhandled"` are write handlers, by who called them;
`"responder"`, `"result"` and `"cancel"` are the callbacks. While one is on top
any API function may be called (depth bounded by `MaxDepth`), and a `...Returns`
action models the code after the call: `CallReturns` is the end of `_amp_call`,
`UnhandledReturns` that of `_amp_process_full_packet`, `HandlerReturns` the part of
`amp_consume_bytes` after a successful dispatch.

* `outstanding_requests` is the callback table as a map from ask key to call;
  `callbacks` is the set of `_AMP_Callback` structs allocated and not freed, so
  that use after free and leaks are visible.
* `box` says whether `proto->box` is not NULL, `live_boxes` counts the boxes the
  library owns. Boxes handed to user code in a request or result are its own.
* `requests` counts the requests user code holds, per value of `_ask`. A request
  may be answered later, several times, or never: amp.h only says a responder
  *should* free it before it exits.
* `Consume(b)` is one box fed to `amp_consume_bytes`. `Refusal` is the order of
  tests in `_amp_process_full_packet`; numbers in boxes go through `GetUint` and
  `GetInt`, so out-of-range and non-numeric keys are refused as in the code. The
  table key is an unsigned number modulo `UINT_MAX + 1`, also for the `int` of an
  `_error` box, as `hash_callback_key` and `cmp_callback_key` read it.
* `oom` records that an allocation has failed. With `"malloc"` in `Env` every
  allocation may fail: `CallRefused` and `CallBacksOut` are the two halves of
  `_amp_call`'s error path, before and after the key was drawn; `...LosesResult`
  are the failures to allocate a result after the entry was popped.
* `status = "crashed"` is a NULL or wild pointer being followed.
* `Env` names what may go wrong around the library: `malloc`, `write` (handlers
  report failure), `no_handler` (`amp_set_write_handler` not called:
  `proto->write` is then uninitialised memory and every outcome is allowed),
  `respond_no_ask`, `reset_in_callback`, `reentrant_consume`.
* `issued`, `issued_at`, `ret`, `invoked` and `dropped` are history: when each call
  drew its key, what `amp_call` returned, how often its callback was invoked.

Abstracted: arguments and results, the text of errors, the serialized bytes. Not
modelled: `amp_free_proto` from inside a callback, and one callback struct shared
by two calls (there is no API for it).

### CallLedger and AmpLedger

`CallLedger` numbers the calls instead of giving them keys. A call is `"unused"`,
`"waiting"`, `"done"` or `"lost"`; `Start` and `Refuse` draw a number, `Deliver` and `Lose`
settle a waiting call, `Close` ends all waiting. `Start` and `Refuse` make no choice about
other calls: the one that has waited for exactly `M` numbers is lost, every other
keeps its place. `Lose` stands for the failed allocation of a result and is allowed
for any call that waits. `AmpLedger` reads `fate` off the callback table and the
history (a second result would be `"done twice"`, which `CallLedger` does not know)
and takes `issued` and `issued_at` for the numbers, with `M = UINT_MAX + 1`. So
`KeepsPromise` says that keys modulo `UINT_MAX + 1` in a hash table are as good as
numbers: a settled call never comes back, and which call is displaced, if any,
depends on its age alone.

### AmpParser

`buf` is what the running `amp_consume_bytes` has yet to read; `key_data` and
`val_data` are the bytes fetched so far, their lengths being the `..._fetched`
counters. A byte has `R` values instead of 256, so a key is at most `R - 1` long
and a value `R * R - 1`: with `R = 3` all lengths, and the limits, occur. Keys pass
through `strlen` on their way into the box (`KeyString`). Dispatch succeeds or
fails; the box that follows it is assumed to be there (the engine models the case
that it is not). `consumed` and `pairs` are history.

### Types

One box entry: an `amp_put_*` leaves `text`, an `amp_get_*` reads it. `buftoll` and
the digit loop of `amp_get_double` are one action per byte (`ReadDigit`,
`DigitTooBig`, `NotANumber`, ...), on the locals `rest`, `neg`, `any` and `acc`, so that
the cut-off test before each multiplication is what keeps `acc` in range. A DateTime is
nine such numbers at fixed offsets; `field` and `dt` are how far
`amp_get_datetime` has come. Integer types are parameters (`INT_MAX`, `UINT_MAX`,
`LLONG_MAX`); bytes are their codes. A double is the decimal that `%f` prints, with
`FRAC` digits after the dot, into a buffer of `DBL_BUF` bytes. `value` is the caller's
variable: unchanged by an error, except that `amp_get_long_long` sets it to 0
for an empty text. `put` is history: what was put.

### Messages

What `_amp_process_full_packet` and `amp_cancel` allocate and free, statement by
statement: `at` is the next statement, `heap` what is allocated, `locals` what only
variables of the running function point to, `parts` what the fields of each object
point to, `given` what user code holds. `Fail` is an `error:` label, `FreeMessage` the
`amp_free_*` functions, which free `Tree(o)`. Any allocation may fail (`...Oom`,
`...Fails`), and `get_fail_key` is the test build's way to make one `amp_get_*` fail.
The ask key of an `_answer` or `_error` is decoded by the actions of `Types`, with the
peer's bytes (`AskTexts`); between messages user code puts and gets values of its own
(`UserStep`). `amiss` is history: something was freed twice, or allocated while it still
was. The key copies of one message are named after their keys, so `heap` is a set.

### Box and Dispatch

Both are chained hash tables; `Chains` has the operators on one chain. In `Box` the
pair is in the chain; `keyvals` and `bindings` count the two structures a pair is made
of, so that a put that fails half-way or a replacement shows what it leaves behind.
Each `...Oom` action is one failed allocation. `Written` is the buffer that
`amp_serialize_box` fills, `Equal` the loop of `amp_boxes_equal`.

Both implement `KeyValueStore`. Its state holds, next to the maps, what was asked for last
(`asked`: the operation, the owner, the key and the value), whether it succeeded (`done`) and
what it found (`got`), and it leaves no choice but to refuse a creation or a put. `Box` and
`Dispatch` record the same: `asked` is history, set by each operation from its arguments alone;
`done` is `err = "OK"` in `Box` and history in `Dispatch`, where the code returns a pointer or
nothing. So a deletion that unlinks another key of the same chain, a lookup that returns
another key's value and a failed put that stores are no steps of the map.

In `Dispatch` a binding holds two pointers. The key of a callback points into the
callback; that of a responder to a string that user code owns and may free once it
has removed the command. `Bound` replaces the value of a known key but leaves the key pointer
alone, as `Table_put` does; `registered` is what user code believes. `leaked` is history:
the callbacks and responders displaced from a table, which nothing frees.

### Session

Any number of `sumclient` and `benchclient` processes and one `asyncserver`. A box is
a number of cells of the stream (`RequestCells`, `AnswerCells`), of which a read takes any
portion: `RecvPart` is a `recv` that completes no answer; `SumReply` and `BenchReply` are
one that does, with the callback and the next call it makes. `ReadCb` is `conn_readcb`: it takes at
most `ReadMax` cells (256 bytes in the code), and libevent calls it only when bytes have arrived.
Arguments pass through the checks of `main` and `parse_host_port`; a count is narrowed to an
`int`, sums wrap as a long long does on the machines it runs on. A connection may be reset at any
time and the server may end; what is under way is then lost, or, after an orderly
end, still delivered. `RecvEof` is the read loop at end of file, which goes round without end.

## Runs

| Run | Question | Bounds | Result |
| --- | --- | --- | --- |
| `calls` | Is every call answered once and none forgotten, with keys reused, any replies, cancellations, re-entrancy and failures? Whom can a kept ask key cancel? Does it implement `CallLedger`? | 3 calls, 2 ask keys, 4 keys drawn, depth 3 | 813 000 states |
| `serve` | Does every box have one owner, on the error paths too? Is NULL followed only after an allocation failed? Do errors stay? | 2 commands, one too long to report, 1 held request per `_ask`, depth 3 | 178 000 states |
| `misuse` | With resets and nested `amp_consume_bytes` inside callbacks and no write handler: does an error once returned stay, and is no box freed twice? (Calls and callbacks: proved, see below.) | 2 calls, 2 ask keys, 3 draws, depth 3 | 721 000 states |
| `parser` | Is the box dispatched the box sent, for every stream and every cut? Does it return? | 3-valued bytes, 12 bytes a box, chunks of 1 to 3 | 417 000 states |
| `messages` | Is decoding exact up to every bound, is what was put got back, and has everything allocated for a message one owner, whatever fails? | 12-bit int, 21-bit long long, every box over the 6 AMP keys, 9 ask keys, one message at a time | 232 000 states |
| `box` | Is a box a map, each operation acting on the key it was asked for, however keys collide and allocations fail? Do equality and the wire follow its contents? | 2 boxes, 5 keys, 3 values, 2 buckets, 3-valued bytes | 11 700 states |
| `dispatch` | Are the tables maps, each operation finding the key it was asked for, is every key they read alive, has every structure one owner? | 2 callbacks, 2 responders, 2 colliding ask keys and commands, 3 strings, 2 buckets | 281 000 states |
| `session` | Are the printed results right, and do clients finish, when streams are cut anywhere and may break? | 1 client of each kind, up to 4 operands, 5-bit long long, 3-bit int | 45 700 states |
| `wide_reply` | Can every pending call be answered and refused? | 4 ask keys | violated, see below |
| `respond_all` | May a responder answer every request? | | violated, see below |
| `box_oom` | Without `amp_reset_proto`, is there always a box or an error? | as `MCAmpProto!NeverResets` | violated, see below |
| `types_long_double` | Does every double come back? | a buffer of 8 bytes | violated, see below |

Bounds. Two ask keys and four draws make every key be drawn twice, and collisions
happen both with a waiting call and with a finished one. Depth 3 allows a reply
consumed inside the write handler of a call made inside a callback. Twelve bytes
are two pairs (the same key twice, a key with NUL in it) and the end of the box, or
one pair with the longest key and a long value. The texts of `messages` are all
texts of up to three bytes over a digit, both signs, a dot and a letter, every number
within 11 of a bound of each type in six spellings, and every change of one byte of a
DateTime; numbers and DateTimes put are those at a bound and one beyond. The
narrowed types keep their order, and the two limits of a long long keep different last
digits; that any widths will do is what `TypesCorrect` proves. Since `Messages` allocates nothing that outlives a message but `proto->box`, one
message at a time followed by another is enough. Keys and values of `box` reach
one past both limits; two of the three legal keys share a bucket. In `dispatch`
two strings name one command and ask keys come back, so every way to displace a
binding occurs.
In `session` an answer is two cells and a request three, so reads end inside and at the end of each.
Symmetry permutes calls (`calls`), boxes (`box`), callbacks and responders
(`dispatch`), which no definition tells apart; none of these runs checks liveness.
`box` also has a view, which leaves `asked` out: no operation reads it, so states that differ in
nothing else have the same steps, and TLC checks `IsMap` of each step it takes, not of each state.

Deadlock is not checked in `AmpProto` runs, as freed and crashed protocols stop, nor
in `session`, where programs end; it is checked in the others.

Fairness. Two properties are about liveness. `ConsumeReturns` of the parser
assumes weak fairness of `ParseStep`: a running `amp_consume_bytes` goes on running, as
plain sequential code does; chunks and resets are never assumed to come. `Completes` of
`session` assumes weak fairness of each client (a process that can run is scheduled)
and of each connection in the server (libevent polls every descriptor, and TCP
delivers while a connection lasts). Nothing is assumed to connect, break or end. The
engine promises nothing about time, as replies depend on the peer.

### What the violated runs show

* `wide_reply`: `_error` keys are decoded with `amp_get_int` (amp.c:193), `_answer`
  keys with `amp_get_uint`. Once keys pass `INT_MAX`, an error reply to a waiting
  call is refused with `AMP_OUT_OF_RANGE`, which is fatal for the connection.
* `respond_all`: `amp_respond` follows `request->ask_key` (amp.c:968), which is NULL
  for a request sent by `amp_call_no_answer`.
* `box_oom`: the box allocated after a dispatch (amp.c:698) is not tested. The run answers a
  call nobody waits for; the box of that answer is freed, the next one cannot be allocated, and
  `amp_consume_bytes` returns 0, though amp.h:347 lists `ENOMEM` for it. The next bytes are stored
  through NULL. (amp.c:451 in `amp_reset_proto` is not tested either; the run leaves resets out.)
* `types_long_double`: `amp_put_double` prints into 100 bytes and passes on what
  `snprintf` returned (types.c:270), which for 1e81 and more is the length the text
  would have had. `RoundTrip` then fails: the end of the text is missing from the box. (In place of
  the first byte missing stands the NUL of `snprintf`; for longer texts `_amp_put_buf` reads beyond the array.)

## Proofs

All proofs hold for every value of the constants that satisfies the assumptions:
`ConstantsAssumption` (the unsigned range has odd maximum, every ask key may occur
as a numeral, `None` is no value), `ParserAssumption` (a byte has at least two
values), `TypesAssumption` and `ValuesAssumption` (the integer types are nested, a long long
holds a DateTime field, and no number has more than `MAX_DIGITS` = 309 digits before its
dot, which is what the largest double has), `BoxAssumption` (at least one bucket, `Hash` maps
keys to naturals), `DispatchAssumption` (the same, and there are ask keys and strings),
`MessagesAssumption` (ask keys are texts), `SessionAssumption` (a request and an answer fit in one
read, an `int` can index the operands, a long long holds the sum 5 + 7 of benchclient). So they cover the real widths, bucket counts and hash
functions, which the runs narrow.

**Engine, calls.** `AmpProtoProofs!TypeCorrect` is `Spec => []TypeOK`; Boolean variables are
separated from the rest (`BoolTyped`, `DataTyped`), because one backend reasons well about the
former and the other about arithmetic.

`AmpProtoProofs!OneResultEach`, `NoCallLost`, `TableIsAnIndex`: none of `AtMostOneResult` and
`NoLostCall` is inductive. A reply is delivered once because the table holds only calls with no
result yet, and a call is not displaced because the key drawn is the draw's number modulo
`UINT_MAX + 1`. The inductive invariant `Ledger` adds `CallInv`: a call is filed under its own key
while it waits (`TableFiled`), keys follow the draws (`KeysDrawn`), a call not yet made has no
result (`CallsKnown`), and a write that amp_call waits for belongs to a call that was made
(`CallWriters`). `ModGap` (two draws that give one key are `UINT_MAX + 1` apart) carries the
wrap-around. The steps that touch the table are few (`LedgerStep`); the `Quiet...` lemmas show
that no other step does.

`AmpProtoProofs!EngineKeepsPromise` is the refinement, `Spec => KeepsPromise`. To `Ledger` it adds
`Fresh`: a registered call has not waited for all keys. With it `NextKeyTaken` shows that a call is
filed under the next key exactly when `CallLedger` displaces it, by `ModGap` in one direction and
`ModPlus` in the other. Steps that leave the table alone are stutters (`SameFates`); so is
`CallReturns`, which changes `ret` of a call that has its number already.

`AmpProtoProofs!KeptKeysNameNobody`: amp.h:290 says that cancelling a call that is over does nothing.
With keys that wrap this can only hold until its key is drawn again: `KeptKeyNamesNobody` says that the
key of any call made names that call, nobody, or a call `UINT_MAX + 1` draws younger. It is inductive on
top of `Ledger`: `Files` is the only step that binds a key (`FilesKeepsKeys`, by `ModGap` again), every other
one takes entries out (`FewerKeepsKeys`).

None of the theorems about calls has a hypothesis on `Env`: what they say also holds when user
code resets or feeds the protocol inside a callback, as in `misuse`.

`AmpProtoProofs!CallbacksHaveOneOwner`, `RefusedCallsLeaveNothing`: `CallbacksOwned` needs to know
that a struct is in use by one callback at most (`RunsOnce`: no call is on the stack twice, nor
while its callback is in the table) and belongs to a call that was made (`CallbacksKnown`).

**Engine, errors and memory.** `AmpProtoProofs!ErrorsStay`, `BoxesHaveOneOwner` and `CrashesNeedOom` have
hypotheses on `Env`, those under which the run `serve` checks the same properties: `Steady` (user
functions do not call `amp_consume_bytes` on the protocol that is calling them), `Calm` (nor
`amp_reset_proto`), `Prepared` (a write handler is set, requests without `_ask` are not answered, no nested
`amp_consume_bytes`). Without them the properties are false: a nested `amp_consume_bytes` that fails has
its error overwritten (amp.c:691), a reset in a callback leaks a box (amp.c:451), `respond_all` shows a
crash. What is left of them in every environment is stated by `misuse` and proved without hypotheses:
`ReportedErrorsStay` (an error is overwritten at most by a dispatch that was running when it was set) and
`BoxesFreedOnce` (`NoBoxFreedTwice`: boxes may leak, none is freed twice). The invariant behind the first three is that one box at most is being
dispatched (`OneDispatch`) and that while it is there is no error (`NoErrorYet`): then the
assignments of `amp_consume_bytes` after a dispatch find the `error` and `box` they expect. `BoxGiven`
(during a dispatch `proto->box` is NULL) makes `BoxBalanced` inductive. `ReadyErrorOrOom` has no
hypothesis: the box is missing only with an error, inside a dispatch, or after an allocation failed,
so a failed allocation, as in `box_oom`, is the only way.

**Parser.** `AmpParserProofs!TypeCorrect`, `ParserIsConsistent`, `ErrorsAreFatal`: the lengths stay within the
arrays and the variables agree in every state, which a comment at amp.c:546 only believes; one
lemma per action, with `ParserConsistent` itself inductive together with the types.
`NothingIsLost`: the bytes consumed, in whatever chunks, are the encoding of what was stored and is
being read (`NothingLost`, one lemma per action); the work is in taking two length bytes
apart and putting them together (`LenBytes`), for any radix. `BoxIsWhatWasRead`: the box is the last value
stored under each key (`BoxIsLastWrite`); `LastWritesAppend` says what one more store changes.

**Box.** `BoxProofs!ChainsAreFiled`, `BoxIsMap`, `BoxTyped`: the hash table implements `KeyValueStore`.
The inductive invariant is `Shape`: buckets are sequences of pairs, each in the bucket of its hash
and no key twice. Without the last part a deletion would uncover an older value. The work on one
chain is in `ChainsProofs` (`LinkChain`, `UnlinkChain`), stated for any chain without duplicates;
`PutStep`, `DelStep` and `ClearStep` lift it to the table and show the step of the map it is; `Granted`
and `FailsStep` tie the outcome to it, and `AskedStep` says that every request is one a box can be asked.
`EachKeyIsAccounted` adds `Books`: `length` and the structures counted equal the sum of the chains'
lengths (`TotalReplaced` says how one chain changes that sum). `EqualBoxesAreTheSame` is the
argument behind the one-way loop of `amp_boxes_equal`: a map with as many keys that contains
another equals it.
`WireHoldsTheBox`: no put leaves a size the length bytes cannot count (`Sized`); each prefix of the
pairs lies at the beginning of the buffer (`PrefixesAre`, with `Within` for "lies in"), the size computed and the size
written grow alike (`SizesAre`), and a peer that starts at the first byte finds each pair in turn and
stops at the last two bytes (`PairRead`, `EndRead`, `StartsAre`).

**Tables.** `DispatchProofs!DispatchTyped`, `KeysStayReadable`, `StructuresHaveOneOwner`, `TablesAreMaps`. A
binding's key is a pointer, so a chain is a chain of keys only as long as what they point to is
unchanged (`Stable`, `Seen`). `DispatchTyped` includes `Filed`: each binding in its bucket, no key
twice, lengths counted right. The inductive invariant has three parts: `Filing` (every binding is in the
bucket of the text it points to, and that is the key its structure was put under), `Counting`
(lengths are the numbers of bindings, no structure is in two) and `Owning` (stored, fresh, popped
and leaked structures are disjoint and make up the heap; strings in use are allocated).

**Typed values.** `TypesProofs!TypesCorrect`, `DecodedDateTimesAreValid`: `NoOverflow` and `DateTimeIsValid`.
`DigitFits` is the point: when the cut-off test lets a digit pass, ten times the accumulator and
the digit are within the long long, for both signs and whatever `LLONG_MAX` is (`LimitSplit` splits a
limit into cut-off and last digit). A DateTime needs `FieldsRead`: the fields read so far are
within their bounds. `TypesTyped` needs the shape of every encoded text (`DecimalIs`, `PadIs`,
`DateTimeTextIs`). `IntegersAreExact`: the loop has read the value of the digits behind it (`Reads`, kept by
`DigitReads`), so at its end it holds what the text means, and when it stops early no longer text
can fit the type, since digits only make a numeral larger (`ReadsBelow`, `TooBigIs`).
`DoublesAreDecimal`: the same for the loop with a dot, whose place is `frac` bytes back (`DoubleForm`).
`ValuesComeBack` is `RoundTrip`, under one hypothesis: no finite double of `Doubles` is longer than the
buffer (`DoublesFit`; `types_long_double` has one that is). `Kept` says that the box holds the text of what was
put (`Encodes`) and that the loop over a DateTime has found the numbers that were put (`DateScan`), so
no step of it can fail. The text of a number means that number (`DecimalMeaning`), that of a double has one dot
and the digits around it make up the number (`FiniteTextMeans`, by `BeforeDot` and `AfterDot`), and each
field of a DateTime is found where it was written (`DateTimeField`).
What a text means is a recursive function of its length; it is unfolded with `RecursionExists` and
the loops are followed with `UpTo`, which are induction on an index, derived in `ChainsProofs` from
the finiteness of intervals (`Least`).

**Messages.** `MessagesProofs!MessagesHaveOneOwner`: `OneOwner` says little about the middle of a function;
the inductive invariant `Owned` says at each statement what is allocated and which variable points
to it (`BuildsMessage`, `Pieces`, `HandsMessage`, `Replies`, `UserHas`, `Quiet`). `FailOwned` and `FreeMessageOwned` are
the two ways to give up, used by every error path. `MessagesTyped` rests on it.
`AskKeysDoNotOverflow` and `AskKeysAreExact` carry the theorems of `TypesProofs` over: each step on a message is a
step of `Types` or leaves its variables alone (`MessageStep`).

**Example programs.** `SessionProofs!ResultsAreRight`, `OneBoxUnderWay` and `SessionTyped`, from
`SessionInvariant`. Neither `Results` nor `Lockstep` is inductive: they say nothing about the contents of the
streams. `Flow` does: on each connection nothing is under way (`Idle`), or the last cells of the
request the client is waiting for (`Asks`), or those of its answer (`Told`), and the server's input buffer is empty
between its callbacks, because a request fits in one read. With it the answer a callback finds is known
(`ReplyIs`), and `Adds` and `Counts` say how far the client has come: the operand at the index is
the wrapped sum of those before it. That wrapping at each call gives the same as wrapping once
is `WrappedAdd`; cutting a box anywhere leaves a shorter end of the same box is `ReadRest`. A
step of one client leaves what the invariant says of the others alone (`SameGood`), so there is
one lemma per action.

Only model-checked: `ConsumeReturns` of the parser and `Completes` of `Session`. They are liveness
properties, out of the prover's reach.

## Not modelled

* Binary rounding of doubles: a finite double is the decimal `%f` prints, and the
  accumulator of `amp_get_double` is exact. `snprintf` is taken to do what C says.
* The separators of a DateTime, which `amp_get_datetime` never looks at
  (`DateTimeIsValid` is about what it does read). amp.h:519 promises
  `AMP_OUT_OF_RANGE` for integral types only; a DateTime gives it too.
* User code that frees a command string after it has registered a second string with
  the same text: the table goes on reading the first one (`Table_put` keeps the key
  pointer). amp.h does not say how long a string must live; in `Dispatch` user code frees it
  only while its command is not registered.
* `proto->box` NULL after a failed `amp_new_box`: in `Messages` only a reset can follow.
  What else can follow is in `AmpProto` (`box_oom`).
* In `Session`: running out of memory, timing output, and the `AMP_ERROR` branch of the
  clients' callbacks, which `asyncserver` never makes them take. Its `conn_eventcb` frees the bufferevent
  but not the `AMP_Proto`, and sumclient's write handler never frees the buffer, though
  amp.h:302 to 304 say who must; neither affects a later step of the programs.
* `list.c` (used by tests only), `log.c` (output), `unix_string.c` (C library
  replacements for Windows), `time_utils.c` (reads a clock), `ampc/` (stubs that return
  constants), `jansson/` (third party, not called), `test/` (read as documentation).
* `amp_chunk_for_buffer`, `amp_chunks_equal` and `Table_num_buckets`, which nothing in the
  library calls.

## Plan

What would come next: a server in `Session` whose responder keeps its requests and answers
them later, out of order.
