# Verification of cxx-util

cxx-util is a C++ library of small concurrency and I/O components on top of
Boost.Asio and websocketpp. This directory holds TLA+ models of those that
have behaviour over time, the TLC runs that check them, and TLAPS proofs about
all of these. Paths below are relative to the repository.

    tlc -config MCAcceptor.cfg MCAcceptor        # one run
    tlapm OperationProofs.tla                    # one proof module

`PROJECT.json` lists components, runs, the source lines of every definition
(`map`), hazards, findings, and for every checked property a change to the
code's model that breaks it (`mutants`: operators marked "mutant of" in the
modules, which no specification uses).

## 1. The system

### Components that are modelled

| component | state | operations | what has to be right |
|---|---|---|---|
| `ProducerConsumerQueue` (producerconsumerqueue.hpp) | queues of handlers and of data | `consume`, `produce`, `post` | the k-th handler gets the k-th datum, nothing lost, nothing left waiting on both sides, while handlers call back in and throw |
| `ws::MessageQueue` (asio/ws/messagequeue.hpp) | receive queue, connection pointer | `setConnectionPtr`, `asyncReceive`, `asyncSend`, `close`, message and close handlers | each completion handler once, stream in order, a reader learns of the end |
| `ws::Acceptor` (asio/ws/acceptor.hpp) | connection queue, server | `listen`, `asyncAccept`, `close`, open/fail handler | each accept answered once, no connection given twice or left open ownerless |
| `ws::Connector` (asio/ws/connector.hpp) | map of nascent connections | `asyncConnect`, `close`, open and fail handlers | each connect answered once and truthfully, callbacks taken down |
| a session (tests/asio-ws.cpp) | an Acceptor, a MessageQueue and a peer on one `io_service` | all of theirs | the reader gets what the peer sent, from the first message on |
| `TransparentService`, `TransparentIoObject` (asio/transparentservice.hpp) | pointer to the implementation, work objects in handlers | construct, move, `close`, destroy, completion tokens | `run()` and the implementation outlive handlers; `run()` then ends |
| `IoThread` (asio/iothread.hpp, src/iothread.cpp) | work object, future of `run()` | `join`, destructor | ends, and hands on what a handler threw |
| `SerialPortOpener`, `setSerialPortOptions` | one timer, its expiry time used as a "closed" mark; the port | `asyncOpen`, `asyncOpenUntilSuccess`, `close` | success means configured, `close()` ends it, retries end |
| `Operation` v1 and v2 (asio/operation.hpp) | reference count, result, handler | start, `runChild`, `complete`, suspension | state outlives every branch, handler called once and last |
| `composed::op`, `op_continuation` (composed/op.hpp) | task pointer, `cont` | `start_op`, continuation, `complete` | one owner at any moment, handler once, after everything is freed |
| `PotRingbuffer`, `PotQueue` | two indices, an array | push/pop at both ends, `at`, `size`… | index arithmetic past every wrap; sharing with an interrupt handler |
| `Variant` (variant.hpp) | storage, a destructor pointer | construct, move, assign, `swap`, `apply` | every value destroyed once, as what it is |
| `Version` (version.hpp, src/version.cpp) | numbers, pre-release, build metadata | `parse`, comparison, printing | the order of semantic versions; what is printed can be read |
| `global` (global.hpp) | a static mutex and weak pointer | `global<T>()`, release of the last pointer | one object for all users |
| loggers of handlers (asio/associatedlogger.hpp, composed/associated_logger.hpp) | a logger per handler, defaults per thread and framework | add, keep, annotate | records of operations do not mix |
| log setup (src/log.cpp) | Boost.Log's core and sinks | option notifiers | logging is on when a sink is there |
| parameter packs (composed/stdlib.hpp, index_sequence.hpp, …) | none | `any`, `max`, overloads, tuples | every element, in order |

They interact as follows. Acceptor and MessageQueue hold their state in a
ProducerConsumerQueue, through which they couple callbacks of websocketpp with
calls of the user. Acceptor, Connector and MessageQueue are implementations
that a TransparentService owns and a TransparentIoObject refers to: their
destruction is its `destroy`, close then drop the pointer. All run on an
`io_service`, typically that of an IoThread. Acceptor and Connector give a
connection to a MessageQueue through `setConnectionPtr`. SerialPortOpener is
written as two v2 Operations, one starting the other. `composed::op` is the
later design of the same idea as Operation, without a reference count. The
other classes stand alone.

### What is hard in this code

* Interleavings of the user's calls, posted functions and callbacks of
  websocketpp: a close against a message, a handshake or an accept; a message
  against the posted half of `handleOpen`.
* User code inside library code: a handler called from `post()`, a task
  completing inside another task's op, exceptions through both.
* Lifetime: handlers own implementations that own handlers; branches of an
  operation end in any order, or with their `io_service`; a global is released
  while another thread asks for it; moves leave objects that nobody destroys.
* Timers: an expiry that is already queued when `close()` cancels the wait.
* Retries: an attempt that fails halfway, a device that comes and goes between
  two system calls.
* Index arithmetic at the wrap of `size_t`, of 2N and of N; an interrupt
  between two accesses of a volatile index.

Each is a row of "hazards" in `PROJECT.json`, with the properties that cover
it, or a note.

### Components that are not modelled

* `composed::handler_ptr` (composed/handler_ptr.hpp) includes
  composed/handler_hooks.hpp, which does not exist: it cannot be compiled, and
  composed/op.hpp takes beast's.
* composed/op_logger.hpp goes through `op_continuation::get_task()`, which is
  ill-formed when instantiated: composed/op.hpp:125 returns `*task`, a `Task&`,
  as a `const task_ptr&`.
* `Callback` and `Signal` (callback.hpp) are a pair of pointers that is assigned,
  copied and called on the spot: they have no behaviour over several steps.
* The hooks and `AsyncCompletion` only forward to customisation points of asio.
* math.hpp, logsafely.hpp, ws/logger.hpp and the file helpers: conversions of
  numbers and texts, and single calls to the operating system or to Boost.Log.
* The RPC test program, a test against another library, and the vendored
  doctest.h.

## 2. The modules

Each component has one module; `MC<module>` instantiates it for TLC, and the
small classes share `MCUtilities`. Each action is one handler, posted function,
callback or call, with everything it does. A step is atomic where the code runs
on one thread without calling out; where it calls user code or the operating
system it is split.

**ProducerConsumerQueue**, and **Rendezvous**, what it promises. `pc` and
`running` are the call stack: `PostInvoke` pops both fronts and enters the
handler, which may `Consume` and `Produce` (each pushes, then enters a
`post()` of its own), return (`HandlerReturn`, back into the loop) or throw
(`HandlerThrow`, out of that `post()`). `PostCopyThrow` is a throwing copy of
a front element (lines 52-53), before anything is popped. `asked`, `offered`,
`served`, `failed` are history. Rendezvous has only those four: it serves in
order, and lets nobody call in while a handler and a datum both wait, unless a
copy has failed.

**MessageQueue**. `tasks` is the `io_service`'s FIFO of posted functions;
`waiting` and `data` are the two halves of `mReceiveQueue`; `conn` and
`transportEc` are websocketpp's. `AsyncReceive` posts, `RunReceive` is the
posted half (transport error, else consume), `RunComplete` calls the user's
handler. The consumers of this class only post, so a call of the receive queue
never nests and is one step; that either half is empty whenever a call begins
is what ProducerConsumerQueue proves. The user is a reader who stops after a
failure and keeps at most `MaxOutstanding` receives going. **Numbering** has
the notions its properties and Acceptor's are stated in: what passes through
queues is numbered, and a sequence of numbers, with 0 for nothing, is in order,
or has each once. `Attach` and `Deliver` are what Session uses of
`SetConnectionPtr` and `HandleMessage`.

**Acceptor**. The same, except that its consumers call the user's handler at
once on the `io_service`'s thread and post it from another: the parameter
`here` of `AsyncAccept`, `Close`, `Destroy`. `handleOpen` serves open and fail
alike, as at line 138. History: `number` says as which handshake each
connection's finished, `matched` which were taken for an accept, `late` what
came after `close()`.

**Session** composes the two over one connection, `INSTANCE` of each with the
same `tasks`. Its actions are conjunctions of theirs: an accept that is served
gives the connection to the queue in the same step (`Consumer`, as the lambda
at acceptor.hpp:113 does), and what the peer sends waits in `tasks` behind the
posted half of `handleOpen`, as data read from a connection does. MessageQueue
alone lets `setConnectionPtr` come at any time; here it comes when the real
Acceptor makes it. The connection `Conn` of the session is one of the
acceptor's (`ConnectionAssumption`). Left out are sends and the destruction of
either object, which the two modules have.

**Connector**. `nascent` is the map, `hooked` the connections whose open and
fail handlers are set. `RunClose` takes them off, closes the connections (which
websocketpp may refuse for a handshake under way) and aborts the operations in
the order of the map's keys, which are pointers: any order.

**IoThread** and **TransparentService**, which extends it. The `io_service` sees
no handlers, it only counts: `outstanding` goes up when a work object is made or
a function queued (`WorkStarts`) and down when the object is destroyed or the
function has run (`WorkFinishes`), and `run()` returns at zero, whatever is
under way then. That this comes after everything else is the property
`RunOutlivesHandlers`, and no guard. An operation is "held" by the
implementation (where the `io_service` cannot see it), "completing" (the
implementation has posted what will call its handler), "posted" (the handler
has dispatched what it wraps) or "done"; `working` are the operations whose
TransparentHandler, and in it `mWork`, exists, until `Release`, which may come
before or after the wrapped handler runs. `HoldsImpl`, the pointers of handlers
to the implementation, is empty, because the token's constructor (lines 45-49)
does not store the one it takes.

**SerialPortOptions** and **SerialPortOpener**, which extends it. The first is
one system call a step, with `sound` (does the device work?) free to change
between two of them, and `tioRead`: is the `termios` that `tcsetattr` applies
initialised? The second has the timer (`expiry`, `wait`) and the point at which
the coroutine is suspended (`at`); what runs between two waits is one step.
A wait whose handler is queued with success stays successful when cancelled.

**Operation**. `api` is the namespace in use: v2 dispatches the coroutine, v1
runs it in its initiator and asks it for a result at the end. `branch` says
where each Operation object is, `stack` is the call stack of branches (a fork
runs its child inside the parent), `mRefs` the count. `Finish`, `Throw` and
`Abandon` (destroyed with the `io_service`) release references; the last
release destroys the state and calls the handler. `MakeOperationThrows` and
`MakeStateThrowsV1` are copies that throw before the operation has begun.

**ComposedOp**. `stack[t]` holds the ops on thread t's stack with the task each
owns or has given away. `Wait` gives the task to an asynchronous operation,
`StartTask` to another task, whose completion invokes the continuation inside
its own op (`Complete`). `Continue` may run on another thread while the op that
gave the task away is still on its stack. The `cont` flag is only the hint that
`asio_handler_is_continuation` answers with; it is left out.

**PotRingbuffer**, and **PowerOfTwoRing** for the capacities it is meant for.
`Plus` and `Minus` are `size_t` arithmetic modulo `SizeLimit`; `&` and `^` are
constants `BitAnd` and `BitXor`, given the operators of Bitwise in the runs, so
that theorems can assume of them just what a power of two gives
(`PowerOfTwoAssumption`, which TLC evaluates with the real operators). What the
ring should hold is the history variable `deque`.

**PotQueue** extends it: a queue between a program and an interrupt handler,
which is what the volatile members are for. The interrupt's calls run to their
end, the program's are interrupted between any two accesses of an index.

**Variant**, and **ValueCells**, what it promises. `slot` is the storage and
destructor pointer of each variable and of the temporaries of `swap` and
`operator=`. A move leaves a `Husk`, and `abandoned` collects the values of
objects that were overwritten or left without their destructor. As with
NDEBUG: every move visits an empty variant, where a debug build stops at
`assert(false)`.

**Version**. A text is a sequence of lexemes of the shapes the grammar tells
apart (a number, one with leading zeros, one that overflows `unsigned`, "2a",
"rc"), each with a rank; `Parse` follows the rules of the grammar, what a
failed parse leaves behind included, `Less` the ternary at src/version.cpp:101
over `boost::optional`'s and `std::vector`'s operators.

**Global** has one step for each thing a call does under the mutex (find,
construct, return or throw) and lets the last pointer go, and the destructor
run, outside it. **LogSetup** runs the notifiers one option at a time, with
paths that fail and other threads logging. **ParameterPacks** compares the
library's recursions over packs, and what its overload sets choose, with direct
definitions.

**Loggers** has two frameworks that know nothing of each other. In that of
asio/associatedlogger.hpp a handler has a logger of its own if it is a
LoggerHandler (`ConvertToken`); in that of composed/associated_logger.hpp, if
its class has a `get_logger()` (`InitiateWithLogger`), which a LoggerHandler has
not. `GetAssociatedLogger` and `AssociatedLogger` are the two lookups; all other
handlers get the default of the thread that asks, and a composed task may keep a
pointer to that (`KeepLogger`) for longer than the thread lives (`EndThread`).
`kind` says which a handler is, `meant` what was said of its operation, and
`dangled` which tasks have used a logger that was gone. What such a use does is
undefined; the model records it and leaves its effect out.

**Utilities** puts the small classes side by side: `tool`, chosen in the
initial state, says which one the behaviour is of; all else stands still. One
run then checks all of them, at the price of a sum of their state spaces and
not of a product. It names their properties again; each is defined and
explained in its own module, and proved in UtilitiesProofs.

## 3. The runs

Deadlock is not checked: in every run the user may stop calling, and the system
is then rightly idle. The bounds were chosen so that each scenario named below
occurs, and every action and disjunct fires.

| run | states | bounds | question and answer |
|---|---|---|---|
| `pcq` | 38 341 | 4 consumes, 4 produces, 2 values each | nesting up to four deep, throws and failed copies: order and conservation (`FifoPairing`), `OneSided`, and the refinement of Rendezvous, liveness included, hold |
| `message_queue` | 219 600 | 4 receives (2 outstanding), 1 send, 3 messages, 2 closes | both sides of the queue get two deep, and close, peer and transport end the connection in any order: the four properties hold |
| `message_queue_leak` | violation | 1 of each | the implementation is never freed (section 5) |
| `transparent_service` | 38 550 | 3 objects, 3 operations | moves, closes, exceptions against `join()` and the destructor: the three properties hold |
| `transparent_impl` | violation | same | the implementation dies under a handler (section 5) |
| `acceptor` | 172 358 | 2 connections, 3 accepts, 2 closes | handshakes before, during and after close, on either thread: the four properties hold |
| `connector` | 36 022 | 3 connects, 2 closes | open, fail and close race for each of three nascent connections: the four properties hold |
| `session` | 246 443 | 2 connections, 2 accepts, 1 close each side, 3 receives, 2 messages | a peer that sends at once, an accept before or after the handshake, another connection in front: order from the first message on, and delivery, hold |
| `serial_port_opener` | 40 976 | 3 operations, 3 closes, 2 attempts per option | a close in every state, a device changing at every call: the four properties hold |
| `operation` | 3 118 | 3 branches, 4 suspensions, 2 results, both namespaces | forks inside forks, throws at depth three, copies that throw, shutdown: the three properties hold |
| `composed_op` | 1 925 | 2 threads, 3 nested tasks, 5 waits | continuation on the other thread, throws at any depth: the three properties hold |
| `utilities` | 70 213 | N = 4, 5-bit `size_t`; 3 variants of 2 types; 2 versions over the texts of MCUtilities; 2 rounds of options; 2 threads, 2 handlers and 1 attribute of loggers; packs of 5; 3 users and 4 globals | each small class by itself: the nine properties hold |

Why these bounds are enough. The components are queues of interchangeable
items: two items on a side show order, a third shows that the rule repeats, a
second `close()` meets whatever the first left. One waiter per kind and two
threads show every pair of actors in both orders. Two attempts per option
separate the first failure from the last (`kMaxSerialSetOptionAttempts` only
changes how many lie between). The ring's state space is complete: nothing is
bounded but N, the width and the elements. Three variants are a source, a
target and a bystander; a call uses at most two. Three users of a global are
one that lets go, one that constructs and one that waits. Texts of versions
have up to the two elements at which the orders of lists, numbers and
identifiers differ. For safety the theorems remove the bounds.

Some properties name their exception, and the exception is the information:

* `ReceiveEnds`: handleClose produces a single datum, so with two receives
  outstanding the second one hangs when the connection ends, unless `close()`
  is called. A reader with one outstanding always learns of the end, but for a
  clean close that came before `setConnectionPtr` or whose notice `close()`
  discarded.
* `ReadsFromTheFirst`: a connection that had to wait for its accept loses,
  unreported, what its peer sent until then. What its reader gets after that
  is in order and without a gap like any other's, until the queue is closed.
* `CloseLeavesOnlyLate`: a handshake under way while the server stops listening
  yields a connection that nobody accepts or closes.
* The Acceptor's accept of a failed handshake with no transport error recorded
  reports success (Connector makes up an error in that case).
* `CloseEnds`: a `close()` of the opener is lost in two windows: before the
  coroutine of `asyncOpenUntilSuccess` is dispatched, and between the expiry of
  a retry delay and its handler. Both are overwritten by the reset at line 54.
* `UntilSuccessEnds`: an attempt that fails after it has opened the port leaves
  it open, so that every later attempt fails and the retries never end.
* `SuccessMeansReady`: if `tcgetattr` fails and `tcsetattr` then works, an
  uninitialised `termios` overwrites the options and success is reported.
* `OneSided`: a copy that throws strands a pair until the next call comes.
* `OpEnds` against `HandlerCalled`: a throwing task drops the user's handler in
  `composed::op`, whereas Operation calls it with the result it has.
* `OnlyTwoRaces`: a ring shared with an interrupt handler is right but when a
  push drops the oldest element of a full ring while the other side pops, and
  when the handler pops the only element between its publication and its
  writing.
* `OnWithASink`: with several options, a log record can reach the file's sink
  before its formatter is set.
* `OperationsKeepTheirLogger`: a composed task whose handler has no
  `get_logger()`, a LoggerHandler included, keeps a pointer to its thread's
  default logger, and may use it when the thread has ended.
* `OneGlobal`: the next object may be made while the last one is still in its
  destructor.

## 4. Fairness

Every fairness assumption is weak, and is one of three kinds.

* Code between two waits runs on: `post()` (PostInvoke), a coroutine that has
  started (Finish in Operation, Step in ComposedOp, Handler in
  SerialPortOpener).
* The `io_service`'s thread runs what is posted (RunTask, Invoke, Continue,
  Runs), a handler that has done its work is destroyed (Release), and so are
  all handlers, one after another, with the `io_service` (Abandon). `get()`
  returns when `run()` has.
* The outside world answers where it has promised to: websocketpp's handshake
  and close timers end what they watch (HandshakeEnds, Terminate while closing
  or after a transport error), a timer expires, what a branch waits for ends.

No user is obliged to call anything, no peer to send or close, no device to
recover: `UntilSuccessEnds` assumes a sound device in its own statement. The
one exception is Session's reader, whose handlers call `asyncReceive` again as
those of tests/asio-ws.cpp do; without it nothing would have to be read. The
utilities have no liveness: they do nothing but what they are called for.

## 5. Findings

* MessageQueue's destructor is meant to break the cycle between it and its
  connection's handlers, but the cycle keeps the destructor from running:
  `message_queue_leak`, `DestroyedIsFreed`.
* TransparentCompletionToken promises that the implementation lives until the
  handler has been invoked; it drops the pointer it is given:
  `transparent_impl`, `ImplOutlivesHandlers`.

Seen while reading, and outside what the runs show: PotRingbuffer's
static_assert (potringbuffer.hpp:18) says "power of two" and tests evenness;
`async_run` (composed/op.hpp:280) does not return what `async_run_impl`
returns; `get_task()` (composed/op.hpp:125) does not compile when used, nor
therefore composed/op_logger.hpp; a handler that throws out of the loop of
`Connector::close()` (ws/connector.hpp:94) leaves the map as it is, so that the
next `close()` calls the handlers before it again; the move constructor of
Variant applies a visitor to an empty Variant and reaches `assert(false)`; a
constructor that calls `global<T>()` for its own type locks a mutex its thread
holds.

## 6. Proofs

Eight modules; 12393 obligations, all by SMT, Zenon and PTL.

**ProducerConsumerQueueProofs**, for any handlers, data and bounds.
`TypeCorrect`. `Fifo`: that the k-th is served with the k-th is not inductive
alone, since a step that serves the fronts needs to know that they are the next
ones. `Indexed` adds that each queue is the rest of its history after as many
elements as were served, by index, which is easier to carry through Append and
Tail than SubSeq. `ServedAtOnce` (OneSided) and `OneInvocationPerCall`:
`Balanced` says in addition that while a `post()` has control and both queues
hold something, one of them holds a single element, so one turn of the loop
empties it; that fails once a copy has failed, hence the history variable
`failed`. `Implementation`: every step is a step of Rendezvous or a stutter
(its safety part; the fairness of Rendezvous is checked by the run).

**OperationProofs**, for any finite set of branches and both namespaces.
`CountExact` is inductive only with `Stacked`: the call stack lists the running
branches, each once, so that a throw which releases `Len(stack)` references
releases as many as there are running branches. `HandlerOnceAtTheEnd` follows
from `Staged`: the state is live exactly while some branch exists, and the
handler has been called exactly when it is destroyed.
The same module has the opener, the library's own user of two such operations,
for any number of operations, closes and attempts.
`OwnClose` (AbortedByOwnClose) needs `Marks`: a mark on the timer is of this
operation's `close()`, but while no operation runs or one of
`asyncOpenUntilSuccess` is still posted, whose head resets the timer. `Success`
(SuccessMeansReady) needs `PortReady`: from the first wait to the last the port
is open, and the options before the next call are in force or garbled.

**ComposedOpProofs**, for any number of threads, tasks and waits. `Ownership`
(OneOwner) needs `Located`: the latest task is owned by nobody, by the op at
the top of one thread's stack, or by one continuation, and the live tasks are
those from 1 to it; and `AllBuried`: nothing below the top of a stack owns
anything, or a throw could pass through an owner. `HandlerLast`
(HandlerCalledLast) needs `Called` besides, which ties the operation's state to
the live tasks.

**ConnectorProofs**, for any number of connects and closes. `ConnectedOnce`
(EachConnectOnce) says by cardinalities that a call is posted, nascent or
answered, once. Its invariant says which (`OnlyPosted`, `OnlyNascent`,
`OnlyAnswered`), how the connection stands at each (`Fits`: without it, close()
might meet a nascent connection whose handshake had ended), and that the
handlers still to be taken off belong to connections no longer nascent
(`Unhooks`). `TruthfulVerdicts` (VerdictIsTrue) is part of it.

**MessageQueueProofs**, for any messages, buffer and numbers of calls. The
three properties are about the concatenation of what was answered, is posted,
waits or is held as data. `Joined(u, s, t)` says of a concatenation what the
properties see of it (its numbers, each once, in order) in terms of its parts;
lemmas give it for `\o`, Append, Tail and a mapping over a sequence, and the
proofs about actions hardly look at an index. The invariant: `OneEach` (a
receive is done, asked or waiting, once), `SendsInTurn`, `Ordered` (done before
completing before waiting before posted, until the transport fails), `InStream`
and `NoGap` (the messages likewise, and all that arrived until a close),
`CarriesKnown` (only arrived messages are about), and `OneSided`, without which
a receive could overtake data that waits. `HandlersOnce`, `StreamKeepsOrder`,
`CallOrder`.

**AcceptorProofs**, for any connections, accepts and closes, over the same
lemmas (an INSTANCE of MessageQueueProofs). The invariant: `OneSided`,
`OneEach`; `Numbered` (a connection has a number once its handshake finished),
which with `InLine` (taken before queued before posted) tells a connection of
one place from that of another; `Pointers` (a message queue has a connection
exactly if its accept succeeded, and one that was taken); `Owned` (an open
connection is posted, parked, late, or with an accept; what is parked after a
close is late). `AcceptsOnce`, `ConnectionOrder`, `NoneLeftBehind`
(CloseLeavesOnlyLate).

**SessionProofs**, for any connections and any numbers of accepts, closes,
receives and messages, over both pairs of lemmas (another INSTANCE of
MessageQueueProofs). `ReaderMissesNothing` (ReadsFromTheFirst) is a statement
about what receives have been given; what makes it hold is on its way there, so
that its invariant follows a message from the peer to the reader:

* `Flow`: what the queue was given (`Given`: completed, posted for completion
  or stored) is in order, and what is on its way in `tasks` (`Coming`) is all
  that was sent from some later message on. `NoGap`: until a close, `Given` is
  an interval, and while the connection is open `Coming` begins where it ends.
* `Unattached`: nothing is given before the message handler is set. `Attached`
  ties that to the Acceptor: whoever has the connection has set it.
* `Awaited`, the reason why the first message is not lost: the posted half of
  `handleOpen` is in `tasks` ahead of everything read from the connection, and
  the accepts that wait are more than the halves posted before it, counted by
  Cardinality. `Waited` says that this holds from the handshake on until the
  handler is set, `Fresh` that nothing was sent before the handshake. Neither
  is about messages, and without them `FromTheFirst` is not inductive.

A step is proved to do one of five things to the messages (`Keeps`, `Sends`,
`Arrives`, `Passes`, `Drains`), and each of these to keep the part of the
invariant that is about messages. `SessionTypes`.

**UtilitiesProofs**, the small classes, each by itself (`EachByItself`: a step of
Utilities is a step of at most one), and IoThread.

* The ring, for every N and word size that satisfy `PowerOfTwoAssumption`: the
  indices are `Len(deque)` apart modulo 2N (`Apart`), and the slots from mBegin
  on hold the deque (`Holds`). The lemmas turn the bit operators into case
  distinctions (`Cell`, `Ahead`) once, and everything else is linear
  arithmetic. `SizeCorrect`, `PositionsCorrect`.
* `QueueHasTwoRaces` (OnlyTwoRaces): wherever the interrupt comes. `Shared`
  says what each point between two accesses of the program relies on (the index
  it loaded is current, the ring is full or has room, the front is what it
  read); it holds until the first race, `overran`.
* `VariantsFit`, `VariantsImplementCells`, for any names, types and values that
  `MarksDiffer` tells from the marks of the model: between calls a slot is
  dead, empty (its storage raw or a husk) or filled with an object of the type
  its destructor pointer is for, and nothing but husks was abandoned.
  `PointedMove` is one of a swap's three moves, `SwapExchanges` the swap, even
  with itself; every step is a step of ValueCells.
* `VersionsOrdered` (OrderIsPrecedence), for any texts: `VersionInv` says what
  data a version can hold whatever was parsed, and of any two such data Less is
  the order of their keys: either the numbers differ, and the keys do before
  the end of one of them, or the end decides, where a release is above every
  place. That order is strict and total (`PrecedesStrict`, `PrecedesTotal`), so
  that `<=` is the negation of `>`, `>=` of `<`, and `!=` one of `<` and `>`, the
  way the header derives them from `<` and `==`. `VersionsReadBack`
  (FormatRoundTrips): every shape printed is one the grammar takes whole and
  reads as what was printed.
* `PacksAreKeptInOrder` (PacksKeepOrder), for packs of any size. Each recursive
  function is shown to exist by a closed form that satisfies its equation, and
  to be the only one by the first (or last) argument at which another could
  differ: `Smallest` and `Largest` take the place of induction.
* `LogsOnWithASink`: the notifiers ahead of `next` have run, so that a sink is
  without a formatter only between two steps of the one that runs.
  `GlobalIsOne`: whoever has or constructs the object has the latest, nobody
  has one while one is constructed, and only the user inside the mutex
  constructs.
* `LoggersAreKept` (OperationsKeepTheirLogger): what a task keeps is the logger
  its handler's kind gives, so that it is a thread's default exactly when the
  handler has no `get_logger()`; and only the handler's own operation reaches
  its own logger.
* `RunIsLast` (RunOutlivesHandlers) of IoThread with any objects and any finite
  set of operations. Its invariant is `Counted`: `outstanding` is the number of
  TransparentHandlers and queued functions, and one for the IoThread's `mWork`;
  with `HandlersWork`: an operation that is held or completing has its handler.
  Neither alone would do: the count must not reach zero while an operation
  passes from the one to the other.
  `NoExceptionLost` (ExceptionsSurface), by `Future`: the future of `run()` is
  given up only after `run()` ended, and by then join() has thrown or the
  destructor terminated.

Assumptions: the ASSUMEs of the modules (bounds are naturals, Branches is
finite, marks are no values, what the static_asserts
and a power of two give), each a statement about the model's constants that
TLC evaluates in a run.

Only model-checked: all liveness (`ReceiveEnds`, `JoinEnds`, `CloseEndsAccepts`,
`HandlersDestroyed`, `ConnectEnds`, `CloseEnds`, `UntilSuccessEnds`,
`HandlerCalled`, `OpEnds`, `ReadInTheEnd`, and the liveness half of the
refinement of Rendezvous), which TLAPS does not prove here. Every other property
that a passing run checks is a theorem.

## 7. Limits of the models

* One thread runs the `io_service`, except in ComposedOp. The std::queue behind
  Acceptor and MessageQueue takes no lock, and `Acceptor::asyncAccept`/`close`
  and `MessageQueue::close` use it on the caller's thread; Operation's count is
  a plain `size_t`. A race on these is undefined and not explored; the calls
  are atomic in the models.
* Allocation failure is modelled only where the code copies user data
  (`PostCopyThrow`, `MakeOperationThrows`, `MakeStateThrowsV1`).
* The handlers of MessageQueue, Acceptor, Connector and Session's reader return;
  in particular none throws inside the loop of `Connector::close()`
  (connector.hpp:94). Handlers that throw are in ProducerConsumerQueue, IoThread,
  Operation and ComposedOp.
* Session leaves out handshakes that fail, which Acceptor has.
* `run()` returns when the count gets to zero: the moment between, when other
  threads may still post, is not modelled.
* websocketpp is modelled from its use: at most one of open and fail per
  connection, one close notification, messages only while open, no handler
  that is not set.
* `Acceptor::close` runs through the waiting accepts while there are any: an
  aborted handler that accepts again, on the `io_service`'s thread, keeps it
  there. The models' users do not.
* An interrupt handler of PotQueue does not nest, and volatile accesses are
  taken to happen in program order.
* Variant is modelled as built with NDEBUG; types that throw on a move are left
  out (swap has no guarantee to check).
* The default logger of asio/associatedlogger.hpp is one for each thread and
  translation unit; Loggers has one for each thread.
* The Windows branches and the contents of messages and log lines are left out.

## 8. Plan

Done: section 2's modules, in order of importance to the library's users; the
composition of Acceptor and MessageQueue; the proofs of section 6.

What could still be added: Connector with MessageQueue over one connection, like
Session; there `setConnectionPtr` comes from the open handler itself.
