# Formal models of the POP3 proxy

This directory models the proxy of this repository in TLA+, checks small
instances with TLC and proves theorems about all instances with TLAPS.

    tlc -config MCProxyLifecycle.cfg MCProxy.tla     # check a run
    tlapm ProxyProofs.tla                            # check the proofs

`PROJECT.json` lists the runs, the source lines behind each definition
("map"), the hazards each property is for, the disagreements found between the
code and its documents, and, for every property, a defect of the model that the
property detects ("mutants"; the defective twin of `X` is called `X_<defect>`).

## The system

One thread runs everything but name resolution. `main.c` registers listening
sockets with a selector (`selector.c`), which calls the handlers of the
descriptors `pselect` reports. Each client gets a `struct sock`
(`socks_nio.c`), shared by the client's and the origin's descriptors, counted by
`references` and recycled through a free pool. `socks_handler.c` passes every
event to the session's state machine (`stm.c`), whose states are

    DNS_RESOLUTION -> CONNECTING -> GREETINGS -> CAPA -> REQUEST <-> RESPONSE
                  (any state) -> ERROR, where socks_done closes both ends

In `DNS_RESOLUTION` a detached thread calls `getaddrinfo`, stores the result in
the session and queues a notification under a mutex.

| Component | State it keeps | Operations | Hard behaviour | What makes it correct |
| --- | --- | --- | --- | --- |
| selector | item table, interests, the sets of the last `pselect`, job list | register, unregister, set interest, select, notify, destroy | handlers change the table while it is scanned; other threads add jobs | reported events still stand; no bad descriptor; no lost notification |
| socks_nio, socks_handler | `struct sock`, references, pool | accept, destroy, read/write/block, done | one struct, two descriptors, reuse | exact counts, one owner at a time, every struct freed |
| stm | current state | read, write, block, jump | an event without a handler aborts the proxy | no such event |
| dns_resolution, connecting | resolver result, origin descriptor | start, look up, connect, connected | thread against main loop; failure half-way | the thread's session is still there; nothing leaks |
| greetings, capa, request, response | parser flags in a union, command queue | a read and a write each | bytes arrive in pieces; a flag outlives its owner | bytes relayed in order and whole; every line answered |
| buffer | array, two pointers | fill, drain, compact, reset | a partial send | a bounded FIFO |
| cmd_queue | linked list, iterator | queue, dequeue, iterate | replaced for every request | answers match commands |
| admin, admin_utils, admin_client | password, counters, datagram buffer | datagram commands | data left from the last datagram; an answer that never comes | each line is served once, by its own words |
| main loop | `done` | serve, shut down | SIGTERM at any moment | stops, frees everything |
| parser, parser_utils | table, state, last events | feed, reset, compare a text with a word | the proxy links it and does not run it | each event is the verdict on the text so far |
| copy, args, netutils, logger | | | no session enters the copy state | |

## The modules

| Module | What it is |
| --- | --- |
| `Proxy` | sessions, state machine, resolver threads and main loop over the selector |
| `SockLease` | abstract: a struct is lent to one connection and given back once |
| `MCProxy` | instances of `Proxy` |
| `ProxyProofs`, `ProxyPhases` | theorems about `Proxy`: its structs, and its sessions in each phase |
| `Selector` | `selector.c`: the table, the scan, the list of jobs, the destruction |
| `EventLoop` | abstract: what `include/selector.h` promises to handlers and threads |
| `MCSelector` | instance of `Selector` |
| `SelectorProofs`, `SelectorLoop` | theorems about `Selector`: its table and list, and what it promises its callers |
| `Buffer` | `buffer.c` |
| `ByteQueue` | abstract: a bounded FIFO of bytes |
| `MCBuffer`, `BufferProofs` | instance of and theorems about `Buffer` |
| `Relay` | the bytes of one connected session |
| `MCRelay`, `RelayProofs` | instances of `Relay`, with greetings, lines and answers, and theorems about it |
| `Admin` | `admin.c`, `admin_utils.c` and the clients of `admin_client.c` |
| `AdminService` | abstract: what the repository's `README.md` promises of the commands |
| `MCAdmin`, `AdminProofs` | instances of `Admin`, the lines users type, and theorems about it |
| `Parser` | `parser.c` on the tables `parser_utils.c` builds |
| `ParserProofs` | theorems about `Parser`, in place of an instance |

**Proxy.** The main thread is sequenced by `pc`: `select` (in `pselect`),
`iterate` (scanning what it reported, in `slave_r` and `slave_w`), `notify`
(presenting queued jobs), then `destroy`, `pool` and `close` for the shutdown.
One action is one call of a handler with everything it calls, up to `socks_done`,
whose two unregistrations are steps of their own because a signal or a resolver
thread may come in between. A resolver thread is `idle`, in its `lookup`, or
about to `notify`. A struct is an address of `Obj`: `alloc` says which are
malloc'ed, and touching any other ends the process (`use_after_free`), as the
address sanitizer the makefile builds with would. What the bytes of a message
decide is left open: a handler may have each of its outcomes. A peer may be slow,
close, or refuse at any point; each system call may fail where the code asks.

**Selector.** Two kinds of actors. The main thread's `pc` is `setup` (main.c
registers before its loop), `select`, `pselect`, `iterate`, `notify`, `drain` and
`destroy`; `call` is the handler that runs, between a step that calls it
(`handle_iteration`, `PresentJob`) and one that returns, and in between it
may register, unregister or change interests of any descriptor. The scan keeps what
the code keeps: the sets of `pselect`, its copy `n` of `max_fd` and its place
`at`. A thread allocates a job, takes the mutex and links it, pushes it and
releases the mutex, and raises the signal, in four steps, because the main thread
and the other threads come in between. The signal is blocked outside `pselect`
and stays pending (`alarm`). `wild` is where the code goes through a pointer to
what is not there: an item behind the table, an item the table has moved away
from, the next pointer of a job that was freed. `Proxy` takes this module's table as
it is promised by `EventLoop`, with sessions attached and a table that is large enough.

**Buffer.** Pointers are offsets. An action is one exchange with a caller:
`Fill` is `buffer_write_ptr`, a `recv` and `buffer_write_adv`; `Drain` is
`buffer_read_ptr`, a `send` and `buffer_read_adv`; then the byte operations,
reset and compaction. The assertions of the code are the caller's duty.

**Relay.** One session from GREETINGS on, byte for byte: a byte is CR, LF, DOT, NUL
(at which `request_read` stops and `strstr` too) or a token of `Text` for the text in
between. `bytes_transfered` is what the session adds to the statistics. The buffers are sequences with a write
offset, which is what `Buffer` shows that they are; `Proxy` shows that exactly one
descriptor of a connected session is armed (`SingleWakeUp`), which is why `armed`
is a single variable here. The flags of `struct greetings`, `capa` and `response`
live in a union and are modelled by their offsets in it (64-bit pointers), so
that a state reads what another left there. The client and the origin are the
environment; the constants `SplitRecv` (of which peers may a recv return less than has
arrived?), `SplitSend` (may a send accept less than it is given?), `Eager` (does the
client speak before it was answered?) and `Closing` (may peers leave?) choose what it
does.

**Admin.** The server has one buffer, of which `memory` is all that was ever written
and `write` the pointer: a datagram lies over what longer ones left, and the
parsers look in the memory, not in the datagram. A cell is a character of a word
(`Glyph`), a space or the end of a line, and the words are as long as they are typed
(`Name` spells the options), for on that depends which space of an older line a later
one overwrites. One action is one handler (`udp_read`, `udp_write`); which answer is
sent is decided in `Answers`, and where it goes in `Reply`: the address is a local
nobody assigns, so the answer reaches the client or nobody. A client sends a line, or
nothing at the end of its input, and waits. Client and server share the loopback
interface, where datagrams are neither lost nor reordered. In between sessions raise
the counters that `GET_STATS` reports (`stats_new_connection`, and `request_send`, which
counts the text of each command and one byte for its end). Words of 30 characters or
more, which overrun `option` and `parameter` of `admin.c`, are in no line of the
instances and have no other outcome in the model. `AdminService` lets the number
of open connections fall (`Disconnected`), as the repository's `README.md` says;
`Admin` has no step for that, because no caller of `stats_closed_connection` runs.

**Parser.** One action is one call: `parser_utils_strcmpi` builds a table, then
`parser_init`, `parser_feed` with any byte, `parser_reset` and the destructors.
`text` is what was fed since the start, which `Verdict` compares with the word
without the table. Byte 255 is looked up behind `parser_no_classes`, which has 255
elements: the read ends the process or returns what happens to follow. No part of the
proxy calls the parser, and the theorems about it hold for words and texts of any length,
so that there is no run for it; its state machine is there for the proofs.

## The runs

| Run | Shows | Bounds |
| --- | --- | --- |
| lifecycle | types, exact references, open descriptors = registered ones, no abort, every idle session has exactly one thing to wake it up, resolver threads refer to live sessions, reported events stand, the pool, the inductive invariant `SessionInv` and `SockLease` | 4 connections, 2 at once, through 3 structs and a pool of 1, so that each struct is freed or pooled and lent again; 2 resolver threads; descriptors 0..4 with the table ending at 4, so that a registration can be refused; the allocation of a job may fail |
| shutdown | SIGTERM or a failing `pselect` at any moment ends the loop and frees everything, with `SessionInv` kept on the way; without one each resolution reaches its session | 2 connections, 2 structs, pool of 1 |
| selector | index and pointers in range, the sets for `pselect` are those of the table, no job lost, shared or freed too early, destruction closes all, the inductive invariant `PromiseInv`, `EventLoop`, no job waits for the timeout, no registered descriptor is out of reach | descriptors 0, 3 and 4 under a limit of 4, tables of 2, 3 and 5 entries: inside a table, just behind it, one for which it grows, one that is refused; 2 threads, 2 jobs |
| buffer | refinement of the FIFO; a drained buffer offers all its memory | 4 cells: partial drains, full buffer and compaction all occur |
| relay | nothing lost, repeated or invented in either direction; each line in one place until it is answered, and its answer read for the command it belongs to (`AnswerInv`, inductive); no stall; every line answered | 9 cells, greeting of 12, 3 lines of 3 kinds, peers may leave at any moment |
| admin | whoever waits has one datagram on its way or one answer, each line is served once and by its own words, the password is the one its holder was told, every datagram is taken | 2 clients, passwords of 2 cells, options of the program's lengths, 9 lines: each option, an unknown one, a wrong password, `SET_AUTH` without an argument, with a right one and with one that makes the line longer than the buffer (17 cells); 1 connection and 2 bytes for the counters |
| commands | lines that arrive in pieces or several at a time are mangled | as relay, `SplitRecv` for both peers, `Eager` |
| responses | a session goes idle without bytes the client should have had | as relay, 10 cells, 2 lines, answers in pieces, longer than the buffer, refused or stuffed, short sends |
| leftover | `SET_AUTH` without an argument takes that of an older line | 1 client, `GET_STATS` with an argument, and `SET_AUTH` with and without one |
| teardown, pipelining, replies | with the three above, what the code does otherwise than its documents say (below) | as shutdown, relay and admin |

Two connections are enough for the interplay of sessions: they share
only the selector's scan, the descriptor numbers and the pool, and each
interference takes one session that acts and one that suffers. The relay run has
a client that waits for each answer, lines and answers that arrive whole and fit
the buffer. These are assumptions about the environment, not promises of the
code: what happens without them is what the runs *commands* and *responses* show.

Fairness. `Proxy`: weak fairness of the main thread (`pselect` returns within its
ten seconds and no handler blocks), weak fairness of each lookup (`getaddrinfo`
gives up), strong fairness of each notification (the mutex is released in
every turn of the loop, so a waiting thread gets it in the end). Nothing is
assumed of clients and origins. `Selector`: weak fairness of the main thread and of the
signal that ends `pselect`, strong fairness of each thread's notification, for the
mutex; nothing is assumed of the timeout, since a job should not have to wait for it.
`Served` is about a descriptor that `pselect` reports again and again. `Relay`: the
selector calls the handler of a ready descriptor, and an origin that has not left
answers. `Admin`: the selector calls the handlers of its descriptor, and a client reads
an answer that has arrived.

## Disagreements between the code and its documents

* *teardown*: `references` is documented to tell when a struct can be freed; a
  resolver thread is not counted, and a shutdown frees the struct under it.
* *commands*: `request_read` documents that it separates lines; a line in two
  pieces loses the first, and the second line of a piece carries the first.
* *responses*: a session is documented to stay in RESPONSE until it has sent
  all of the answer. Five things, each enough by itself, leave the client
  waiting: an answer that arrives in two parts, and one that is longer than the buffer,
  because the first recv dequeues the command and what comes after it is dropped; an
  `-ERR` in answer to `RETR`, which never completes the response, so that its bytes are
  dropped; a stuffed line of two dots, which is taken for the end of a message; a short
  send of the last part of an answer or of the greeting. (With only one of
  `SplitRecv = {"origin"}`, `SplitSend = TRUE` and the answers `Long`, `NoMail` and
  `Stuffed` TLC still finds `Answered` violated.)
* *pipelining*: the flag for the origin's pipelining is overwritten through the
  union by the first answer.
* *replies*: `pop3ctl` invites its user to ask for `HELP`; answers go to an address
  nobody set, and when it is none a client waits for ever.

* *leftover*: `SET_AUTH` is documented to set a password of 6 characters and answers a
  line without one with an error. `strrchr` looks for the last space of the whole
  buffer: after a longer command with a 6-character word behind it (`GET_STATS` and a
  word), a bare `SET_AUTH` takes that word for its argument.

Others need no run, for reading the line shows them: `GET_STATS` is documented to
report concurrent connections and bytes transferred, and the first number never goes
down (no caller of `stats_closed_connection` runs), and the second counts the commands
sent to origins and nothing else, each without its CR (`request_events.c:136`; no caller
of `add_transfered_bytes` runs); `HELP` lists `GET_CURRENT_CON` (`admin.c:49`), which is
not supported. In `Admin` one also sees that a datagram without bytes ends the proxy.

## What is proved

For all constants that satisfy the named assumptions of the modules
(`ConstantAssumption`, `PassiveAssumption`, `BufferAssumption`, `SelectorAssumption`,
`ParserAssumption`, `AdminAssumption`, `RelayAssumption`), with no bound on descriptors,
structs, threads, connections, clients or sizes. Four hypotheses on what the peers say,
which the code does not guarantee, are part of the theorems that need them:

* `Documented`: lines as the repository's `README.md` has them, with an argument for
  `SET_AUTH` only, at most one, and no password longer than `PASS_LEN`; characters that
  are not the separators; a buffer that takes every command and the longest line that is
  accepted; and a `PASS_LEN` other than the length of the word `SET_AUTH`;
* `WellFormed`: lines and greetings as POP3 has them, with one LF, at the end, and lines
  that fit the buffer;
* `CapaWhole`: a reply to CAPA ends with a line of one dot and has no other line of
  dots only;
* `AnswersWhole`: the greeting ends with CR LF; an answer to a line fits the buffer and
  ends with a line of one dot, if the line is `RETR`, `CAPA` or a bare `LIST`
  (`ManyLines`), and otherwise with CR LF. That the proxy takes the same commands for
  those with several lines is proved (`AnswerOfMany`), not assumed.

TLC evaluates them in the instances, `MCAdmin` and `MCRelay`, so that there are lines and
answers that satisfy them. What the theorems suppose of the network and the client stands
in each of them: `"client" \notin SplitRecv` and `~Eager` for those of the relay, and
`SplitRecv = {}` for `AnswersKept` and `NeverStalls`. `ParserAssumption` is a hypothesis
of the theorems about the parser rather than an assumption of its module.

**The proxy's structs** (`ProxyProofs`). `Invariance`, from which `TypeCorrect`,
`ReferencesExact`, `PoolIsSound` and `ImplementsLease` follow. `RefsExact` alone is not
inductive: `request_connect` adds a reference and takes for granted that there was
one. So `IInv` adds that a session that has not connected has exactly one
reference (`RefInv`), and says "the count is 1 and there is one descriptor, or
2 and two" instead of a cardinality (`RefShape`), which the provers handle; that
items carry live structs (`OwnerInv`); and that the pool is finite, counted and
allocated (`PoolInv`). The proofs go action by action; what most actions have in
common is in `UnseenStep` (nothing the lease sees changes), `LentStep`,
`SharedStep` and `UnregisterStep`, and the refinement follows from the same
case split.

**The proxy's sessions** (`ProxyPhases`, on top of `IInv`). `SessionsInvariant`, from
which follow `NoLeak`, `NeverAborts`, `OneWakeUp`, `ResolversLive`, `EventsStand` and
`ShutdownFrees`. That no event reaches a state without a handler, and that something
can still wake each session up, depend on one another and on all of `SessionInv`:

* `Phase`: which descriptors a session holds in each state, and which of them is
  armed for what. In DNS_RESOLUTION it is the client's alone, disarmed; in CONNECTING
  the origin's is there but not yet noted in the struct; CAPA arms the origin only,
  for `capa_send` touches no other; REQUEST reads the client or writes to the origin and
  never the other way round, for `request_send` arms the descriptor it was called with
  and disarms the client without a look at which of the two that is.
* `TableInv`: the open descriptors are the registered ones, the listening sockets
  among them, armed for reading and without a session.
* `ClosingInv`: while `socks_done` works, a live session is in ERROR, and what it has
  still to unregister (which `Phase` says is what that session holds) is nothing the
  scan will come to.
* `ResolverInv`: a session that resolves has one thread or one queued job, or had
  its job refused by malloc, and threads and jobs refer to nothing else; this keeps the
  struct under a resolver from being freed, though nothing counts it.
* `SlaveInv`: what `pselect` reported of descriptors whose turn is still to come is
  what they are armed for, although the handlers in between register and unregister.
* `ShutdownInv`: once `selector_destroy` has unregistered everything the pool holds
  every struct there is, and then `socks_pool_destroy` frees them.

**The selector's table and list** (`SelectorProofs`). `Invariance`, from which
`TypeCorrect`, `TableIsExact` and `DestructionCloses` follow. That `max_fd` stays
the greatest registered descriptor rests on what `items_max_fd` finds
(`GreatestFound`, from the least element of a set of numbers), that a registration stays
inside the table on `CapacitySuffices`. The types alone are not inductive: the main
thread frees a job and goes on to the next, and another pointer to the one or the
other would then lead to freed memory. So `IInv` says who is in the critical section
(`LoopInv`, `LockInv`) and that no two of the pointers - the front of the list, the next
pointers, those of the threads - lead to the same job, but for the thread that has
linked its job and not yet pushed it (`ListInv`).

**The selector's promise** (`SelectorLoop`, on top of that). `PromiseInvariant`,
`AllAccounted` and `ImplementsEventLoop`. `JobsAccounted` speaks of what can be reached
along the list: `Chain` is the least set that has the front and is closed under next
pointers, and the proof shows what linking, pushing, taking and draining do to it; that a
walk along the list ends is a pigeonhole over the finite set of jobs. `PromiseInv` adds that
a job carries the descriptor its thread was called for (`Addressed`). The refinement
takes each step of the selector to a step of `EventLoop` or to none, the number of
pending notifications of each descriptor included.

**The buffer** (`BufferProofs`). `TypeCorrect`, `DrainedIsFresh` and `ImplementsQueue`, a
step simulation for the mapping from the cells between the pointers to a sequence
(`FillPuts`, `DrainTakes`).

**The relay** (`RelayProofs`). `TypeCorrect` for whatever the peers send and however it is
cut: the write pointers stay inside the buffers. Then `LinesKept` (`LineInv` is an
invariant) and `LinesIntact` (hence `CommandsIntact`) under `WellFormed`, for a client
whose lines arrive whole (`"client" \notin SplitRecv`) and that waits for its answers (`~Eager`);
without these they are false, as the run *commands* shows. The origin may answer
anything, in any pieces, sends may be short, and peers may leave at any moment. `CommandsIntact`
compares what was relayed with what was sent, which a step of `request_send` preserves
only if what the queue holds is the rest. So `LineInv` says where the client's one line
is, on its way, queued or at the origin (`PlaceInv`), that what was sent is what was
relayed and that line, and that `request_read` begins with clean flags, queue and buffer
(`TextInv`); and, since an origin that is still to answer CAPA would mistake a
line for it, that the greeting leaves nothing behind, so that CAPA ends after it was
answered (`StartInv`). The pipelining flag is whatever the union holds: the last command
of a queue always gets its CR, and there is only one. `Scan` and `Digest` are the loops
of `request_read` and `response_read`: recursive functions whose values are the set
of the one state a loop ends in. `LoopExists` shows that they have a value, `Upward`
carries a fact from byte to byte.

In the other direction there are three results. `RelayedInOrder` (hence `Relayed`) adds
`CapaWhole` to the hypotheses of `LinesKept`, the other two `AnswersWhole` and answers
that are received whole as well.
`Relayed` alone says nothing of what the buffer holds and of what is still to come;
`FlowInv` says that what the client has, what the buffer holds and what is still to come
are parts of what the origin said, in this order. Only an answer to CAPA is kept from the
client, and if `capa_read` found its end too early, the rest would reach the client as
the answer to its first line: `CapaInv` says that what was read and what is to come
are one reply, and `CapaFlags` what each flag says of the last line read. Answers to lines
may be anything: what `response_read` cannot take for the answer it drops, and the
client then gets less, but nothing out of order. `AnswersKept` (`AnswerInv` is an
invariant) needs `OwedInv` besides: the end of the greeting
is still to come until it is found, and RESPONSE with a command in the queue has either
that command's line at the origin or the whole of an answer to it on its way. That
`response_read` finds its end (`DigestWhole`, `EndFound`) follows from what the last
bytes leave in the flags (`EndFlags`). Hence `NeverStalls` (`NoStall`): a session waits
for the origin only when something comes; with the answers of the run *responses* TLC
finds `NoStall` violated. Short sends do not matter here, for after one the session goes
on as if all had been sent; they matter for `Answered`.

**The administration** (`AdminProofs`). `Invariance`, from which `TypeCorrect`, `InStep` and
`ServedByOwnBytes` follow, for any lines: each waiting client has one datagram on
its way or one answer, and the bytes in front of the write pointer are those of the client
whose turn it is. What lies behind them is the longer datagrams of others. For
`Documented` lines `PlainInv` says how far a space may lie into that memory (`Furthest`):
up to the one between `SET_AUTH` and its argument. Each later `SET_AUTH` line that carries
a password writes over every space up to that place: with an argument it has its own
last space there, and without one its end, so that the word behind its last space is
`SET_AUTH` itself, which is not as long as a password (an argument that the end of the
buffer cuts off is too long in any case). From this follow
`PasswordIsTold` and `ImplementsService`. With arguments to other commands both are
false, as the run *leftover* shows.

**The parser** (`ParserProofs`). `Invariance`, `TypeCorrect` and `EventsAreVerdicts`, for
words and texts of any length. The events do not determine the next one, the state of
the table does: `IInv` adds that the state counts the bytes that agree
(`StateCounts`), with `FeedStep` as the step and `TakenCompares` and `TakenDiffers`
as what `parser_feed` finds in a table.

Only model-checked: all liveness (`ShutdownTerminates`, `ResolutionEnds`, `Notified`,
`Served`, `Handled`, `Answered`), which with fairness is beyond the provers used. Every
invariant and every refinement that a passing run checks is a theorem.

## What is not modelled

The copy state, which no handler returns; argument handling, address formatting and
the logger; the creation of the listening sockets in `main.c`; the nodes of
`cmd_queue.c`, which is a sequence here, and with them a failed allocation of a node
and the queue that `request_init` drops without freeing it. `Proxy` has the handlers
of the relay states without their data, so that what `request_send` adds to the
statistics is in `Relay` and `Admin` only. `PROJECT.json` gives the reason per component. An answer to
CAPA longer than the buffer and SIGPIPE are in the models as outcomes, without a
property: no document promises anything else. Two of the `wild` outcomes of `Selector`
need a table smaller than the one `main.c` asks for.

## Plan

1. Done: `Proxy` with `SockLease`, `Buffer` with `ByteQueue`, `Relay`, `Selector` with
   `EventLoop`, `Admin` with `AdminService`, each with its instances, and `Parser`.
2. Done: the proofs about each of them, with every invariant and refinement the
   passing runs check.
3. Left: nothing of what the provers reach; the liveness properties stay with TLC, and the
   parts listed above without a model.
