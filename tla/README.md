# A model of the news portal

This directory holds TLA+ specifications of the program in this repository,
configurations that check them with TLC, and theorems about them that the TLA+
proof system checks.

The program is a small client-server application. A **client** sends one request
(read or update the weather of a city or the rate of a currency) to the **portal**,
which passes it on to one of two **microservices** that it has forked, and sends the
answer back. Processes talk over TCP sockets, in JSON. Everything is iterative: the
portal serves one connection at a time and so does each service, so that the portal
is blocked while a service works.

    client c1 --\                     /--> weather service  (weather.json)
    client c2 ---+--> portal (8002) --+
    client c3 --/                     \--> currency service (currency.json)

## Inventory

Each component with its state, its operations, how it interacts, what is hard about
it, and what makes it correct.

### Portal (`src/server/main.c`)
- State: the listening socket, `exit_flag`, the connection it serves with its
  `request_t` and `response_t`.
- Operations: `server_init()`, two forks, the loop over `server_handle_request()`,
  `_handle_request()` (routing by `get_base_request()` and a call to a service through
  `client_send()`), `sigint_handler()`, `server_stop()`.
- Interaction: server of the clients, client of the services, parent of the services.
  The children inherit its listening socket, its `exit_flag` and its signal disposition.
- Hard: it listens before the services do; a call to a service may fail after the
  request was executed; SIGINT may come between the test of the flag and `accept()`;
  a failed second fork leaves the first child behind.
- Correct when: each client gets the answer to its own request, no request is executed
  twice, no client and no service brings the loop down, SIGINT ends it.

### Microservices (`src/server/microservices.c`)
- State: the JSON document of the context, the file it came from, the socket, the
  inherited `exit_flag`.
- Operations: load the file, loop, read or update one entry
  (`_micro_handle_request()`), save the file on leaving the loop.
- Hard: the setters of the JSON library refuse numbers of the other JSON kind and
  nobody looks; a file that does not parse leaves the context uninitialised; saving
  truncates before it writes; leaving the loop has two ways (flag, failing `accept()`).
- Correct when: an update changes only what the request names, in one step, and the
  last document is on disk after an orderly end.

### Server and client library (`libs/server.c`, `libs/client.c`)
- State: sockets; `errno`; the buffer and the count of `_socket_read()`.
- Operations: bind and listen, accept, read a request, call the handler, write the
  response, close, wait for children; connect, send, await the response, close.
- Hard: connections queue up before they are accepted and are reset when the last
  holder of the listening socket ends; a peer closes or dies at any point; EINTR, after
  which `_socket_read()` counts -1 bytes and goes on; messages in pieces; `MSG_WAITALL`
  makes a caller wait until the server has closed; a port is taken while an old
  connection lingers or a child of a dead portal holds its socket.
- Correct when: the two ends of a connection stay in step, whoever ends in between, and
  every byte of a message is read once, in its place.

### Client program (`src/client/main.c`)
- State: one request from the command line, one response.
- Operations: parse the options, `client_send()`, print.
- Hard: fields of a POST that are not given must travel as `INVALID_VALUE`; options come
  in any order, repeated or unknown; `nan`; results that nobody looks at.
- Correct when: the request says what the command line says, no legal one is refused,
  and the client ends, with its own answer or an error.

### Messages (`libs/requests.[ch]`, `libs/message*.[ch]`)
- State: none between calls (the buffers of one message).
- Operations: conversion of a message to JSON and back, field by field, from lists that
  macros expand into descriptions.
- Hard: a string or a float JSON refuses, halfway through a message; members that are
  missing, of another kind or too long; a double narrowed to a float; a partial message
  that the portal passes on.
- Correct when: what is read is what was written, over any number of hops, or an error.

### Strings and field types (`libs/str.c`, `libs/types.c`)
- State: the buffer and the length of each `string_t`.
- Operations: set from a C string (in two ways), compare, convert to and from text.
- Hard: what a longer content leaves behind in the buffer; a string of just its size.
- Correct when: only the last content shows.

### Log (`libs/log.c`), tests (`src/tests`), build files, report (`informe`)
The log keeps one instance, made at its first use; none of the programs calls it. It is
correct when what the disk took of the lines it accepted stays in the file, in order;
whether the disk took them it never looks at. The tests cover the message conversion only. The
Makefile matters in one place: with `-std=c99`, `signal()` has System V semantics, so
the handler is removed when it runs and system calls are not restarted. The report
(section 2) states that the server is iterative, on purpose.

`PROJECT.json` lists the hazards line by line, with the properties that watch them.

## Modules

| module | what it is |
|---|---|
| `Protocol` | message types, routing (`get_base_request`), which requests can be encoded |
| `Microservices` | what a service does with one request, as pure operators on its document |
| `NewsPortal` | the processes and their sockets: the whole program, in one life |
| `AtomicPortal` | what the program promises its clients: one atomic document per service |
| `Lifecycle` | several lives: what ports, processes and files hand on from one to the next |
| `SocketRead` | `_socket_read()` byte by byte, under the parser that calls it |
| `MessageRead` | what it amounts to: reading one message, as `NewsPortal` has it |
| `Codec` | messages to JSON and back, field by field, over several hops |
| `ClientArgs` | the command line of the client, option by option |
| `Strings` | `string_t` under any sequence of settings, comparisons, fields to text |
| `Log` | the log of a process |
| `MCNewsPortal`, `MCCodec`, `MCClientArgs`, `MCLibraries` | instances for TLC: documents, requests, faults, texts, arguments; the last one takes `Strings` and `Log` together |
| `NewsPortalProofs`, `AnswerProofs`, `StoreProofs` | proofs about `NewsPortal`: types, answers, documents, connections and the refinement |
| `LifecycleProofs`, `SocketReadProofs`, `CodecProofs`, `ClientArgsProofs`, `LibrariesProofs` | proofs about the module each is named after; the last one about `Strings` and `Log` |

`NewsPortal` extends `Microservices`, which extends `Protocol`; `AtomicPortal` extends
`Microservices` too and is instantiated in `NewsPortal` (`Atomic`) with `db <- store`.
`MessageRead` is instantiated in `SocketRead` (`Whole`). The other modules stand for the
parts that `NewsPortal` takes in one step, each in its own detail: reading a message
(`SocketRead`), what is in it (`Codec`), where a request comes from (`ClientArgs`).

### How `NewsPortal` corresponds to the code

Processes. `pc[p]` is where process p is; the labels are named after the call it is
in (`accept`, `recv`, `handle`, `connect`, `send`, `await`, `reply`, ...). `flag` and
`armed` are the exit flag and the signal disposition, one copy per server process as
after `fork()`. `cur`, `request` and `resp` are the locals of `server_handle_request()`
and `_on_request()`. `req` and `outcome` are the request of a client and what it
reports; `Failed` stands for an error message.

Connections. The connection a client opens is named after the client, the one the
portal opens to a service after the service: there is one of each at a time.
`callerEnd` and `serverEnd` are its two ends, `up` and `down` the bytes in flight,
`backlog` the queue of connections not accepted yet. A connection can be queued, and
its request sent, before the server accepts it. `fin` is a connection closed in order,
`rst` one that was reset: the listening socket vanished, or the server ended with
request bytes unread.

Both roles are written once. `Boot` to `Reply` are `libs/server.c` for any server
process; `Connect` to `Receive` are `libs/client.c` for any caller, client or portal.
`CallEnds` is where they differ: a client ends, the portal goes on to reply with
whatever its `response_t` holds.

Granularity. One action per system call, or per stretch of code without one. Handling
a request in a service is one step: the document is local to the process, nothing else
can see it half way. A message is sent and read in one step. It is in fact written in
small pieces, but the reader acts only on a complete JSON object, and a sender that
dies half way has the effect of one that dies before it sends: the reader gets an
incomplete text and fails. `SocketRead` shows it: reading byte by byte implements
`MessageRead`, which is this view.

Documents. A number is an integer count of tenths, with its JSON kind. Reading and
setting a number of the other kind do what the JSON library does: 0, and nothing. A
file that does not parse (`Unreadable`) leaves the context at what `malloc()` returned,
which is undefined: the model chooses between memory that the JSON library takes for
no object (`NullJson`) and a pointer that kills the process at its first use (`Wild`).

Signals. `SigintCaught` sets the flag, removes the handler, and if the process is
blocked in `accept()` or `recv()` the call returns EINTR. It may instead come just
before the process enters the call, which then blocks with the flag set.
`_socket_read()` loops while `errno == EINTR`, and a `recv()` that succeeds does not
reset `errno`: such a process never leaves the loop (`spin`, `await_spin`), unless a
later `recv()` fails with another error, which happens when the service resets the
connection (`SpinEnds`). A second SIGINT kills.

Faults. `Faults` is a set of pairs of a kind and a process, so that a run says what may
happen to whom: `sigint`, `crash`, and system calls that fail (`bind`, `fork`,
`accept`, `disk`) or a `file` that does not parse at the start.

`answer` and `execs` are history: what a service computed for a client's request, and
how often it executed it. No guard reads them.

`AtomicPortal` keeps one document per service and has three actions: a service loads
its file, a request is executed in one step, a client finishes with the answer, the
zero response or an error. The mapping is the identity on `req`, `answer` and `outcome`
and takes `store` for `db`; every step of sockets, signals and deaths is a stutter.

### The parts in detail

**`Lifecycle`** has for each life a portal and two services. A life may be started while
processes of an earlier one still run. `holders` is who holds the listening socket of a
port: a portal, and by `fork()` its services, which is why a service that is left behind
keeps the port of its dead portal. `lingering` is a port with a connection in TIME_WAIT;
`bind()` is called without `SO_REUSEADDR`. `SaveOpen` and `SaveWrite` are the two halves
of `json_dump_file()`. A document is the number of updates in it, so that a lost one
shows; `harmed` is history and says which documents a death or the disk has hurt.
Requests do not appear: a service that is running may be updated at any time.

**`SocketRead`** has one connection and one message of `Bytes` bytes. `read` is
`bytes_read`, `output` the buffer and the byte before it: a `recv()` that fails adds -1
to the count, so that the next call writes there. `taken` is how much `recv()` has
copied, `text` what the parser was given. `waitall` is the difference between `client.c`
and `server.c`. `Loop` is the condition `errno == EINTR`, which stays true once it is;
`RecvReset` is the only other error. `Parse` takes the counts 0 and -1 for the end.

**`Codec`** follows one message: composed by a program, or out of a document that comes
from elsewhere. `ReadField` and `WriteField` are one round of `message_iter()` each, the
failing ones are `UnreadableField`, which leaves the fields before it written, and
`UnwritableField`, which leaves nothing in the socket. `NextHop` hands what was sent to
the next program, as the portal does in both directions. `Drop` and `StartWrite` are
where requests and responses differ: nobody looks at what `response_deserialize()`
returns before a response is sent on. JSON is the library's: a document is its tag
(`@type`) and its members. `to_float` narrows a double and may give an infinity.

**`ClientArgs`** goes from `argv` to the `request_t`. An argument is opaque but for what
`strtol()` and `strtod()` make of it and whether it fits in a `string_t`. `SetField`,
`Pass` and `BadOption` are the rounds of the option loop.

**`Strings`** sets strings with `str_init()` and `string_from_cstr()` in any order;
comparisons, `str_to_cstr()` and conversions are operators on the two fields of a
`string_t`. `value` and `closed` are history: what a string was last set to, and whether by
the setter that writes a NUL. **`Log`** has one action per function; `fopen()` may fail and is
tried again. A line is its level and what the disk took of it, the whole, a part or nothing:
`log_write()` looks at no result of `fprintf()`, `vfprintf()` and `fflush()`.

Operators and actions whose comment starts with "Wrong:" are not part of the
specification. Each is a plausible mistake in the code; put in place of the definition
it varies, it breaks the property it is paired with in `PROJECT.json`.

## What is checked

| run | instance | shows |
|---|---|---|
| `calls` | 3 clients, 6 requests, no faults; 910,000 states | `TypeOK`, `AnswerIntegrity`, `AcknowledgedIsKept`, `UpdatesAreConfined`, `ImplementsAtomic`, and no deadlock |
| `clients_finish` | 2 clients, both services, faults of one service and of clients; 410,000 states | `IInv`, `ConnInv`, `ExitIsSaved`, `ClientsFinish`, `ExecutesOnceInTime`, `ImplementsAtomic`, and no deadlock |
| `shutdown` | 2 clients that give one coin different values, SIGINT to portal and one service, a portal that dies, failing calls; 92,000 states | `IInv`, `ConnectionsAreHeld`, `StoreInv`, `AcknowledgedIsKept`, `ShutdownCompletes`, `ExecutesOnceInTime`, `ImplementsAtomic` |
| `lifecycle` | 2 lives, 2 updates of each document; 750,000 states | `TypeOK`, `OneLifeAtATime`, `UpdatesSurvive` |
| `socket_read` | 4 bytes, buffers of 1 to 6; 2,600 states | `TypeOK`, `TextInPlace`, `WaitsForClose`, `ImplementsMessageRead`, `WholeIsRead` |
| `codec` | every message over small sets of values, and bad documents, 2 hops; 7,300 states | `TypeOK`, `ReadIsMeaning`, `SentIsReadable`, `EndToEnd`, `PartialIsPrefix` |
| `client_args` | 18,004 command lines with up to three options; 45,000 states | `TypeOK`, `PostIsAsArgs`, `InvalidIffOmitted`, `LegalIsAccepted` |
| `libraries` | 2 strings in buffers of 3 characters, or 3 lines of log; 46,000 states | `StrInv`, `ReadsBack`, `ComparisonsAgree`, `PrintsWhole`, `TakenIsKept` |
| `resp_is_filled` | 1 client | `RespIsFilled` is violated |
| `signal_exits_loop` | 1 client, SIGINT to the portal | `SignalExitsLoop` is violated |
| `post_updates` | 1 client, the POST requests | `PostUpdates` is violated |
| `saves_only_if_told` | 1 client, `accept()` may fail | `SavesOnlyIfTold` is violated |

The properties:
- `AnswerIntegrity`: a client reports its own answer or the zero response, never what
  was computed for another client.
- `ExecutesOnceInTime`: a request is executed once at most, and not after its client
  has reported a response. (After it has reported an *error*, it may still be executed:
  a client that is reset can have its request in a service already.)
- `UpdatesAreConfined`: once loaded, a document changes only in the step that executes a
  POST, in the entry and the fields it names, never their JSON kind; that POST is answered
  `Success` in the same step, and was not answered before. Its client need not wait any
  more: a service executes what it has read, also for a client that died or gave up.
- `ImplementsAtomic`: `NewsPortal` refines `AtomicPortal`.
- `ExitIsSaved`: after an orderly end the file holds the last document, unless the disk
  failed.
- `AcknowledgedIsKept`, an action property: in the step in which a service answers a POST
  with `Success` each number that it gives comes to stand in the document, and no step takes
  it away but one that executes another successful POST for the same number. The document
  that counts is that of the service, and once it has ended in order its file, unless the
  disk failed. So the last POST wins: a value of an older one cannot come back. A number of
  the other JSON kind than its setter's is never set (`post_updates`); of such a one the
  property asks nothing but that the entry is there.
- `ConnectionsAreHeld`: a connection that is up is in the queue of a socket that some
  process holds, or in the hands of a running server. A service left behind holds the
  portal's socket, too, and serves nobody: the property does not say that a client is
  answered, which is `ClientsFinish`.
- `ClientsFinish`: every client ends, whatever happens to the services.
- `ShutdownCompletes`: a server with its flag set leaves its loop, unless the signal
  found it asleep in `accept()` or it is stuck in a read. The exceptions are what the
  code does, not what one would wish; `SignalExitsLoop` says what the comment promises.
- `IInv`, `StoreInv`, `ConnInv`: the inductive invariants of `NewsPortal`, see below;
  `StrInv` is that of `Strings`.
- `OneLifeAtATime`: no process of one life runs beside one of another, but for a portal
  that has not got its port yet. Nothing in the code says so; it is the socket that the
  services inherit that keeps the next portal out until they have all ended.
- `UpdatesSurvive`: no acknowledged update is lost from one life to a later one, unless a
  service dies with updates that are not on disk, or the disk fails. It holds because the
  lives do not mix: a service that loaded its file while the one before was still to save
  would overwrite it later.
- `TextInPlace`: each byte that the parser gets is the one that belongs there (or one that
  nobody wrote, which ends the reading), in spite of the -1 in the count.
- `WaitsForClose`: what `NewsPortal` says of a caller, that it has its answer only when
  the service has closed. A signal can cut the wait short, but not for the portal: it
  comes once, and then the whole message must have been there.
- `ImplementsMessageRead`: `SocketRead` refines `MessageRead`.
- `WholeIsRead`: a message that was sent is read at last, whatever pieces it comes in,
  unless a signal has come.
- `ReadIsMeaning`: a document is accepted if and only if each field of its type is there,
  of the right kind and not too long, and then the message is what the document says.
- `SentIsReadable`: what a program sends, the next one accepts.
- `EndToEnd`: a composed message reaches every later program as it was, or not at all.
- `PartialIsPrefix`: what is passed on of a response that could not be read is a prefix of
  its fields, then zeros; of a bad request nothing is.
- `PostIsAsArgs`, `InvalidIffOmitted`, `LegalIsAccepted`: an accepted POST carries the
  last number given for each field and no argument is left over; a weather field is
  `INVALID_VALUE` if and only if no option gives it; no command line of the form that the
  usage text describes is refused. That form is taken from the text and its examples
  (`main.c:55-75`), not from the checks: a POST gives the right password, and at least one
  value in its range, each option once. A POST without `--pass` is not of that form.
- `ComparisonsAgree`, `PrintsWhole`: the comparisons agree with each other and with what
  the strings were set to; a buffer of the size asked for takes the whole field.
- `ReadsBack`: a string set by `str_init()` is, to those who are given its buffer by
  `str_to_cstr()` and not its length (the JSON library, above all), what it was set to,
  whatever longer content was there before.
- `TakenIsKept`: the file of the log holds, in order, what the disk took of each line for
  which `log_write()` returned 0. It does not say that the disk took all of it: the code
  reports a line that was not written as a success.

**Bounds.** Two clients are enough for what one client can do to the next: the portal
serves one at a time. Three, in the run without faults, let one wait in the queue,
one be blocked in `connect()` behind it, and one be served. `MaxPending` is 1
instead of 100, so that a full queue really happens. One city and two coins, with a
number of each JSON kind, keep the updates that work apart from the ones that do not;
the names add one that no document has and one that is not UTF-8. Each client sends
one request, as the program does. Nothing else is bounded: there are no counters that
grow, apart from `execs`, which `ExecutesOnceInTime` shows to stay below 2.

In `Lifecycle` the counters are `MaxLives` and `MaxUpdates`; two lives already overlap in
every way that two processes can, and two updates tell a stale document from a fresh and
from a missing one. In `SocketRead` a message of 4 bytes meets buffers smaller than, equal
to and larger than itself, so that it comes in one read and in many; one signal may come,
since a second kills. In `Codec`, `IntHalf` is 4 and the numbers stand for kinds: 7 is a
double that a float rounds, 9 one that becomes an infinity; two hops take a message
through the portal, and there are texts that are empty, ordinary, too long and not UTF-8.
In `ClientArgs` an `int` has 5 bits, so that a type wraps around; three options are enough
for one to be repeated, unknown or missing, and -5 is a temperature but no other value. `Capacity` is 3 characters instead of 1024,
with strings of up to 4. `MaxLines` bounds the log, and every level occurs.

**Faults.** What can happen to the program is divided between two runs by what it hits.
In `clients_finish` the portal is left alone and the rest suffers: clients that are
interrupted, and a service that dies, does not get its port, leaves its loop because
`accept()` fails or has a file that does not parse. In `shutdown` the program is brought
down: SIGINT to the portal and a service, at any point and twice, a portal that dies, does
not get its port or cannot accept, either `fork()`, and the disk of the other service. The
kinds are mixed freely within a run, and each action of `NewsPortal` happens in one of them.

**Symmetry.** Clients are interchangeable; `calls` uses symmetry, the runs with a liveness
property do not. Instead, `shutdown` gives its clients different requests and looks at one of
the two ways of handing them out (`DifferentInit`).

**Deadlock** is checked in `calls` and `clients_finish` (a state where all clients have
ended is not one). In `shutdown` the servers really end, and a client may wait for ever on a
listening socket that a child of the portal still holds, so that it says `CHECK_DEADLOCK
FALSE`, as do `lifecycle`, `socket_read`, `codec`, `client_args` and `libraries`, where the
last life, the message, the command line or the log has an end.

**Fairness** is weak, per process: the portal, each service and each client. It says no
more than that the kernel runs every process that is not blocked. The actions of the
environment (signals, deaths, failures) are not fair, and are kept apart from the
process's own steps. In `SocketRead` fairness is on the reader only: the other side may
send nothing more, and a signal need not come.

## Where code and comments disagree

1. `server.h:22-24` says that the callback fills the response. When the call to a
   service fails, `_handle_request()` (`main.c:37`) returns with the response untouched,
   and it is sent: the client prints a weather report of zeros. This takes no fault, the
   portal listens before its services do (`resp_is_filled`).
2. `main.c:21` says that SIGINT signals the loop to exit. Between the test of the flag
   and `accept()` it does not (`signal_exits_loop`).
3. `microservices.c:168` says that valid values of a request are written. A JSON integer
   in the file is never changed by `json_real_set()`; the peso is one (`post_updates`).
4. `microservices.c:293` says that the state is saved if the flag is true. It is always
   saved (`saves_only_if_told`).

Seen in the models too, without a run of their own:

5. `str.c:9` says that `str_init()` returns false for a C string that is too large;
   `_make_request()` (`main.c:111`) does not look, and asks for the city "" instead (`Empty`
   in `ClientArgs`).
6. The usage text (`main.c:62`) says that `--c` defines the value. With `--pass` twice there
   is no `--c`, and the POST goes out with the value 0, which is refused when it is given.
7. `str.c:66` says that `str_to_cstr()` returns the C string, but `string_from_cstr()`
   writes no NUL: `Strings` has buffers without one.
8. `types.c:15` says that `field_to_cstr()` returns the number of bytes. For a number it
   returns 1 (`float_to_cstr`, `integer_to_cstr` in `Strings`).
9. `log.c:79` says that only `NONE_L` lines are written when debug mode is off; `STAT_L`
   lines are, too (`Refuses` in `Log`).
10. `log.c:88-90` says that `log_write()` returns the number of characters written, or a
   negative number. It returns 0, and does so when the disk took nothing, too (`log_write` in
   `Log`).
11. `server.h:17-18` says that the handler is executed in an independent process. The server
   is iterative (`cur` in `NewsPortal`); the report says so.
12. The report (`informe.md:95-100`) shows a response of type `weather_resp` that has a
   `pressure` only. A client refuses a response in which a field is missing
   (`UnreadableField` in `Codec`).
13. The usage text (`main.c:62-65`) says that a value option fails if the administrator cannot
   authenticate, and `main.c:95-98` that the password is checked. Each `--pass` that is given
   is, but none is required; no property speaks of POSTs without one, but `PostIsAsArgs`,
   which says what they carry.

## What is proved

For every set of clients, of requests and of faults, every document, and every queue
length, from the assumptions named in the modules (`NamesAssumption`,
`StoreAssumption`, `NullJsonAssumption`, `PortalAssumption`: the special values differ
from ordinary ones, the files hold documents of the right shape):

- `TypeCorrect` (`NewsPortalProofs`): `Spec => []TypeOK`. The types alone are not
  inductive: a server in the middle of a connection must know which one it is
  (`cur[p] # None`), and the one that executes or forwards a request, whose it is. This
  is `ControlInv`; the proof is of `TypeInv == TypeOK /\ ControlInv`, one lemma per
  action.
- `InvariantHolds` (`AnswerProofs`): `Spec => []IInv`.
- `AnswersAreOwn`: `Spec => []AnswerIntegrity`, which is a part of `IInv`.
- `ExecutesOnce`: `Spec => ExecutesOnceInTime`. Only `MicroHandle(s)` changes `execs`,
  when s holds the request of some client c; `LiveInv` then says that it has had no
  effect yet.

**The inductive invariant.** `AnswerIntegrity` is far from inductive: it must exclude
that an answer still travels when the next request sets out. `FlowInv` follows a request
along its way. `UnreadInv`: a request that the portal has not read is only in the socket
of its client and has left no trace (`Fresh`). `BusyInv`: what the portal handles
belongs to its current connection, and its response is the zero response until a
service has answered. `CallInv`: the portal has one call open at a time, and it leaves a
call only after the service has closed it, which is what waiting for the end of the
connection in `Receive` is good for; so no service is still at work for the last client
when the portal takes the next. `ServeInv` and `LiveInv`: what a service works on is the
request that the portal waits for, unless the portal has ended; it is live in one
place only and unexecuted. `AnswerInv`: what travels back is the answer to it or the
zero response. `StartInv` covers the time before the forks. The proof takes `FlowInv`
action by action: steps it cannot see (`UnseenStep`), steps between connections
(`CalmStep`), steps at the front of the portal (`FrontStep`), and a lemma for each
remaining action.

**Documents** (`StoreProofs`). `StoreInvariant` adds to `IInv` what it does not say of files
and of the time before a service has loaded its document; `StoreInv` is inductive relative
to `IInv`. `ExitSaves` follows from its part `SaveInv`. `Refinement` (`Spec => ImplementsAtomic`) maps the initial
states, and then each step: `MicroHandle` to `Execute`, `ServiceLoad` to `Load`, the three
ways in which a client ends to `Finish`, all others to a stutter. It needs `IInv` for what
a client may finish with, and `TraceInv` for a service that loads only before it answers.

`AcknowledgedKept` (`Spec => AcknowledgedIsKept`) is about steps. Most leave the answers and
the document that counts as they are; that a service which ends in order changes from its
document to an equal file is `SaveInv` (`CurrentFacts`, `CurrentFactsPrime`). What is left is
`MicroHandle`. If it answers the POST itself, the numbers now stand in the document
(`PostEffect`); if it answers another one, a number that stood before either still does, or
the new POST gives it, and this is the step that overrides it (`PostKeeps`). The invariant
`KeptInv`, a part of `StoreInv`, says that what was answered `Success` is a POST for an entry
that the document has. `UpdatesConfined` looks at the same action, with `SuccessFacts` for
what a service answers, and `TraceInv` for an answer that was not there before.

**Connections** (`StoreProofs`). The state of a connection is kept twice, by the kernel in its
two ends and by the servers in their queues and in `cur`; `ConnInv` says that the two agree.
`EndsInv`: a connection is `queued` if and only if it is in the queue of its server, and
`open` if and only if that server has it in hand. `QueueInv`: no queue holds a connection
twice, one that is not empty has a process that holds its socket, and only a server between
`accept()` and `close()` has a connection. `ConnectConn` needs `FlowInv`: the portal opens
the next connection to a service only when the one of that name before is over. `EndsConn`
is the end of a process: the kernel resets the queues of which it was the last holder.
`ConnectionInvariant` and `ConnectionsHeld` are the theorems.

**Lives** (`LifecycleProofs`). `OneLifeAtATime` is not inductive by itself. The invariant says
who holds which socket (`HoldersInv`), that each role of a life is played by one process
(`RoleInv`), that nobody runs before the portal of his life has its port (`ForkInv`), and
that the context of a service is what its place in the code makes of it (`ContextInv`).
Two processes of different lives would both hold the socket of the portal, which passes
from one life to another only when nobody holds it.

**Reading** (`SocketReadProofs`), for every size of message and buffer. Until the first error
the count is right and the buffer holds what follows the text (`CleanInv`); after an
interruption the loop never ends, and the count is one too small (`SpinInv`); after a
reset, which the code meets only before the other side has sent anything, the loop ends
with nothing (`FailInv`). From it: `ReadTyped` (the count stays between -2 and the size,
and the copies within the buffer and the byte before it), `BytesInPlace`, `CallerWaits`
and `ReadsWhole`, the refinement of `MessageRead`.

**Messages** (`CodecProofs`), for every set of texts and numbers and every conversion to
floats. `IInv` says how far a message was read from its document or written to the next
one, and what the rest of it is. `MessagesTyped` follows from it; `ReadsMeaning`,
`SendsReadable`, `ArrivesWhole` and `PassesPrefix` follow at the points where a program has
read or has sent.

**Command line** (`ClientArgsProofs`), for all arguments and whatever `strtol()` and `strtod()`
make of them. The invariant holds at each round of the loop, of the options before it: a
field is as it started, or the last number given for it. It also says that the lines which the
checks leave (`Understood`) are never refused; that the form of the usage text is among them
is `LegalUnderstood`, and `LegalAccepted` follows. The others are `ArgsTyped`, `PostAsArgs` and
`OmittedIsInvalid`.

**Strings and log** (`LibrariesProofs`), for every capacity, alphabet and number of lines.
`StringsHold`: `StrInv`, each string has the length and the characters that it was last set
to, whatever comes after them in the buffer. `StringsCompare`: what two buffers compare to
is what their contents compare to. `memcmp` chooses the least place where they differ, so
that the proof needs least elements of sets of numbers (`Least`, from the cardinality of
finite sets) and the first difference of two sequences (`FirstDifference`). `StringsPrint`:
`printed_string()` stops where the content does, since the buffer is asked for one more byte
than it has (`PrintsString`), and the conversions of numbers leave room (`PrintsNumber`).
`StringsReadBack`: a string has no NUL among its characters, and `str_init()` puts one after
them (`ReadBack`). `LogKeeps`: before the file is opened, which truncates it, no line was
accepted. The run takes both modules at once; its behaviours are behaviours of each (the
lemma `LibrariesApart`), so that the theorems speak of the run.

The assumptions are the named ones in each module: that special values (`None`, `Null`,
`nan`, `Unreadable`) differ from ordinary ones, that sizes are positive, that a conversion
to floats leaves a float alone, that `IntHalf` is large enough for the types of requests.

Only model-checked: the liveness properties `ClientsFinish`, `ShutdownCompletes` and
`WholeIsRead`, which are out of the prover's reach. Every invariant and action property of a
passing run, and both refinements, are theorems.

## Not modelled

- The parsing of numbers in `types.c` (`integer_from_cstr()`, `float_from_cstr()`), which is
  `sscanf()` and which no program calls.
- The format of what is printed and logged (`request_print()`, `response_print()`, the time
  of a log line, which does not fit in `time_str[10]` from 100 ms on), and the help text.
- A `send()` that is interrupted or takes only a part: a message fits in the buffer of a
  socket many times over, so that `_socket_write()` does not block. `send()` on a
  connection that is gone is modelled (`SendFails`).
- `connect()` that times out on a full queue (the model waits), and failures of `socket()`,
  `gethostbyname()` and `malloc()`. A client whose `socket()` or `gethostbyname()` fails
  ends with an error, like one that is refused.
- What happens after `log_close()`: it frees the instance and keeps the pointer, so that any
  further call is undefined.
- The syntax of JSON, which is the library's; `SocketRead` knows only whether a text is
  complete.
- The requests inside `Lifecycle`, and several lives inside `NewsPortal`. One is the frame of
  the other: in each life of `Lifecycle` a service is updated only while it is in its loop,
  which is where `NewsPortal` has it handle requests.
- The unit test runner and the unit tests, the Makefile and the report.
