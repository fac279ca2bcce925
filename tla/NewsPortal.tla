----------------------------- MODULE NewsPortal -----------------------------
(***************************************************************************)
(* The whole program: client processes (src/client/main.c), the portal     *)
(* (src/server/main.c) and the two microservices it forks                  *)
(* (src/server/microservices.c), talking over stream sockets through       *)
(* libs/client.c and libs/server.c.                                        *)
(*                                                                         *)
(* A client process sends one request and ends.  The portal is at once a   *)
(* server of the clients and a client of the services, so both halves of   *)
(* the library are written once, for every process that runs them.  A      *)
(* connection is named after its far side as the portal sees it: client c  *)
(* opens connection c to the portal, the portal opens connection s to      *)
(* service s.                                                              *)
(*                                                                         *)
(* The kernel gives each socket call its meaning: a listening socket stays *)
(* open while any process holds it, connections queue on it before they    *)
(* are accepted, and a process that ends closes what it held.              *)
(***************************************************************************)
EXTENDS Microservices, Sequences, FiniteSets

CONSTANTS
    Clients,      \* the client processes
    Requests,     \* the requests their command lines can ask for
    Files,        \* service -> what weather.json / currency.json parses to
    MaxPending,   \* MAX_PENDING_CONN, the length of a listening queue
    Faults,       \* <<kind, process>>: what the environment may do to whom
    None,         \* no value
    Failed,       \* a client that reported an error instead of a response
    Unreadable,   \* a file that does not parse: absent, empty or truncated
    Wild          \* a context pointer that was never set

Portal == "portal"
Servers == Services \cup {Portal}
Procs == Clients \cup Servers
Conns == Clients \cup Services

FaultKinds == {"sigint", "crash", "bind", "fork", "accept", "disk", "file"}

ASSUME PortalAssumption ==
    /\ Clients \cap Servers = {}
    /\ Requests \subseteq Request
    /\ Files \in [Services -> WeatherJson \cup CurrencyJson]
    /\ \A s \in Services : Files[s] \in Document(s)
    /\ MaxPending \in Nat \ {0}
    /\ Faults \subseteq FaultKinds \X Procs
    /\ None \notin Response \cup Clients \cup Conns
    /\ Failed \notin Response \cup {None}
    /\ Unreadable \notin WeatherJson \cup CurrencyJson
    /\ Wild \notin WeatherJson \cup CurrencyJson \cup {NullJson}

VARIABLES
    pc,         \* where each process is
    flag,       \* exit_flag of each server process (its own copy after fork)
    armed,      \* sigint_handler is installed
    cur,        \* the connection a server is handling
    request,    \* the request it read from it, named after its client
    resp,       \* the response_t it is filling
    backlog,    \* connections queued on the listening socket of a server
    callerEnd,  \* the end of a connection held by the process that opened it
    serverEnd,  \* its other end
    up,         \* request bytes not read yet, named after their client
    down,       \* response bytes not read yet
    store,      \* context->json of a service
    file,       \* the content of its file
    req,        \* the request of a client, from its command line
    outcome,    \* what a client reports at its end
    answer,     \* history: what a service computed for a client's request
    execs       \* history: how many times a service executed that request

procVars == <<pc, flag, armed, cur, request, resp>>
netVars == <<backlog, callerEnd, serverEnd, up, down>>
dataVars == <<store, file>>
clientVars == <<req, outcome>>
history == <<answer, execs>>
vars == <<procVars, netVars, dataVars, clientVars, history>>

-----------------------------------------------------------------------------
(* Program counters *)

\* A process that has no socket yet, or has none any more.
Down == {"unborn", "boot", "exited", "dead"}
Ended == {"unborn", "exited", "dead"}

\* accept: server_handle_request(), blocked in accept() or about to be.
\* recv: in request_deserialize().  handle: in the callback of a service.
\* connect, send, await: in client_send().  reply: in response_serialize().
\* spin, await_spin: recv() was interrupted, errno is still EINTR.
\* finish, save: in json_dump_file().  stop: in server_stop().
LoopPc == {"loop", "accept", "recv", "reply", "spin", "stop"}
ClientPc == {"connect", "send", "await", "done", "dead"}
ServicePc == Down \cup LoopPc \cup {"load", "handle", "finish", "save"}
PortalPc == (Down \ {"unborn"}) \cup LoopPc
            \cup {"fork_weather", "fork_currency", "connect", "send", "await",
                  "await_spin"}

\* The connections that arrive at server p.
ConnsOf(p) == IF p = Portal THEN Clients ELSE {p}

ProcType ==
    /\ pc \in [Procs -> ClientPc \cup ServicePc \cup PortalPc]
    /\ \A c \in Clients : pc[c] \in ClientPc
    /\ \A s \in Services : pc[s] \in ServicePc
    /\ pc[Portal] \in PortalPc
    /\ flag \in [Servers -> BOOLEAN]
    /\ armed \in [Servers -> BOOLEAN]
    /\ cur \in [Servers -> Conns \cup {None}]
    /\ \A p \in Servers : cur[p] \in ConnsOf(p) \cup {None}
    /\ request \in [Servers -> Clients \cup {None}]
    /\ resp \in [Servers -> Response]

NetType ==
    /\ backlog \in [Servers -> Seq(Conns)]
    /\ \A p \in Servers : backlog[p] \in Seq(ConnsOf(p))
    /\ callerEnd \in [Conns -> {"none", "open", "closed"}]
    /\ serverEnd \in [Conns -> {"none", "queued", "open", "fin", "rst"}]
    /\ up \in [Conns -> Clients \cup {None}]
    /\ down \in [Conns -> Response \cup {None}]

DataType ==
    /\ store \in [Services -> WeatherJson \cup CurrencyJson \cup {NullJson, Wild}]
    /\ \A s \in Services : store[s] \in Document(s) \cup {NullJson, Wild}
    /\ file \in [Services -> WeatherJson \cup CurrencyJson \cup {Unreadable}]
    /\ \A s \in Services : file[s] \in Document(s) \cup {Unreadable}

ClientType ==
    /\ req \in [Clients -> Requests]
    /\ outcome \in [Clients -> Response \cup {None, Failed}]
    /\ answer \in [Clients -> Response \cup {None}]
    /\ execs \in [Clients -> Nat]

TypeOK == ProcType /\ NetType /\ DataType /\ ClientType

-----------------------------------------------------------------------------
(* Sockets *)

Fault(kind, p) == <<kind, p>> \in Faults

\* The listening socket of the portal is opened before the forks and never
\* closed in the children: each of them holds it until it ends.
ListenHolders(p) ==
    {q \in Servers : \/ q = p /\ pc[q] \notin Down
                     \/ p = Portal /\ q \in Services /\ pc[q] \notin Ended}

Listening(p) == ListenHolders(p) # {}

\* Who listens at the far side of connection x.
ListenerOf(x) == IF x \in Clients THEN Portal ELSE x

Alive(x) == serverEnd[x] \in {"queued", "open"}

Queued(p) == {backlog[p][i] : i \in 1..Len(backlog[p])}

\* The kernel's part in the end of server process p: queues on listening
\* sockets that nobody holds any more are reset, and so is a connection
\* closed with request bytes unread; any other one is closed in order.
Ends(p, last) ==
    LET gone  == {q \in Servers : ListenHolders(q) = {p}}
        reset == UNION {Queued(q) : q \in gone}
    IN /\ pc' = [pc EXCEPT ![p] = last]
       /\ backlog' = [q \in Servers |-> IF q \in gone THEN <<>> ELSE backlog[q]]
       /\ serverEnd' = [x \in Conns |->
             CASE x \in reset                        -> "rst"
               [] x \notin reset /\ x = cur[p]       -> IF up[x] = None
                                                        THEN "fin" ELSE "rst"
               [] x \notin reset /\ x # cur[p]       -> serverEnd[x]]
       /\ callerEnd' = [x \in Conns |->
             IF p = Portal /\ x \in Services /\ callerEnd[x] = "open"
             THEN "closed" ELSE callerEnd[x]]
       /\ cur' = [cur EXCEPT ![p] = None]
       /\ request' = [request EXCEPT ![p] = None]
       /\ resp' = [resp EXCEPT ![p] = ZeroResponse]
       /\ UNCHANGED <<flag, armed, up, down, dataVars, clientVars, history>>

-----------------------------------------------------------------------------
Init ==
    /\ pc = [p \in Procs |-> CASE p \in Clients  -> "connect"
                               [] p = Portal     -> "boot"
                               [] p \in Services -> "unborn"]
    /\ flag = [p \in Servers |-> FALSE]
    /\ armed = [p \in Servers |-> TRUE]
    /\ cur = [p \in Servers |-> None]
    /\ request = [p \in Servers |-> None]
    /\ resp = [p \in Servers |-> ZeroResponse]
    /\ backlog = [p \in Servers |-> <<>>]
    /\ callerEnd = [x \in Conns |-> "none"]
    /\ serverEnd = [x \in Conns |-> "none"]
    /\ up = [x \in Conns |-> None]
    /\ down = [x \in Conns |-> None]
    /\ store = [s \in Services |-> NullJson]
    /\ file \in {f \in [Services -> {Files[s] : s \in Services} \cup {Unreadable}] :
                    \A s \in Services : \/ f[s] = Files[s]
                                        \/ f[s] = Unreadable /\ Fault("file", s)}
    /\ req \in [Clients -> Requests]
    /\ outcome = [c \in Clients |-> None]
    /\ answer = [c \in Clients |-> None]
    /\ execs = [c \in Clients |-> 0]

-----------------------------------------------------------------------------
(* Starting up: main() and launch_microservice() before their loops *)

Goto(p, label) == pc' = [pc EXCEPT ![p] = label]

\* server_init() succeeds: the socket is bound and listening.
Boot(p) ==
    /\ pc[p] = "boot"
    /\ Goto(p, IF p = Portal THEN "fork_weather" ELSE "load")
    /\ UNCHANGED <<flag, armed, cur, request, resp, netVars,
                   dataVars, clientVars, history>>

\* server_init() fails in bind() or listen(): the process ends.
BindFails(p) ==
    /\ Fault("bind", p)
    /\ pc[p] = "boot"
    /\ Ends(p, "exited")

ForkLabel(s) == IF s = "weather" THEN "fork_weather" ELSE "fork_currency"

\* The child inherits the exit flag and the signal disposition of its parent.
Fork(s) ==
    /\ pc[Portal] = ForkLabel(s)
    /\ pc' = [pc EXCEPT ![s] = "boot",
                        ![Portal] = IF s = "weather" THEN "fork_currency" ELSE "loop"]
    /\ flag' = [flag EXCEPT ![s] = flag[Portal]]
    /\ armed' = [armed EXCEPT ![s] = armed[Portal]]
    /\ UNCHANGED <<cur, request, resp, netVars, dataVars, clientVars, history>>

\* fork() fails: main() returns at once and leaves behind the child it has.
ForkFails(s) ==
    /\ Fault("fork", s)
    /\ pc[Portal] = ForkLabel(s)
    /\ Ends(Portal, "exited")

\* _create_weather_context(), _create_currency_context().  A file that does
\* not parse leaves context->json as malloc() returned it: memory that the
\* JSON library takes for something else than an object, or a wild pointer.
ServiceLoad(s) ==
    /\ pc[s] = "load"
    /\ \/ file[s] # Unreadable /\ store' = [store EXCEPT ![s] = file[s]]
       \/ /\ file[s] = Unreadable
          /\ \E json \in {NullJson, Wild} : store' = [store EXCEPT ![s] = json]
    /\ Goto(s, "loop")
    /\ UNCHANGED <<flag, armed, cur, request, resp, netVars, file, clientVars, history>>

-----------------------------------------------------------------------------
(* libs/server.c: the loop of the portal and of the services *)

\* Wrong: a service leaves its loop without saving.
LoopCheckUnsaved(p) ==
    /\ pc[p] = "loop"
    /\ Goto(p, IF flag[p] THEN "stop" ELSE "accept")
    /\ UNCHANGED <<flag, armed, cur, request, resp, netVars,
                   dataVars, clientVars, history>>

\* Wrong: while (true).
LoopCheckBlind(p) ==
    /\ pc[p] = "loop"
    /\ Goto(p, "accept")
    /\ UNCHANGED <<flag, armed, cur, request, resp, netVars,
                   dataVars, clientVars, history>>

\* while (!exit_flag)
LoopCheck(p) ==
    /\ pc[p] = "loop"
    /\ Goto(p, CASE ~flag[p]                   -> "accept"
                 [] flag[p] /\ p = Portal      -> "stop"
                 [] flag[p] /\ p \in Services  -> "finish")
    /\ UNCHANGED <<flag, armed, cur, request, resp, netVars,
                   dataVars, clientVars, history>>

Accept(p) ==
    /\ pc[p] = "accept"
    /\ backlog[p] # <<>>
    /\ LET x == Head(backlog[p]) IN
       /\ cur' = [cur EXCEPT ![p] = x]
       /\ serverEnd' = [serverEnd EXCEPT ![x] = "open"]
    /\ backlog' = [backlog EXCEPT ![p] = Tail(@)]
    /\ Goto(p, "recv")
    /\ UNCHANGED <<flag, armed, request, resp, callerEnd, up, down,
                   dataVars, clientVars, history>>

\* Wrong: a service that cannot accept any more does not save.
AcceptFailsUnsaved(p) ==
    /\ Fault("accept", p)
    /\ pc[p] = "accept"
    /\ Goto(p, "stop")
    /\ UNCHANGED <<flag, armed, cur, request, resp, netVars,
                   dataVars, clientVars, history>>

\* accept() fails for another reason than a signal: the loop is left.
AcceptFails(p) ==
    /\ Fault("accept", p)
    /\ pc[p] = "accept"
    /\ Goto(p, IF p = Portal THEN "stop" ELSE "finish")
    /\ UNCHANGED <<flag, armed, cur, request, resp, netVars,
                   dataVars, clientVars, history>>

\* Wrong: the response of the connection before is not cleared.
ReadRequestStale(p) ==
    /\ pc[p] = "recv"
    /\ up[cur[p]] # None
    /\ request' = [request EXCEPT ![p] = up[cur[p]]]
    /\ up' = [up EXCEPT ![cur[p]] = None]
    /\ Goto(p, IF p = Portal THEN "connect" ELSE "handle")
    /\ UNCHANGED <<flag, armed, cur, resp, backlog, callerEnd, serverEnd, down,
                   dataVars, clientVars, history>>

\* request_deserialize() succeeds; the response starts as {0}.
ReadRequest(p) ==
    /\ pc[p] = "recv"
    /\ up[cur[p]] # None
    /\ request' = [request EXCEPT ![p] = up[cur[p]]]
    /\ resp' = [resp EXCEPT ![p] = ZeroResponse]
    /\ up' = [up EXCEPT ![cur[p]] = None]
    /\ Goto(p, IF p = Portal THEN "connect" ELSE "handle")
    /\ UNCHANGED <<flag, armed, cur, backlog, callerEnd, serverEnd, down,
                   dataVars, clientVars, history>>

\* The caller closed without a request: request_deserialize() fails and the
\* connection is closed without a response.
DropConnection(p) ==
    /\ pc[p] = "recv"
    /\ up[cur[p]] = None
    /\ callerEnd[cur[p]] = "closed"
    /\ serverEnd' = [serverEnd EXCEPT ![cur[p]] = "fin"]
    /\ cur' = [cur EXCEPT ![p] = None]
    /\ Goto(p, "loop")
    /\ UNCHANGED <<flag, armed, request, resp, backlog, callerEnd, up, down,
                   dataVars, clientVars, history>>

\* Wrong: the connection is left open.
ReplyLeavesOpen(p) ==
    /\ pc[p] = "reply"
    /\ down' = IF callerEnd[cur[p]] = "open"
               THEN [down EXCEPT ![cur[p]] = resp[p]] ELSE down
    /\ cur' = [cur EXCEPT ![p] = None]
    /\ Goto(p, "loop")
    /\ UNCHANGED <<flag, armed, request, resp, backlog, callerEnd, serverEnd, up,
                   dataVars, clientVars, history>>

\* response_serialize() and close(): what is sent to a caller that has closed
\* is lost.
Reply(p) ==
    /\ pc[p] = "reply"
    /\ down' = IF callerEnd[cur[p]] = "open"
               THEN [down EXCEPT ![cur[p]] = resp[p]] ELSE down
    /\ serverEnd' = [serverEnd EXCEPT ![cur[p]] = "fin"]
    /\ cur' = [cur EXCEPT ![p] = None]
    /\ Goto(p, "loop")
    /\ UNCHANGED <<flag, armed, request, resp, backlog, callerEnd, up,
                   dataVars, clientVars, history>>

\* Wrong: the callback runs in a child process of its own, as the comment at
\* server.h:18 has it, and the document it changes is lost with the child.
MicroHandleInChild(s) ==
    LET c == request[s]
        result == micro_handle_request(s, store[s], req[c])
    IN /\ pc[s] = "handle"
       /\ store[s] # Wild
       /\ resp' = [resp EXCEPT ![s] = result.resp]
       /\ answer' = [answer EXCEPT ![c] = result.resp]
       /\ execs' = [execs EXCEPT ![c] = @ + 1]
       /\ Goto(s, "reply")
       /\ UNCHANGED <<flag, armed, cur, request, netVars, dataVars, clientVars>>

\* _micro_handle_request()
MicroHandle(s) ==
    LET c == request[s]
        result == micro_handle_request(s, store[s], req[c])
    IN /\ pc[s] = "handle"
       /\ store[s] # Wild
       /\ store' = [store EXCEPT ![s] = result.json]
       /\ resp' = [resp EXCEPT ![s] = result.resp]
       /\ answer' = [answer EXCEPT ![c] = result.resp]
       /\ execs' = [execs EXCEPT ![c] = @ + 1]
       /\ Goto(s, "reply")
       /\ UNCHANGED <<flag, armed, cur, request, netVars, file, clientVars>>

\* The first use of a wild context ends the process.
WildCrash(s) ==
    /\ pc[s] \in {"handle", "save", "stop"}
    /\ store[s] = Wild
    /\ Ends(s, "dead")

-----------------------------------------------------------------------------
(* libs/client.c: client_send(), run by a client and by the portal *)

Callers == Clients \cup {Portal}

\* The client whose request caller k sends.
Origin(k) == IF k \in Clients THEN k ELSE request[k]

\* The connection k opens: the portal routes by the type of the request.
Target(k) == IF k \in Clients THEN k ELSE get_base_request(req[request[k]].type)

\* Wrong: the portal takes a response that is not there.
CallEndsUnchecked(k, r) ==
    IF k \in Clients
    THEN /\ Goto(k, "done")
         /\ outcome' = [outcome EXCEPT ![k] = IF r = None THEN Failed ELSE r]
         /\ UNCHANGED resp
    ELSE /\ Goto(k, "reply")
         /\ resp' = [resp EXCEPT ![k] = r]
         /\ UNCHANGED outcome

\* client_send() returns, with response r or with an error; the portal then
\* sends its own caller whatever its response_t holds.
CallEnds(k, r) ==
    IF k \in Clients
    THEN /\ Goto(k, "done")
         /\ outcome' = [outcome EXCEPT ![k] = IF r = None THEN Failed ELSE r]
         /\ UNCHANGED resp
    ELSE /\ Goto(k, "reply")
         /\ resp' = IF r = None THEN resp ELSE [resp EXCEPT ![k] = r]
         /\ UNCHANGED outcome

CloseCaller(x) == callerEnd' = [callerEnd EXCEPT ![x] = "closed"]

\* connect() to a listening socket waits for room in its queue.
Connect(k) ==
    LET x == Target(k)
        p == ListenerOf(x)
    IN /\ pc[k] = "connect"
       /\ Listening(p)
       /\ Len(backlog[p]) < MaxPending
       /\ backlog' = [backlog EXCEPT ![p] = Append(@, x)]
       /\ callerEnd' = [callerEnd EXCEPT ![x] = "open"]
       /\ serverEnd' = [serverEnd EXCEPT ![x] = "queued"]
       /\ up' = [up EXCEPT ![x] = None]
       /\ down' = [down EXCEPT ![x] = None]
       /\ Goto(k, "send")
       /\ UNCHANGED <<flag, armed, cur, request, resp, dataVars, clientVars, history>>

\* Nobody listens: connection refused.
ConnectFails(k) ==
    /\ pc[k] = "connect"
    /\ ~Listening(ListenerOf(Target(k)))
    /\ CallEnds(k, None)
    /\ UNCHANGED <<flag, armed, cur, request, netVars, dataVars, req, history>>

\* request_serialize()
Send(k) ==
    /\ pc[k] = "send"
    /\ Encodable(req[Origin(k)])
    /\ Alive(Target(k))
    /\ up' = [up EXCEPT ![Target(k)] = Origin(k)]
    /\ Goto(k, "await")
    /\ UNCHANGED <<flag, armed, cur, request, resp, backlog, callerEnd, serverEnd, down,
                   dataVars, clientVars, history>>

\* It fails on a string that JSON refuses or on a connection already down.
SendFails(k) ==
    /\ pc[k] = "send"
    /\ ~Encodable(req[Origin(k)]) \/ ~Alive(Target(k))
    /\ CallEnds(k, None)
    /\ CloseCaller(Target(k))
    /\ UNCHANGED <<flag, armed, cur, request, backlog, serverEnd, up, down,
                   dataVars, req, history>>

\* Wrong: the caller gives up waiting.
ReceiveEarly(k) ==
    LET x == Target(k) IN
    /\ pc[k] = "await"
    /\ CallEnds(k, down[x])
    /\ down' = [down EXCEPT ![x] = None]
    /\ CloseCaller(x)
    /\ UNCHANGED <<flag, armed, cur, request, backlog, serverEnd, up,
                   dataVars, req, history>>

\* response_deserialize(): MSG_WAITALL asks for more than a response holds, so
\* that recv() returns when the other side has closed.
Receive(k) ==
    LET x == Target(k) IN
    /\ pc[k] = "await"
    /\ ~Alive(x)
    /\ CallEnds(k, down[x])
    /\ down' = [down EXCEPT ![x] = None]
    /\ CloseCaller(x)
    /\ UNCHANGED <<flag, armed, cur, request, backlog, serverEnd, up,
                   dataVars, req, history>>

\* recv() was interrupted (errno is EINTR) and the service then resets the
\* connection: the error replaces errno, and client_send() parses what it has
\* of its buffer, which holds nothing.
SpinEnds ==
    LET x == Target(Portal) IN
    /\ pc[Portal] = "await_spin"
    /\ serverEnd[x] = "rst"
    /\ CallEnds(Portal, None)
    /\ CloseCaller(x)
    /\ UNCHANGED <<flag, armed, cur, request, backlog, serverEnd, up, down,
                   dataVars, req, history>>

-----------------------------------------------------------------------------
(* Leaving: _finish_*_service() and server_stop() *)

\* json_dump_file() truncates the file; fopen() may fail instead.
SaveOpen(s) ==
    /\ pc[s] = "finish"
    /\ \/ /\ file' = [file EXCEPT ![s] = Unreadable]
          /\ Goto(s, "save")
       \/ /\ Fault("disk", s)
          /\ Goto(s, "stop")
          /\ UNCHANGED file
    /\ UNCHANGED <<flag, armed, cur, request, resp, netVars, store, clientVars, history>>

\* It writes the context, and refuses one that is no object; a write error
\* leaves a partial file.  The service goes on in each case.
SaveWrite(s) ==
    /\ pc[s] = "save"
    /\ store[s] # Wild
    /\ \/ /\ store[s] # NullJson
          /\ file' = [file EXCEPT ![s] = store[s]]
       \/ /\ store[s] = NullJson \/ Fault("disk", s)
          /\ UNCHANGED file
    /\ Goto(s, "stop")
    /\ UNCHANGED <<flag, armed, cur, request, resp, netVars, store, clientVars, history>>

ServiceExit(s) ==
    /\ pc[s] = "stop"
    /\ store[s] # Wild
    /\ Ends(s, "exited")

\* The portal waits for all its children before it closes its socket.
PortalExit ==
    /\ pc[Portal] = "stop"
    /\ \A s \in Services : pc[s] \in Ended
    /\ Ends(Portal, "exited")

-----------------------------------------------------------------------------
(* Signals and deaths *)

Running(p) == pc[p] \notin Ended

\* Wrong: a call to a service that was interrupted is made again.
InterruptedRetries(p) ==
    CASE pc[p] = "accept" /\ backlog[p] = <<>> -> {"loop"}
      [] pc[p] = "recv" /\ up[cur[p]] = None /\ callerEnd[cur[p]] = "open" -> {"spin"}
      [] pc[p] = "await" /\ Alive(Target(p)) -> {"connect"}
      [] OTHER -> {}

\* Where a process blocked in a system call goes when a signal handler runs.
\* accept() returns EINTR and so does server_handle_request().  recv() is
\* called again, but a call that succeeds leaves errno as it is: the loop in
\* _socket_read() is only left by a call that fails for another reason.
Interrupted(p) ==
    CASE pc[p] = "accept" /\ backlog[p] = <<>> -> {"loop"}
      [] pc[p] = "recv" /\ up[cur[p]] = None /\ callerEnd[cur[p]] = "open" -> {"spin"}
      [] pc[p] = "await" /\ Alive(Target(p)) -> {"await_spin"}
      [] OTHER -> {}

\* SIGINT runs sigint_handler(), once: with -std=c99 signal() installs a
\* handler that is removed when it runs and does not restart system calls.
\* The signal may also come just before the process enters the call.
SigintCaught(p) ==
    /\ Fault("sigint", p)
    /\ Running(p)
    /\ armed[p]
    /\ flag' = [flag EXCEPT ![p] = TRUE]
    /\ armed' = [armed EXCEPT ![p] = FALSE]
    /\ \E label \in {pc[p]} \cup Interrupted(p) : Goto(p, label)
    /\ UNCHANGED <<cur, request, resp, netVars, dataVars, clientVars, history>>

\* The next SIGINT has its default effect.
SigintKills(p) ==
    /\ Fault("sigint", p)
    /\ Running(p)
    /\ ~armed[p]
    /\ Ends(p, "dead")

\* A server process dies at any point.
Crash(p) ==
    /\ Fault("crash", p)
    /\ Running(p)
    /\ Ends(p, "dead")

\* So does a client; the requests it has sent stay readable.
ClientCrash(c) ==
    /\ Fault("crash", c)
    /\ pc[c] \in {"connect", "send", "await"}
    /\ Goto(c, "dead")
    /\ callerEnd' = [callerEnd EXCEPT ![c] = IF @ = "open" THEN "closed" ELSE @]
    /\ UNCHANGED <<flag, armed, cur, request, resp, backlog, serverEnd, up, down,
                   dataVars, clientVars, history>>

-----------------------------------------------------------------------------
(* The program *)

Call(k) ==
    \/ Connect(k) \/ ConnectFails(k)
    \/ Send(k) \/ SendFails(k)
    \/ Receive(k)

Serve(p) ==
    \/ Boot(p) \/ LoopCheck(p) \/ Accept(p)
    \/ ReadRequest(p) \/ DropConnection(p) \/ Reply(p)

PortalStep ==
    \/ \E s \in Services : Fork(s)
    \/ Serve(Portal) \/ Call(Portal)
    \/ SpinEnds \/ PortalExit

ServiceStep(s) ==
    \/ Serve(s) \/ ServiceLoad(s) \/ MicroHandle(s) \/ WildCrash(s)
    \/ SaveOpen(s) \/ SaveWrite(s) \/ ServiceExit(s)

Environment ==
    \/ \E p \in Servers : \/ BindFails(p) \/ AcceptFails(p)
                          \/ SigintCaught(p) \/ SigintKills(p) \/ Crash(p)
    \/ \E s \in Services : ForkFails(s)
    \/ \E c \in Clients : ClientCrash(c)

\* All clients have ended and each server waits for one that never comes.
ClientsEnded == \A c \in Clients : pc[c] \in {"done", "dead"}

Idle == ClientsEnded /\ UNCHANGED vars

Next ==
    \/ PortalStep
    \/ \E s \in Services : ServiceStep(s)
    \/ \E c \in Clients : Call(c)
    \/ Environment
    \/ Idle

Spec == Init /\ [][Next]_vars

\* The scheduler runs every process that can run.  Nothing is assumed of the
\* environment.
Fairness ==
    /\ WF_vars(PortalStep)
    /\ \A s \in Services : WF_vars(ServiceStep(s))
    /\ \A c \in Clients : WF_vars(Call(c))

FairSpec == Spec /\ Fairness

-----------------------------------------------------------------------------
(* Safety *)

\* A client reports nothing but the answer a service computed for its own
\* request, or the untouched response_t of a portal that got none: never what
\* was computed for another client, or for a connection of the same name that
\* was closed before.  (_on_request(), client_send())
AnswerIntegrity ==
    \A c \in Clients : outcome[c] \in Response => outcome[c] \in {answer[c], ZeroResponse}

\* A request is executed once at most, and not any more once its client has
\* reported a response, whatever portal and service go through in between.
\* (client_send() never retries, _on_request() handles one request.)
ExecutesOnceInTime ==
    [][\A c \in Clients : execs'[c] # execs[c] =>
            /\ execs[c] = 0
            /\ execs'[c] = 1
            /\ outcome[c] \notin Response]_vars

\* Nobody waits on a connection that is lost: one that is up is either in the
\* queue of a socket that some process still holds, or in the hands of a running
\* server, which handles it now.
\* (server_handle_request() closes on every path; the sockets of the children)
ConnectionsAreHeld ==
    \A x \in Conns :
        /\ serverEnd[x] = "queued" => x \in Queued(ListenerOf(x)) /\ Listening(ListenerOf(x))
        /\ serverEnd[x] = "open" => cur[ListenerOf(x)] = x /\ Running(ListenerOf(x))

\* What a POST may change of a document: the entry it names, there only the
\* numbers it carries a valid value for, and of these not the JSON kind.
OnlyAsked(old, new, r) ==
    LET changed(was, is, n) == is # was => VALID(n) /\ is.kind = was.kind IN
    /\ DOMAIN new = DOMAIN old
    /\ r.key \in DOMAIN old
    /\ \A key \in DOMAIN old \ {r.key} : new[key] = old[key]
    /\ IF r.type = "post_weather"
       THEN \A f \in {"humidity", "pressure", "temperature"} :
                changed(old[r.key][f], new[r.key][f], r[f])
       ELSE changed(old[r.key], new[r.key], r.value)

\* Once loaded, a document changes only in the step that executes a POST, which
\* is answered Success there and then, and was never answered before; and only
\* where that POST says so.  Its client may have given up or died by then.
\* (_set_city_weather(), _set_currency_exchange())
UpdatesAreConfined ==
    [][\A s \in Services : store'[s] # store[s] /\ pc[s] # "load" =>
          \E c \in Clients :
             /\ IsPost(req[c])
             /\ get_base_request(req[c].type) = s
             /\ answer[c] = None /\ answer'[c] = Result("Success")
             /\ OnlyAsked(store[s], store'[s], req[c])]_vars

\* A service that ran and ended in order left its last document on disk, with
\* every POST it ever acknowledged, unless the disk failed.
\* (_finish_weather_service(), _finish_currency_service())
ExitIsSaved ==
    \A s \in Services :
        pc[s] = "exited" /\ store[s] # NullJson /\ ~Fault("disk", s) => file[s] = store[s]

\* The numbers that a POST gives for its entry, and what a document has there.
Given(r) ==
    {f \in IF r.type = "post_weather" THEN {"humidity", "pressure", "temperature"}
           ELSE {"value"} : VALID(r[f])}

Number(json, r, f) == IF r.type = "post_weather" THEN json[r.key][f] ELSE json[r.key]

SameEntry(r1, r2) == r1.type = r2.type /\ r1.key = r2.key

\* The document has for number f what POST r gives.  A humidity is cut to an
\* integer.  A number of the other JSON kind is never set (see PostUpdates) and
\* nothing is asked of it but to be there.
Stands(json, r, f) ==
    LET kind == IF f = "humidity" THEN "int" ELSE "real"
        num  == IF f = "humidity" THEN truncate(r[f]) ELSE r[f]
    IN /\ has_member(json, r.key)
       /\ Number(json, r, f).kind = kind => Number(json, r, f).num = num

\* The document that counts: that of the service, and when it has ended in order
\* its file, unless the disk failed.
Current(s) == IF pc[s] = "exited" /\ ~Fault("disk", s) THEN file[s] ELSE store[s]

\* A POST that a service has executed with Success is Overridden in the step
\* that executes another one with Success, for the same number of that entry.
Overridden(c, f) ==
    \E d \in Clients \ {c} :
        /\ answer[d] = None /\ answer'[d] = Result("Success")
        /\ SameEntry(req[c], req[d]) /\ f \in Given(req[d])

\* From the step that answers a POST with Success each number that it gives is
\* in the document, and afterwards in the file, until the step that executes
\* another POST for that number; no other step takes it away, be it one that
\* executes a request, saves or ends.
\* (_micro_handle_request(), json_dump_file() in _finish_*_service())
AcknowledgedIsKept ==
    [][\A c \in Clients, s \in Services :
          get_base_request(req[c].type) = s /\ answer'[c] = Result("Success") =>
             \A f \in Given(req[c]) :
                \/ Stands(Current(s)', req[c], f)
                \/ Overridden(c, f)
                \/ answer[c] = Result("Success") /\ ~Stands(Current(s), req[c], f)]_vars

\* The processes and sockets implement one atomic store: see AtomicPortal.
Atomic == INSTANCE AtomicPortal WITH db <- store

ImplementsAtomic == Atomic!Spec

-----------------------------------------------------------------------------
(* The inductive invariant behind TypeOK, AnswerIntegrity and               *)
(* ExecutesOnceInTime: it follows a request from its client through the      *)
(* portal to a service, and the answer on its way back.                      *)

\* A server in the middle of a connection knows which, and, once it has read
\* the request, whose.
ControlInv ==
    \A p \in Servers :
        /\ pc[p] \in {"recv", "handle", "connect", "send", "await", "await_spin", "reply", "spin"}
              => cur[p] \in ConnsOf(p)
        /\ pc[p] \in {"handle", "connect", "send", "await", "await_spin", "reply"}
              => request[p] \in Clients

Sent(c) == pc[c] \in {"await", "done", "dead"}

\* The portal has read the request it holds and has not replied yet.
PortalBusy == pc[Portal] \in {"connect", "send", "await", "await_spin", "reply"}

\* It has a connection to a service.
PortalCalling == pc[Portal] \in {"send", "await", "await_spin"}

PortalAwaits(c) == pc[Portal] \in {"await", "await_spin"} /\ request[Portal] = c

PortalEnded == pc[Portal] \in Ended

\* Service s is in the middle of a connection.
ServiceBusy(s) == pc[s] \in {"recv", "handle", "reply", "spin"}

\* Service s holds the request of c and has not executed it yet.
Live(s, c) ==
    /\ pc[s] \notin Ended
    /\ up[s] = c \/ (pc[s] = "handle" /\ request[s] = c)

\* No trace of an execution of the request of c has come back yet.
Fresh(c) == execs[c] = 0 /\ down[c] = None /\ outcome[c] \notin Response

\* A request that the portal has not read is only in the socket of its client.
UnreadInv ==
    \A c \in Clients :
        /\ up[c] \in {c, None}
        /\ ~Sent(c) => up[c] = None /\ Fresh(c)
        /\ up[c] = c => Fresh(c) /\ Encodable(req[c])

\* The portal handles the request of its current connection.
BusyInv ==
    PortalBusy =>
        LET c == request[Portal] IN
        /\ cur[Portal] = c
        /\ Sent(c) /\ up[c] = None /\ Encodable(req[c])
        /\ pc[Portal] \in {"connect", "send"} => Fresh(c)
        /\ pc[Portal] # "reply" => resp[Portal] = ZeroResponse /\ down[c] = None
        /\ resp[Portal] \in {answer[c], ZeroResponse}

\* It calls one service at a time and leaves a call when the service has.
CallInv ==
    \A s \in Services :
        /\ Alive(s) => /\ PortalEnded \/ (PortalCalling /\ Target(Portal) = s)
                       /\ down[s] = None
        /\ backlog[s] # <<>> => backlog[s] = <<s>> /\ serverEnd[s] = "queued"
        /\ ServiceBusy(s) => serverEnd[s] = "open"
        /\ cur[s] = s => ServiceBusy(s)

\* A service answers the request that the portal waits for.
ServeInv ==
    \A s \in Services :
        /\ pc[s] \in {"handle", "reply"} =>
              /\ up[s] = None
              /\ get_base_request(req[request[s]].type) = s
              /\ PortalEnded \/ PortalAwaits(request[s])
        /\ pc[s] = "reply" => resp[s] = answer[request[s]]

\* A request that a service holds has had no effect yet and is held once.
LiveInv ==
    \A s \in Services, c \in Clients : Live(s, c) =>
        /\ Sent(c) /\ up[c] = None /\ Fresh(c)
        /\ get_base_request(req[c].type) = s
        /\ Alive(s)
        /\ PortalEnded \/ PortalAwaits(c)

\* Nothing has been sent to a service before it is forked.
StartInv ==
    pc[Portal] \in {"boot", "fork_weather", "fork_currency"} =>
        \A s \in Services : up[s] = None

\* What travels back is the answer to the request, or the zero response.
AnswerInv ==
    /\ \A c \in Clients : down[c] \in {None, answer[c], ZeroResponse}
    /\ PortalCalling => down[Target(Portal)] \in {None, answer[request[Portal]]}

FlowInv ==
    /\ UnreadInv /\ BusyInv /\ CallInv /\ ServeInv /\ LiveInv /\ StartInv
    /\ AnswerInv /\ AnswerIntegrity

IInv == TypeOK /\ ControlInv /\ FlowInv

-----------------------------------------------------------------------------
(* The inductive form of ConnectionsAreHeld                                 *)

\* A server is between accept() and close().
Handling(p) ==
    pc[p] \in {"recv", "handle", "connect", "send", "await", "await_spin", "reply", "spin"}

QueueInv ==
    \A p \in Servers :
        /\ backlog[p] # <<>> => Listening(p)
        /\ \A i, j \in 1 .. Len(backlog[p]) : backlog[p][i] = backlog[p][j] => i = j
        /\ cur[p] # None => Handling(p)

\* Each end of a connection is where the kernel says, and a client connects once.
EndsInv ==
    /\ \A x \in Conns :
          /\ serverEnd[x] = "queued" <=> x \in Queued(ListenerOf(x))
          /\ serverEnd[x] = "open" <=> cur[ListenerOf(x)] = x
    /\ \A c \in Clients : pc[c] = "connect" => serverEnd[c] = "none"

ConnInv == QueueInv /\ EndsInv

-----------------------------------------------------------------------------
(* What ExitIsSaved, AcknowledgedIsKept and ImplementsAtomic need besides   *)

\* The portal forks each service once.
ForkInv ==
    \A s \in Services :
        pc[Portal] \in {"boot", "fork_weather", ForkLabel(s)} => pc[s] = "unborn"

\* A service has no document before it loads one, and once it is past saving
\* the document is on disk.
SaveInv ==
    \A s \in Services :
        /\ pc[s] \in {"unborn", "boot", "load"} => store[s] = NullJson
        /\ pc[s] \in {"stop", "exited"} /\ store[s] # NullJson /\ ~Fault("disk", s)
              => file[s] = store[s]

\* A client has an answer only once its service has loaded and has executed its
\* request, and an outcome only when it ends.
TraceInv ==
    /\ \A s \in Services : pc[s] \in {"unborn", "boot", "load"} =>
          \A c \in Clients : get_base_request(req[c].type) = s => answer[c] = None
    /\ \A c \in Clients :
          /\ execs[c] = 0 => answer[c] = None
          /\ pc[c] \in {"connect", "send", "await"} => outcome[c] = None

\* Success was said to a POST, by a service that had its document.
KeptInv ==
    \A c \in Clients : answer[c] = Result("Success") =>
        IsPost(req[c]) /\ has_member(store[get_base_request(req[c].type)], req[c].key)

StoreInv == ForkInv /\ SaveInv /\ TraceInv /\ KeptInv

-----------------------------------------------------------------------------
(* Liveness *)

\* As long as nothing happens to the portal every client ends, whatever
\* happens to the services.
ClientsFinish == <>ClientsEnded

\* In accept() with no connection: a flag set now is only seen after the next
\* connection, the signal came between the test of the flag and the call.
Asleep(p) == pc[p] = "accept" /\ backlog[p] = <<>>

\* In _socket_read() for good, or waiting for a service that is.
Stuck(p) ==
    \/ pc[p] \in {"spin", "await_spin"}
    \/ p = Portal /\ pc[p] = "await" /\ pc[Target(p)] = "spin"

\* A server told to finish ends (the portal: stops serving and waits for its
\* children), unless the signal found it asleep or it is stuck in a read.
ShutdownCompletes ==
    \A p \in Servers :
        flag[p] /\ ~Asleep(p) ~>
            \/ pc[p] \in Ended
            \/ p = Portal /\ pc[p] = "stop"
            \/ Stuck(p)

-----------------------------------------------------------------------------
(* What the sources say of the program, and the code does not do *)

\* server.h:22-24: the callback fills resp "with the corresponding data", which
\* is "serialized and sent to client".
RespIsFilled ==
    \A c \in Clients : outcome[c] \in Response => outcome[c] = answer[c]

\* main.c:21: sigint_handler "signals the main loop to exit".
SignalExitsLoop ==
    \A p \in Servers : flag[p] ~> pc[p] \in Ended \cup {"finish", "save", "stop"}

\* microservices.c:168: _set_currency_exchange() "Updates the currency context
\* with new valid values in a request".
PostUpdates ==
    [][\A c \in Clients :
          /\ req[c].type = "post_currency"
          /\ VALID(req[c].value)
          /\ answer[c] = None
          /\ answer'[c] = Result("Success")
          => store'["currency"][req[c].key].num = req[c].value]_vars

\* microservices.c:293: "If flag is true, weather state is saved to file", with
\* "bool to save state" as the parameter (lines 34-38).
SavesOnlyIfTold == [][\A s \in Services : file'[s] # file[s] => flag[s]]_vars
=============================================================================
