-------------------------- MODULE NewsPortalProofs --------------------------
(***************************************************************************)
(* Theorems about NewsPortal for every set of clients, requests, documents *)
(* and faults, and every length of the listening queues.                   *)
(***************************************************************************)
EXTENDS NewsPortal, TLAPS

-----------------------------------------------------------------------------
(* The microservices on one request *)

LEMMA TruncateType == \A n \in Int : truncate(n) \in Int
BY DEF truncate

LEMMA SetterType ==
    ASSUME NEW j \in Json, NEW n \in Int
    PROVE  json_integer_set(j, n) \in Json /\ json_real_set(j, n) \in Json
BY TruncateType DEF Json, json_integer_set, json_real_set

LEMMA GetterType ==
    ASSUME NEW j \in Json
    PROVE  json_integer_value(j) \in Int /\ json_real_value(j) \in Int
BY DEF Json, json_integer_value, json_real_value

LEMMA ResponseTypes ==
    /\ ZeroResponse \in Response
    /\ \A text \in {"Success", "Failed", "Not found"} : Result(text) \in Response
BY DEF ZeroResponse, Response, WeatherResponse, ResultResponse, Result

LEMMA WeatherType ==
    ASSUME NEW json \in WeatherJson \cup {NullJson},
           NEW r \in Request, get_base_request(r.type) = "weather"
    PROVE  /\ handle_weather(json, r).json \in WeatherJson \cup {NullJson}
           /\ handle_weather(json, r).resp \in Response
<1>1. CASE r.type = "post_weather"
  <2>1. r \in PostWeatherRequest
    BY <1>1 DEF Request, GetRequest, PostCurrencyRequest
  <2>2. CASE has_member(json, r.key)
    <3>1. json \in WeatherJson /\ r.key \in Cities
      BY <2>2 DEF has_member, WeatherJson
    <3>2. json[r.key] \in City
      BY <3>1 DEF WeatherJson
    <3>3. set_city_weather(json, r) \in WeatherJson
      BY <2>1, <3>1, <3>2, SetterType
      DEF set_city_weather, WeatherJson, City, PostWeatherRequest
    <3> QED BY <1>1, <2>2, <3>3, ResponseTypes DEF handle_weather
  <2> QED BY <1>1, <2>2, ResponseTypes DEF handle_weather
<1>2. CASE r.type # "post_weather"
  <2>1. CASE has_member(json, r.key)
    <3>1. json \in WeatherJson /\ r.key \in Cities
      BY <2>1 DEF has_member, WeatherJson
    <3>2. json[r.key] \in City
      BY <3>1 DEF WeatherJson
    <3>3. get_city_weather(json, r.key) \in Response
      BY <3>2, GetterType DEF get_city_weather, City, Response, WeatherResponse
    <3> QED BY <1>2, <2>1, <3>3 DEF handle_weather
  <2> QED BY <1>2, <2>1, ResponseTypes DEF handle_weather
<1> QED BY <1>1, <1>2

LEMMA CurrencyType ==
    ASSUME NEW json \in CurrencyJson \cup {NullJson},
           NEW r \in Request, get_base_request(r.type) = "currency"
    PROVE  /\ handle_currency(json, r).json \in CurrencyJson \cup {NullJson}
           /\ handle_currency(json, r).resp \in Response
<1>1. CASE r.type = "post_currency"
  <2>1. r \in PostCurrencyRequest
    BY <1>1 DEF Request, GetRequest, PostWeatherRequest
  <2>2. CASE has_member(json, r.key)
    <3>1. json \in CurrencyJson /\ r.key \in Coins
      BY <2>2 DEF has_member, CurrencyJson
    <3>2. set_currency_exchange(json, r) \in CurrencyJson
      BY <2>1, <3>1, SetterType
      DEF set_currency_exchange, CurrencyJson, PostCurrencyRequest
    <3> QED BY <1>1, <2>2, <3>2, ResponseTypes DEF handle_currency
  <2> QED BY <1>1, <2>2, ResponseTypes DEF handle_currency
<1>2. CASE r.type # "post_currency"
  <2>1. CASE has_member(json, r.key)
    <3>1. json[r.key] \in Json
      BY <2>1 DEF has_member, CurrencyJson
    <3>2. get_currency_exchange(json, r.key) \in Response
      BY <3>1, GetterType DEF get_currency_exchange, Response, CurrencyResponse
    <3> QED BY <1>2, <2>1, <3>2 DEF handle_currency
  <2> QED BY <1>2, <2>1, ResponseTypes DEF handle_currency
<1> QED BY <1>1, <1>2

\* A request leaves a service with a document of the same shape and yields a
\* response, whatever service it is.
LEMMA MicroType ==
    ASSUME NEW s \in Services, NEW json \in Document(s) \cup {NullJson},
           NEW r \in Request
    PROVE  /\ micro_handle_request(s, json, r).json \in Document(s) \cup {NullJson}
           /\ micro_handle_request(s, json, r).resp \in Response
<1>1. CASE get_base_request(r.type) # s
  BY <1>1, ResponseTypes DEF micro_handle_request
<1>2. CASE get_base_request(r.type) = s /\ s = "weather"
  BY <1>2, WeatherType DEF micro_handle_request, Document
<1>3. CASE get_base_request(r.type) = s /\ s = "currency"
  BY <1>3, CurrencyType DEF micro_handle_request, Document
<1> QED BY <1>1, <1>2, <1>3 DEF Services

-----------------------------------------------------------------------------
(* Types and control *)

TypeInv == TypeOK /\ ControlInv

\* The names of the processes are told apart.
LEMMA ProcFacts ==
    /\ Portal \in Servers /\ Portal \notin Clients /\ Portal \notin Services
    /\ Services \subseteq Servers
    /\ Servers \subseteq Procs /\ Clients \subseteq Procs
    /\ Clients \subseteq Conns /\ Services \subseteq Conns
    /\ \A c \in Clients : c \notin Servers
    /\ \A p \in Servers : ConnsOf(p) \subseteq Conns
    /\ \A r \in Requests : r \in Request /\ get_base_request(r.type) \in Services
BY PortalAssumption
DEF Portal, Servers, Procs, Conns, Services, ConnsOf, get_base_request,
    Request, GetRequest, PostWeatherRequest, PostCurrencyRequest

\* The labels that an action can lead to are labels of its process.
LEMMA PcFacts ==
    /\ {"send", "await", "done", "dead"} \subseteq ClientPc
    /\ {"boot", "load", "loop", "accept", "recv", "handle", "reply", "spin",
        "finish", "save", "stop", "exited", "dead"} \subseteq ServicePc
    /\ {"fork_weather", "fork_currency", "loop", "accept", "recv", "connect", "send",
        "await", "await_spin", "reply", "spin", "stop", "exited", "dead"} \subseteq PortalPc
BY DEF ClientPc, ServicePc, PortalPc, Down, LoopPc

LEMMA InitType == Init => TypeInv
<1> SUFFICES ASSUME Init PROVE TypeInv
  OBVIOUS
<1>1. /\ \A c \in Clients : pc[c] = "connect"
      /\ pc[Portal] = "boot"
      /\ \A s \in Services : pc[s] = "unborn"
      /\ pc \in [Procs -> {"connect", "boot", "unborn"}]
  BY ProcFacts DEF Init, Procs, Servers
<1>2. ProcType
  BY <1>1, ProcFacts, ResponseTypes DEF Init, ProcType, ClientPc, ServicePc, PortalPc, Down
<1>3. NetType
  BY DEF Init, NetType
<1>4. DataType
  <2>1. \A s \in Services : Document(s) \subseteq WeatherJson \cup CurrencyJson
    BY DEF Document
  <2>2. \A s \in Services : file[s] \in {Files[s], Unreadable}
    BY DEF Init
  <2>3. DOMAIN file = Services /\ file = [s \in Services |-> file[s]]
    BY DEF Init
  <2> QED BY <2>1, <2>2, <2>3, PortalAssumption DEF Init, DataType
<1>5. ClientType
  BY DEF Init, ClientType
<1>6. ControlInv
  BY <1>1, ProcFacts DEF ControlInv, Servers
<1> QED BY <1>2, <1>3, <1>4, <1>5, <1>6 DEF TypeInv, TypeOK

LEMMA EndsType ==
    ASSUME TypeInv, NEW p \in Servers, NEW last \in {"exited", "dead"}, Ends(p, last)
    PROVE  TypeInv'
<1>1. ProcType'
  BY ProcFacts, PcFacts, ResponseTypes DEF TypeInv, TypeOK, ProcType, Ends, Servers, Procs
<1>2. NetType'
  BY ProcFacts DEF TypeInv, TypeOK, NetType, Ends
<1>3. DataType' /\ ClientType'
  BY DEF TypeInv, TypeOK, DataType, ClientType, Ends, dataVars, clientVars, history
<1>4. ControlInv'
  BY ProcFacts DEF TypeInv, TypeOK, ProcType, ControlInv, Ends
<1> QED BY <1>1, <1>2, <1>3, <1>4 DEF TypeInv, TypeOK

\* An action that leaves a group of variables alone keeps its type.
LEMMA Untouched ==
    ASSUME TypeInv
    PROVE  /\ UNCHANGED procVars => ProcType' /\ ControlInv'
           /\ UNCHANGED netVars => NetType'
           /\ UNCHANGED dataVars => DataType'
           /\ UNCHANGED <<clientVars, history>> => ClientType'
BY DEF TypeInv, TypeOK, ProcType, NetType, DataType, ClientType, ControlInv,
       procVars, netVars, dataVars, clientVars, history

\* A step of the callback or of the file of service s keeps the documents.
LEMMA DataStep ==
    ASSUME TypeInv, NEW s \in Services,
           \/ UNCHANGED store
           \/ \E json \in Document(s) \cup {NullJson, Wild} : store' = [store EXCEPT ![s] = json],
           \/ UNCHANGED file
           \/ \E json \in Document(s) \cup {Unreadable} : file' = [file EXCEPT ![s] = json]
    PROVE  DataType'
<1>1. Document(s) \subseteq WeatherJson \cup CurrencyJson
  BY DEF Document
<1>2. /\ store' \in [Services -> WeatherJson \cup CurrencyJson \cup {NullJson, Wild}]
      /\ \A q \in Services : store'[q] \in Document(q) \cup {NullJson, Wild}
  BY <1>1 DEF TypeInv, TypeOK, DataType
<1>3. /\ file' \in [Services -> WeatherJson \cup CurrencyJson \cup {Unreadable}]
      /\ \A q \in Services : file'[q] \in Document(q) \cup {Unreadable}
  BY <1>1 DEF TypeInv, TypeOK, DataType
<1> QED BY <1>2, <1>3 DEF DataType

LEMMA ForkType == ASSUME TypeInv, NEW s \in Services, Fork(s) PROVE TypeInv'
<1>1. ProcType'
  BY ProcFacts, PcFacts DEF Fork, TypeInv, TypeOK, ProcType
<1>2. ControlInv'
  BY ProcFacts DEF Fork, TypeInv, TypeOK, ProcType, ControlInv
<1> QED BY <1>1, <1>2, Untouched DEF Fork, TypeInv, TypeOK, clientVars, history

LEMMA LoadType == ASSUME TypeInv, NEW s \in Services, ServiceLoad(s) PROVE TypeInv'
<1>1. ProcType' /\ ControlInv'
  BY ProcFacts, PcFacts DEF ServiceLoad, Goto, TypeInv, TypeOK, ProcType, ControlInv
<1>2. DataType'
  BY DataStep DEF ServiceLoad, TypeInv, TypeOK, DataType
<1> QED BY <1>1, <1>2, Untouched DEF ServiceLoad, TypeInv, TypeOK, clientVars, history

LEMMA ReadRequestType == ASSUME TypeInv, NEW p \in Servers, ReadRequest(p) PROVE TypeInv'
<1>1. cur[p] \in ConnsOf(p) /\ up[cur[p]] \in Clients
  BY ProcFacts DEF ReadRequest, TypeInv, TypeOK, NetType, ControlInv
<1>2. ProcType'
  BY <1>1, ProcFacts, PcFacts, ResponseTypes
  DEF ReadRequest, Goto, TypeInv, TypeOK, ProcType, Servers
<1>3. ControlInv'
  BY <1>1, ProcFacts DEF ReadRequest, Goto, TypeInv, TypeOK, ProcType, ControlInv
<1>4. NetType'
  BY DEF ReadRequest, TypeInv, TypeOK, NetType
<1> QED BY <1>2, <1>3, <1>4, Untouched DEF ReadRequest, TypeInv, TypeOK, clientVars, history

LEMMA MicroHandleType == ASSUME TypeInv, NEW s \in Services, MicroHandle(s) PROVE TypeInv'
<1> DEFINE c == request[s]
           result == micro_handle_request(s, store[s], req[c])
<1>1. c \in Clients /\ req[c] \in Request
  BY ProcFacts DEF MicroHandle, TypeInv, TypeOK, ClientType, ControlInv
<1>2. result.json \in Document(s) \cup {NullJson} /\ result.resp \in Response
  BY <1>1, MicroType DEF MicroHandle, TypeInv, TypeOK, DataType
<1>3. ProcType' /\ ControlInv'
  BY <1>2, ProcFacts, PcFacts DEF MicroHandle, Goto, TypeInv, TypeOK, ProcType, ControlInv
<1>4. DataType'
  BY <1>2, DataStep DEF MicroHandle
<1>5. ClientType'
  BY <1>1, <1>2 DEF MicroHandle, TypeInv, TypeOK, ClientType, clientVars
<1> QED BY <1>3, <1>4, <1>5, Untouched DEF MicroHandle, TypeInv, TypeOK

LEMMA SaveType ==
    ASSUME TypeInv, NEW s \in Services, SaveOpen(s) \/ SaveWrite(s) PROVE TypeInv'
<1>1. ProcType' /\ ControlInv'
  BY ProcFacts, PcFacts DEF SaveOpen, SaveWrite, Goto, TypeInv, TypeOK, ProcType, ControlInv
<1>2. DataType'
  BY DataStep DEF SaveOpen, SaveWrite, TypeInv, TypeOK, DataType
<1> QED BY <1>1, <1>2, Untouched DEF SaveOpen, SaveWrite, TypeInv, TypeOK, clientVars, history

LEMMA SigintType == ASSUME TypeInv, NEW p \in Servers, SigintCaught(p) PROVE TypeInv'
<1>1. PICK label \in {pc[p]} \cup Interrupted(p) : pc' = [pc EXCEPT ![p] = label]
  BY DEF SigintCaught, Goto
<1>2. \/ label = pc[p]
      \/ pc[p] = "accept" /\ label = "loop"
      \/ pc[p] = "recv" /\ label = "spin"
      \/ pc[p] = "await" /\ label = "await_spin"
  BY <1>1 DEF Interrupted
<1>3. ProcType'
  BY <1>1, <1>2, ProcFacts, PcFacts
  DEF SigintCaught, TypeInv, TypeOK, ProcType, Servers, ServicePc, Down, LoopPc
<1>4. ControlInv'
  BY <1>1, <1>2, ProcFacts DEF SigintCaught, TypeInv, TypeOK, ProcType, ControlInv
<1> QED BY <1>3, <1>4, Untouched DEF SigintCaught, TypeInv, TypeOK, clientVars, history

\* The connection and the request of a caller are what they should be.
LEMMA CallerFacts ==
    ASSUME TypeInv, NEW k \in Callers, pc[k] \in {"connect", "send", "await", "await_spin"}
    PROVE  /\ k \in Procs
           /\ Origin(k) \in Clients
           /\ Target(k) \in Conns
           /\ ListenerOf(Target(k)) \in Servers
           /\ Target(k) \in ConnsOf(ListenerOf(Target(k)))
           /\ Target(k) = IF k \in Clients THEN k ELSE get_base_request(req[request[k]].type)
           /\ k = Portal => request[k] \in Clients /\ Target(k) \in Services
<1>1. CASE k \in Clients
  BY <1>1, ProcFacts DEF Origin, Target, ListenerOf, ConnsOf
<1>2. CASE k = Portal
  <2>1. request[Portal] \in Clients
    BY <1>2, ProcFacts DEF TypeInv, ControlInv
  <2>2. get_base_request(req[request[Portal]].type) \in Services
    BY <2>1, ProcFacts DEF TypeInv, TypeOK, ClientType
  <2>3. \A s \in Services : s \notin Clients
    BY ProcFacts
  <2> QED BY <1>2, <2>1, <2>2, <2>3, ProcFacts DEF Origin, Target, ListenerOf, ConnsOf
<1> QED BY <1>1, <1>2 DEF Callers

LEMMA CallEndsType ==
    ASSUME TypeInv, NEW k \in Callers, pc[k] \in {"connect", "send", "await", "await_spin"},
           NEW r \in Response \cup {None}, CallEnds(k, r),
           UNCHANGED <<flag, armed, cur, request, dataVars, req, history>>
    PROVE  ProcType' /\ ControlInv' /\ DataType' /\ ClientType'
<1>1. CASE k \in Clients
  <2>1. ProcType' /\ ControlInv'
    BY <1>1, ProcFacts, PcFacts DEF CallEnds, Goto, TypeInv, TypeOK, ProcType, ControlInv
  <2>2. ClientType'
    BY <1>1 DEF CallEnds, TypeInv, TypeOK, ClientType, history
  <2> QED BY <2>1, <2>2, Untouched
<1>2. CASE k = Portal
  <2>1. ProcType' /\ ControlInv'
    BY <1>2, ProcFacts, PcFacts DEF CallEnds, Goto, TypeInv, TypeOK, ProcType, ControlInv
  <2>2. ClientType'
    BY <1>2, ProcFacts DEF CallEnds, TypeInv, TypeOK, ClientType, history
  <2> QED BY <2>1, <2>2, Untouched
<1> QED BY <1>1, <1>2 DEF Callers

LEMMA CallType == ASSUME TypeInv, NEW k \in Callers, Call(k) PROVE TypeInv'
<1>1. CASE Connect(k)
  <2>1. pc[k] = "connect"
    BY <1>1 DEF Connect
  <2>2. ProcType' /\ ControlInv'
    BY <1>1, <2>1, CallerFacts, ProcFacts, PcFacts
    DEF Connect, Goto, TypeInv, TypeOK, ProcType, ControlInv, Callers
  <2>3. NetType'
    BY <1>1, <2>1, CallerFacts, ProcFacts DEF Connect, TypeInv, TypeOK, NetType
  <2> QED BY <1>1, <2>2, <2>3, Untouched DEF Connect, TypeInv, TypeOK
<1>2. CASE ConnectFails(k)
  BY <1>2, CallEndsType, Untouched DEF ConnectFails, TypeInv, TypeOK
<1>3. CASE Send(k)
  <2>1. pc[k] = "send"
    BY <1>3 DEF Send
  <2>2. ProcType' /\ ControlInv'
    BY <1>3, <2>1, CallerFacts, ProcFacts, PcFacts
    DEF Send, Goto, TypeInv, TypeOK, ProcType, ControlInv, Callers
  <2>3. NetType'
    BY <1>3, <2>1, CallerFacts DEF Send, TypeInv, TypeOK, NetType
  <2> QED BY <1>3, <2>2, <2>3, Untouched DEF Send, TypeInv, TypeOK
<1>4. CASE SendFails(k)
  <2>1. NetType'
    BY <1>4 DEF SendFails, CloseCaller, TypeInv, TypeOK, NetType
  <2> QED BY <1>4, <2>1, CallEndsType DEF SendFails, TypeInv, TypeOK
<1>5. CASE Receive(k)
  <2>1. pc[k] = "await"
    BY <1>5 DEF Receive
  <2>2. down[Target(k)] \in Response \cup {None}
    BY <2>1, CallerFacts DEF TypeInv, TypeOK, NetType
  <2>3. NetType'
    BY <1>5 DEF Receive, CloseCaller, TypeInv, TypeOK, NetType
  <2> QED BY <1>5, <2>1, <2>2, <2>3, CallEndsType DEF Receive, TypeInv, TypeOK
<1> QED BY <1>1, <1>2, <1>3, <1>4, <1>5 DEF Call

LEMMA SpinEndsType == ASSUME TypeInv, SpinEnds PROVE TypeInv'
<1>1. NetType'
  BY DEF SpinEnds, CloseCaller, TypeInv, TypeOK, NetType
<1> QED BY <1>1, CallEndsType DEF SpinEnds, Callers, TypeInv, TypeOK

LEMMA LoopType ==
    ASSUME TypeInv, NEW p \in Servers,
           \/ Boot(p) \/ LoopCheck(p) \/ Accept(p) \/ AcceptFails(p)
           \/ DropConnection(p) \/ Reply(p)
    PROVE  TypeInv'
<1>1. CASE Boot(p) \/ LoopCheck(p) \/ AcceptFails(p)
  <2>1. ProcType' /\ ControlInv'
    BY <1>1, ProcFacts, PcFacts
    DEF Boot, LoopCheck, AcceptFails, Goto, TypeInv, TypeOK, ProcType, ControlInv, Servers
  <2> QED
    BY <1>1, <2>1, Untouched
    DEF Boot, LoopCheck, AcceptFails, TypeInv, TypeOK, clientVars, history
<1>2. CASE Accept(p)
  <2>1. Head(backlog[p]) \in ConnsOf(p) /\ Tail(backlog[p]) \in Seq(ConnsOf(p))
    BY <1>2 DEF Accept, TypeInv, TypeOK, NetType
  <2>2. ProcType' /\ ControlInv'
    BY <1>2, <2>1, ProcFacts, PcFacts
    DEF Accept, Goto, TypeInv, TypeOK, ProcType, ControlInv, Servers
  <2>3. NetType'
    BY <1>2, <2>1, ProcFacts DEF Accept, TypeInv, TypeOK, NetType
  <2> QED BY <1>2, <2>2, <2>3, Untouched DEF Accept, TypeInv, TypeOK, clientVars, history
<1>3. CASE DropConnection(p) \/ Reply(p)
  <2>1. ProcType' /\ ControlInv'
    BY <1>3, ProcFacts, PcFacts
    DEF DropConnection, Reply, Goto, TypeInv, TypeOK, ProcType, ControlInv, Servers
  <2>2. NetType'
    BY <1>3 DEF DropConnection, Reply, TypeInv, TypeOK, ProcType, NetType
  <2> QED
    BY <1>3, <2>1, <2>2, Untouched DEF DropConnection, Reply, TypeInv, TypeOK, clientVars, history
<1> QED BY <1>1, <1>2, <1>3

LEMMA ClientCrashType == ASSUME TypeInv, NEW c \in Clients, ClientCrash(c) PROVE TypeInv'
<1>1. ProcType' /\ ControlInv'
  BY ProcFacts, PcFacts DEF ClientCrash, Goto, TypeInv, TypeOK, ProcType, ControlInv
<1>2. NetType'
  BY DEF ClientCrash, TypeInv, TypeOK, NetType
<1> QED BY <1>1, <1>2, Untouched DEF ClientCrash, TypeInv, TypeOK, clientVars, history

LEMMA TypeStep == TypeInv /\ [Next]_vars => TypeInv'
<1> SUFFICES ASSUME TypeInv, [Next]_vars PROVE TypeInv'
  OBVIOUS
<1>1. CASE PortalStep
  BY <1>1, ProcFacts, ForkType, LoopType, ReadRequestType, CallType, SpinEndsType, EndsType
  DEF PortalStep, Serve, Callers, PortalExit
<1>2. CASE \E s \in Services : ServiceStep(s)
  BY <1>2, ProcFacts, LoopType, ReadRequestType, LoadType, MicroHandleType, SaveType, EndsType
  DEF ServiceStep, Serve, WildCrash, ServiceExit
<1>3. CASE \E c \in Clients : Call(c)
  BY <1>3, CallType DEF Callers
<1>4. CASE Environment
  BY <1>4, ProcFacts, LoopType, SigintType, ClientCrashType, EndsType
  DEF Environment, BindFails, ForkFails, SigintKills, Crash
<1>5. CASE UNCHANGED vars
  BY <1>5, Untouched DEF vars, TypeInv, TypeOK
<1> QED BY <1>1, <1>2, <1>3, <1>4, <1>5 DEF Next, Idle

\* Every variable keeps its type in every execution (the value of a process
\* counter, of a response, of a document of the right service), and a server
\* that is in the middle of a request knows its connection and its client.
THEOREM TypeCorrect == Spec => []TypeOK
<1>1. Spec => []TypeInv
  BY InitType, TypeStep, PTL DEF Spec
<1>2. TypeInv => TypeOK
  BY DEF TypeInv
<1> QED BY <1>1, <1>2, PTL

=============================================================================
