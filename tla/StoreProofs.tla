---------------------------- MODULE StoreProofs ----------------------------
(***************************************************************************)
(* Documents, files, connections and the refinement of AtomicPortal by     *)
(* NewsPortal, for every instance.                                         *)
(***************************************************************************)
EXTENDS AnswerProofs

-----------------------------------------------------------------------------
(* What is saved *)

\* A step that leaves documents and files alone keeps SaveInv if it takes no
\* service back before its loading, or past its saving.
LEMMA SaveKept ==
    ASSUME SaveInv, UNCHANGED <<store, file>>,
           \A s \in Services :
               \/ pc'[s] = pc[s]
               \/ pc'[s] \notin {"unborn", "boot", "load", "stop", "exited"}
               \/ pc'[s] \in {"boot", "load", "exited"} /\ pc[s] \in {"unborn", "boot"}
               \/ pc'[s] = "exited" /\ pc[s] = "stop"
    PROVE  SaveInv'
BY DEF SaveInv

\* No document is Wild once it is saved, as saving it ends the process.
LEMMA SaveActions ==
    ASSUME TypeInv, SaveInv, NEW s \in Services,
           ServiceLoad(s) \/ MicroHandle(s) \/ SaveOpen(s) \/ SaveWrite(s)
    PROVE  SaveInv'
<1> USE ProcFacts DEF SaveInv, TypeInv, TypeOK, ProcType, DataType, Goto
<1>1. CASE ServiceLoad(s)
  BY <1>1 DEF ServiceLoad
<1>2. CASE MicroHandle(s)
  BY <1>2 DEF MicroHandle, dataVars
<1>3. CASE SaveOpen(s)
  BY <1>3 DEF SaveOpen
<1>4. CASE SaveWrite(s)
  BY <1>4 DEF SaveWrite
<1> QED BY <1>1, <1>2, <1>3, <1>4

LEMMA SaveServe ==
    ASSUME TypeInv, SaveInv, NEW p \in Servers,
           \/ Boot(p) \/ LoopCheck(p) \/ Accept(p) \/ AcceptFails(p)
           \/ ReadRequest(p) \/ DropConnection(p) \/ Reply(p) \/ SigintCaught(p)
    PROVE  SaveInv'
<1>1. UNCHANGED <<store, file>>
  BY DEF Boot, LoopCheck, Accept, AcceptFails, ReadRequest, DropConnection, Reply,
         SigintCaught, dataVars
<1>2. ASSUME NEW s \in Services
      PROVE  \/ pc'[s] = pc[s]
             \/ pc'[s] \notin {"unborn", "boot", "load", "stop", "exited"}
             \/ pc'[s] \in {"boot", "load", "exited"} /\ pc[s] \in {"unborn", "boot"}
  BY ProcFacts
  DEF TypeInv, TypeOK, ProcType, Goto, Boot, LoopCheck, Accept, AcceptFails, ReadRequest,
      DropConnection, Reply, SigintCaught, Interrupted
<1> QED BY <1>1, <1>2, SaveKept

LEMMA SaveEnds ==
    ASSUME TypeInv, SaveInv, NEW p \in Servers, NEW last \in {"exited", "dead"}, Ends(p, last),
           last = "exited" => p = Portal \/ pc[p] \in {"boot", "stop"}
    PROVE  SaveInv'
BY SaveKept, ProcFacts DEF Ends, TypeInv, TypeOK, ProcType, dataVars

LEMMA SaveCall ==
    ASSUME TypeInv, SaveInv, NEW k \in Callers, Call(k) \/ (k = Portal /\ SpinEnds)
    PROVE  SaveInv'
<1>1. UNCHANGED <<store, file>>
  BY DEF Call, Connect, ConnectFails, Send, SendFails, Receive, SpinEnds, dataVars
<1>2. \A s \in Services : pc'[s] = pc[s]
  BY ProcFacts, PortalAssumption
  DEF Call, Connect, ConnectFails, Send, SendFails, Receive, SpinEnds, CallEnds, Goto,
      Callers, TypeInv, TypeOK, ProcType, Servers
<1> QED BY <1>1, <1>2, SaveKept

\* The labels before the loop are only left forwards, and a service that is not
\* there takes no step.
LEMMA ForkStep == TypeInv /\ ForkInv /\ [Next]_vars => ForkInv'
<1> SUFFICES ASSUME TypeInv, ForkInv, [Next]_vars PROVE ForkInv'
  OBVIOUS
<1> USE ProcFacts DEF ForkInv, ForkLabel, TypeInv, TypeOK, ProcType, Goto
<1>1. ASSUME NEW p \in Servers, pc[p] # "unborn", NEW label \in ServicePc \cup PortalPc,
             label \notin {"boot", "fork_weather", "fork_currency"}
             \/ (p = Portal /\ pc[p] = "boot" /\ label = "fork_weather"),
             pc' = [pc EXCEPT ![p] = label]
      PROVE  ForkInv'
  BY <1>1 DEF Servers
<1>2. ASSUME NEW p \in Servers, pc[p] # "unborn", NEW last \in {"exited", "dead"}, Ends(p, last)
      PROVE  ForkInv'
  BY <1>1, <1>2, PcFacts DEF Ends
<1>3. ASSUME NEW p \in Servers, Serve(p) \/ AcceptFails(p) PROVE ForkInv'
  BY <1>1, <1>3, PcFacts
  DEF Serve, Boot, LoopCheck, Accept, AcceptFails, ReadRequest, DropConnection, Reply
<1>4. ASSUME NEW s \in Services, Fork(s) PROVE ForkInv'
  BY <1>4 DEF Fork, Services
<1>5. ASSUME NEW c \in Clients, Call(c) \/ ClientCrash(c) PROVE ForkInv'
  BY <1>5, PortalAssumption
  DEF Call, Connect, ConnectFails, Send, SendFails, Receive, CallEnds, ClientCrash, Servers
<1>6. ASSUME Call(Portal) \/ SpinEnds PROVE ForkInv'
  BY <1>1, <1>6, PcFacts
  DEF Call, Connect, ConnectFails, Send, SendFails, Receive, CallEnds, SpinEnds
<1>7. ASSUME NEW p \in Servers, SigintCaught(p) PROVE ForkInv'
  BY <1>1, <1>7, PcFacts DEF SigintCaught, Interrupted, Running, Ended
<1>8. ASSUME NEW s \in Services, ServiceLoad(s) \/ MicroHandle(s) \/ SaveOpen(s) \/ SaveWrite(s)
      PROVE ForkInv'
  BY <1>1, <1>8, PcFacts DEF ServiceLoad, MicroHandle, SaveOpen, SaveWrite
<1> QED
  BY <1>2, <1>3, <1>4, <1>5, <1>6, <1>7, <1>8
  DEF Next, Idle, PortalStep, ServiceStep, Environment, WildCrash, ServiceExit, PortalExit,
      BindFails, ForkFails, SigintKills, Crash, Running, Ended, vars, procVars

LEMMA SaveStep == TypeInv /\ ForkInv /\ SaveInv /\ [Next]_vars => SaveInv'
<1> SUFFICES ASSUME TypeInv, ForkInv, SaveInv, [Next]_vars PROVE SaveInv'
  OBVIOUS
<1>1. CASE PortalStep
  <2>1. ASSUME NEW s \in Services, Fork(s) PROVE SaveInv'
    <3>1. pc[s] = "unborn"
      BY <2>1 DEF Fork, ForkInv
    <3>2. \A q \in Services : pc'[q] = IF q = s THEN "boot" ELSE pc[q]
      BY <2>1, ProcFacts DEF Fork, TypeInv, TypeOK, ProcType
    <3> QED BY <2>1, <3>1, <3>2, SaveKept DEF Fork, dataVars
  <2> QED BY <1>1, <2>1, ProcFacts, SaveServe, SaveCall, SaveEnds
      DEF PortalStep, Serve, Callers, PortalExit
<1>2. CASE \E s \in Services : ServiceStep(s)
  BY <1>2, ProcFacts, SaveServe, SaveActions, SaveEnds
  DEF ServiceStep, Serve, WildCrash, ServiceExit
<1>3. CASE \E c \in Clients : Call(c)
  BY <1>3, SaveCall DEF Callers
<1>4. CASE Environment
  <2>1. ASSUME NEW c \in Clients, ClientCrash(c) PROVE SaveInv'
    BY <2>1, SaveKept, ProcFacts, PortalAssumption
    DEF ClientCrash, Goto, TypeInv, TypeOK, ProcType, dataVars, Servers
  <2> QED BY <1>4, <2>1, ProcFacts, SaveServe, SaveEnds
      DEF Environment, BindFails, ForkFails, SigintKills, Crash
<1>5. CASE UNCHANGED vars
  BY <1>5, SaveKept DEF vars, procVars, dataVars
<1> QED BY <1>1, <1>2, <1>3, <1>4, <1>5 DEF Next, Idle

-----------------------------------------------------------------------------
(* What answers and outcomes tell *)

\* No service goes back behind its loading, and no client behind its end.
LEMMA ForwardStep ==
    ASSUME TypeInv, ForkInv, [Next]_vars
    PROVE  /\ \A s \in Services : pc'[s] \in {"unborn", "boot", "load"}
                                    => pc[s] \in {"unborn", "boot", "load"}
           /\ \A c \in Clients : pc'[c] \in {"connect", "send", "await"}
                                    => pc[c] \in {"connect", "send", "await"}
<1> USE ProcFacts DEF TypeInv, TypeOK, ProcType, Goto
<1> DEFINE Early == {"unborn", "boot", "load"}
           Open == {"connect", "send", "await"}
           Goal == /\ \A s \in Services : pc'[s] \in Early => pc[s] \in Early
                   /\ \A c \in Clients : pc'[c] \in Open => pc[c] \in Open
<1>1. ASSUME NEW p \in Servers, NEW label \in ServicePc \cup PortalPc,
             label \in Early => p = Portal \/ pc[p] \in Early,
             pc' = [pc EXCEPT ![p] = label]
      PROVE  Goal
  BY <1>1
<1>2. ASSUME NEW c \in Clients, NEW label \in ClientPc,
             label \in Open => pc[c] \in Open,
             pc' = [pc EXCEPT ![c] = label]
      PROVE  Goal
  BY <1>2
<1>3. ASSUME NEW p \in Servers, Serve(p) \/ AcceptFails(p) PROVE Goal
  BY <1>1, <1>3, PcFacts
  DEF Serve, Boot, LoopCheck, Accept, AcceptFails, ReadRequest, DropConnection, Reply
<1>4. ASSUME NEW s \in Services, Fork(s) PROVE Goal
  <2>1. pc[s] = "unborn"
    BY <1>4 DEF Fork, ForkInv
  <2> QED BY <1>4, <2>1 DEF Fork
<1>5. ASSUME NEW c \in Clients, Call(c) \/ ClientCrash(c) PROVE Goal
  BY <1>2, <1>5, PcFacts
  DEF Call, Connect, ConnectFails, Send, SendFails, Receive, CallEnds, ClientCrash
<1>6. ASSUME Call(Portal) \/ SpinEnds PROVE Goal
  BY <1>1, <1>6, PcFacts
  DEF Call, Connect, ConnectFails, Send, SendFails, Receive, CallEnds, SpinEnds
<1>7. ASSUME NEW p \in Servers, SigintCaught(p) PROVE Goal
  BY <1>1, <1>7, PcFacts DEF SigintCaught, Interrupted, Servers
<1>8. ASSUME NEW s \in Services, ServiceLoad(s) \/ MicroHandle(s) \/ SaveOpen(s) \/ SaveWrite(s)
      PROVE Goal
  BY <1>1, <1>8, PcFacts DEF ServiceLoad, MicroHandle, SaveOpen, SaveWrite
<1>9. ASSUME NEW p \in Servers, NEW last \in {"exited", "dead"}, Ends(p, last) PROVE Goal
  BY <1>1, <1>9, PcFacts DEF Ends
<1>10. ASSUME UNCHANGED vars PROVE Goal
  BY <1>10 DEF vars, procVars
<1> HIDE DEF Goal
<1>11. Goal
  BY <1>3, <1>4, <1>5, <1>6, <1>7, <1>8, <1>9, <1>10
  DEF Next, Idle, PortalStep, ServiceStep, Environment, WildCrash, ServiceExit, PortalExit,
      BindFails, ForkFails, SigintKills, Crash
<1> QED BY <1>11 DEF Goal

\* An outcome comes from the end of client_send() in its client.
LEMMA OutcomeStep ==
    ASSUME TypeInv, [Next]_vars
    PROVE  \/ UNCHANGED outcome
           \/ \E c \in Clients :
                 /\ Call(c)
                 /\ pc[c] \in {"connect", "send", "await"}
                 /\ pc'[c] = "done"
                 /\ \E r \in Response \cup {Failed} : outcome' = [outcome EXCEPT ![c] = r]
                 /\ UNCHANGED <<store, req, history>>
<1>1. ASSUME NEW c \in Clients, Call(c)
      PROVE  \/ UNCHANGED outcome
             \/ /\ pc[c] \in {"connect", "send", "await"}
                /\ pc'[c] = "done"
                /\ \E r \in Response \cup {Failed} : outcome' = [outcome EXCEPT ![c] = r]
                /\ UNCHANGED <<store, req, history>>
  <2>1. down[Target(c)] \in Response \cup {None}
    BY ProcFacts DEF Target, TypeInv, TypeOK, NetType
  <2> QED BY <1>1, <2>1, ProcFacts
      DEF Call, Connect, ConnectFails, Send, SendFails, Receive, CallEnds, Goto, clientVars,
          dataVars, TypeInv, TypeOK, ProcType
<1>2. CASE \E c \in Clients : Call(c)
  BY <1>1, <1>2
<1>3. CASE ~ \E c \in Clients : Call(c)
  BY <1>3, ProcFacts
  DEF Next, PortalStep, ServiceStep, Serve, Call, Environment, Idle, vars, clientVars,
         Boot, LoopCheck, Accept, AcceptFails, ReadRequest, DropConnection, Reply, Fork, ForkFails,
         ServiceLoad, MicroHandle, WildCrash, SaveOpen, SaveWrite, ServiceExit, PortalExit, SpinEnds,
         Connect, ConnectFails, Send, SendFails, Receive, CallEnds,
         BindFails, SigintCaught, SigintKills, Crash, ClientCrash, Ends
<1> QED BY <1>2, <1>3

\* A document changes when it is loaded or by the execution of a request.
LEMMA StoreStep ==
    ASSUME [Next]_vars
    PROVE  /\ UNCHANGED req
           /\ \/ UNCHANGED <<store, history>>
              \/ \E s \in Services : ServiceLoad(s)
              \/ \E s \in Services : MicroHandle(s)
BY ProcFacts
DEF Next, PortalStep, ServiceStep, Serve, Call, Environment, Idle, vars, clientVars, dataVars,
         Boot, LoopCheck, Accept, AcceptFails, ReadRequest, DropConnection, Reply, Fork, ForkFails,
         WildCrash, SaveOpen, SaveWrite, ServiceExit, PortalExit, SpinEnds,
         ServiceLoad, MicroHandle,
         Connect, ConnectFails, Send, SendFails, Receive, CallEnds,
         BindFails, SigintCaught, SigintKills, Crash, ClientCrash, Ends

\* What the execution of a request does, and of which request.
LEMMA ExecutionFacts ==
    ASSUME TypeInv, FlowInv, NEW s \in Services, MicroHandle(s)
    PROVE  LET c == request[s]
               result == micro_handle_request(s, store[s], req[c])
           IN /\ c \in Clients /\ get_base_request(req[c].type) = s
              /\ Fresh(c) /\ Live(s, c)
              /\ result.resp \in Response
              /\ store[s] \in Document(s) \cup {NullJson}
              /\ store' = [store EXCEPT ![s] = result.json]
              /\ answer' = [answer EXCEPT ![c] = result.resp]
              /\ execs' = [execs EXCEPT ![c] = @ + 1]
              /\ pc' = [pc EXCEPT ![s] = "reply"]
              /\ UNCHANGED <<req, outcome>>
<1>1. request[s] \in Clients
      /\ micro_handle_request(s, store[s], req[request[s]]).resp \in Response
  BY MicroResult
<1>2. Live(s, request[s])
  BY DEF MicroHandle, Live, Ended
<1>3. store[s] \in Document(s) \cup {NullJson}
  BY DEF MicroHandle, TypeInv, TypeOK, DataType
<1> QED BY <1>1, <1>2, <1>3 DEF MicroHandle, FlowInv, LiveInv, Goto, clientVars

LEMMA TraceStep == TypeInv /\ FlowInv /\ ForkInv /\ TraceInv /\ [Next]_vars => TraceInv'
<1> SUFFICES ASSUME TypeInv, FlowInv, ForkInv, TraceInv, [Next]_vars PROVE TraceInv'
  OBVIOUS
<1>1. UNCHANGED req
  BY StoreStep
<1>2. \A s \in Services : pc'[s] \in {"unborn", "boot", "load"} =>
         \A c \in Clients : get_base_request(req'[c].type) = s => answer'[c] = None
  <2>1. CASE UNCHANGED history
    BY <1>1, <2>1, ForwardStep DEF TraceInv, history
  <2>2. CASE \E s \in Services : MicroHandle(s)
    <3>1. PICK t \in Services : MicroHandle(t)
      BY <2>2
    <3>2. /\ request[t] \in Clients /\ get_base_request(req[request[t]].type) = t
          /\ pc'[t] = "reply"
          /\ \A c \in Clients : c # request[t] => answer'[c] = answer[c]
      BY <3>1, ExecutionFacts, ProcFacts DEF TypeInv, TypeOK, ProcType, ClientType
    <3> QED BY <1>1, <3>2, ForwardStep DEF TraceInv
  <2> QED BY <2>1, <2>2, StoreStep DEF ServiceLoad
<1>3. \A c \in Clients : execs'[c] = 0 => answer'[c] = None
  <2>1. CASE UNCHANGED history
    BY <2>1 DEF TraceInv, history
  <2>2. CASE \E s \in Services : MicroHandle(s)
    <3>1. PICK t \in Services : MicroHandle(t)
      BY <2>2
    <3>2. /\ request[t] \in Clients /\ execs'[request[t]] = 1
          /\ \A c \in Clients : c # request[t] => answer'[c] = answer[c] /\ execs'[c] = execs[c]
      BY <3>1, ExecutionFacts DEF TypeInv, TypeOK, ClientType, Fresh
    <3> QED BY <3>2 DEF TraceInv
  <2> QED BY <2>1, <2>2, StoreStep DEF ServiceLoad
<1>4. \A c \in Clients : pc'[c] \in {"connect", "send", "await"} => outcome'[c] = None
  BY OutcomeStep, ForwardStep DEF TraceInv, TypeInv, TypeOK, ClientType
<1> QED BY <1>2, <1>3, <1>4 DEF TraceInv

-----------------------------------------------------------------------------
(* What was acknowledged *)

\* Success is told from the other answers.
LEMMA SuccessAnswer ==
    /\ Result("Success") \in Response
    /\ Result("Success") # None /\ Result("Success") # ZeroResponse
    /\ Result("Success") # Result("Failed") /\ Result("Success") # Result("Not found")
    /\ \A json, key : /\ Result("Success") # get_city_weather(json, key)
                      /\ Result("Success") # get_currency_exchange(json, key)
<1>1. Result("Success") \in Response
  BY DEF Response, ResultResponse, Result
<1>2. /\ Result("Success").type = "result" /\ ZeroResponse.type = "weather"
      /\ Result("Success").message = "Success" /\ Result("Failed").message = "Failed"
      /\ Result("Not found").message = "Not found"
      /\ \A json, key : /\ get_city_weather(json, key).type = "weather"
                        /\ get_currency_exchange(json, key).type = "currency"
  BY DEF Result, ZeroResponse, get_city_weather, get_currency_exchange
<1>3. Result("Success") # None
  BY <1>1, PortalAssumption
<1>4. \A json, key : /\ Result("Success") # get_city_weather(json, key)
                     /\ Result("Success") # get_currency_exchange(json, key)
  BY <1>2
<1> QED BY <1>1, <1>2, <1>3, <1>4

\* A service says Success to a POST for an entry that it has, and to nothing
\* else; its document changes with no other answer.
LEMMA SuccessFacts ==
    ASSUME NEW s \in Services, NEW json, NEW r \in Request, get_base_request(r.type) = s
    PROVE  LET result == micro_handle_request(s, json, r) IN
           /\ result.resp = Result("Success") => IsPost(r) /\ has_member(json, r.key)
           /\ result.resp # Result("Success") => result.json = json
<1>1. CASE s = "weather"
  <2>1. micro_handle_request(s, json, r) = handle_weather(json, r)
    BY <1>1 DEF micro_handle_request
  <2>2. CASE r.type = "post_weather" /\ has_member(json, r.key)
    BY <2>1, <2>2 DEF handle_weather, IsPost
  <2>3. CASE r.type = "post_weather" /\ ~has_member(json, r.key)
    <3>1. micro_handle_request(s, json, r) = [json |-> json, resp |-> Result("Failed")]
      BY <2>1, <2>3 DEF handle_weather
    <3>2. Result("Success") # Result("Failed")
      BY SuccessAnswer
    <3> QED BY <3>1, <3>2
  <2>4. CASE r.type # "post_weather" /\ has_member(json, r.key)
    <3>1. Result("Success") # get_city_weather(json, r.key)
      BY SuccessAnswer
    <3> QED BY <2>1, <2>4, <3>1 DEF handle_weather
  <2>5. CASE r.type # "post_weather" /\ ~has_member(json, r.key)
    <3> DEFINE notFound == Result("Not found")
    <3>1. micro_handle_request(s, json, r) = [json |-> json, resp |-> notFound]
      BY <2>1, <2>5 DEF handle_weather
    <3>2. Result("Success") # notFound
      BY SuccessAnswer
    <3> HIDE DEF notFound
    <3> QED BY <3>1, <3>2
  <2> QED BY <2>2, <2>3, <2>4, <2>5
<1>2. CASE s = "currency"
  <2>1. micro_handle_request(s, json, r) = handle_currency(json, r)
    BY <1>2 DEF micro_handle_request
  <2>2. CASE r.type = "post_currency" /\ has_member(json, r.key)
    BY <2>1, <2>2 DEF handle_currency, IsPost
  <2>3. CASE r.type = "post_currency" /\ ~has_member(json, r.key)
    <3>1. micro_handle_request(s, json, r) = [json |-> json, resp |-> Result("Failed")]
      BY <2>1, <2>3 DEF handle_currency
    <3>2. Result("Success") # Result("Failed")
      BY SuccessAnswer
    <3> QED BY <3>1, <3>2
  <2>4. CASE r.type # "post_currency" /\ has_member(json, r.key)
    <3>1. Result("Success") # get_currency_exchange(json, r.key)
      BY SuccessAnswer
    <3> QED BY <2>1, <2>4, <3>1 DEF handle_currency
  <2>5. CASE r.type # "post_currency" /\ ~has_member(json, r.key)
    <3> DEFINE notFound == Result("Not found")
    <3>1. micro_handle_request(s, json, r) = [json |-> json, resp |-> notFound]
      BY <2>1, <2>5 DEF handle_currency
    <3>2. Result("Success") # notFound
      BY SuccessAnswer
    <3> HIDE DEF notFound
    <3> QED BY <3>1, <3>2
  <2> QED BY <2>2, <2>3, <2>4, <2>5
<1> QED BY <1>1, <1>2 DEF Services

\* What a POST makes of a number that it gives.
SetNumber(r, f, j) ==
    IF f = "humidity" THEN json_integer_set(j, r[f]) ELSE json_real_set(j, r[f])

\* A successful POST, number by number: of any POST q of the same kind that
\* gives number f for its entry.
LEMMA PostEffect ==
    ASSUME NEW s \in Services, NEW json \in Document(s), NEW r \in Request, IsPost(r),
           get_base_request(r.type) = s, has_member(json, r.key),
           NEW q \in Request, q.type = r.type, has_member(json, q.key), NEW f \in Given(q)
    PROVE  LET new == micro_handle_request(s, json, r).json IN
           /\ new \in Document(s) /\ has_member(new, q.key)
           /\ Number(json, q, f) \in Json
           /\ q[f] \in Int
           /\ Number(new, q, f) = IF q.key = r.key /\ f \in Given(r)
                                  THEN SetNumber(r, f, Number(json, q, f))
                                  ELSE Number(json, q, f)
<1> DEFINE new == micro_handle_request(s, json, r).json
<1>1. CASE s = "weather"
  <2> DEFINE city == json[r.key]
             updated == [humidity |-> IF VALID(r.humidity)
                                      THEN json_integer_set(city.humidity, r.humidity)
                                      ELSE city.humidity,
                         pressure |-> IF VALID(r.pressure)
                                      THEN json_real_set(city.pressure, r.pressure)
                                      ELSE city.pressure,
                         temperature |-> IF VALID(r.temperature)
                                         THEN json_real_set(city.temperature, r.temperature)
                                         ELSE city.temperature]
  <2>1. r.type = "post_weather" /\ r \in PostWeatherRequest /\ q \in PostWeatherRequest
    BY <1>1 DEF IsPost, get_base_request, Request, GetRequest, PostWeatherRequest,
                PostCurrencyRequest
  <2>2. /\ json \in [Cities -> City] /\ r.key \in Cities /\ q.key \in Cities
        /\ json # NullJson
    BY <1>1 DEF Document, WeatherJson, has_member
  <2>3. new = [json EXCEPT ![r.key] = updated]
    BY <1>1, <2>1 DEF micro_handle_request, get_base_request, handle_weather, set_city_weather
  <2>4. f \in {"humidity", "pressure", "temperature"} /\ VALID(q[f]) /\ q[f] \in Int
    BY <2>1 DEF Given, PostWeatherRequest
  <2>5. updated \in City
    BY <2>1, <2>2 DEF City, PostWeatherRequest, Json, json_integer_set, json_real_set, truncate
  <2>6. Given(r) = {g \in {"humidity", "pressure", "temperature"} : VALID(r[g])}
    BY <2>1 DEF Given
  <2>7. updated[f] = IF f \in Given(r) THEN SetNumber(r, f, city[f]) ELSE city[f]
    BY <2>4, <2>6 DEF SetNumber
  <2> HIDE DEF updated, new
  <2>8. /\ new \in [Cities -> City]
        /\ \A key \in Cities : new[key] = IF key = r.key THEN updated ELSE json[key]
    BY <2>2, <2>3, <2>5
  <2>9. new # NullJson
    BY <2>8, NullJsonAssumption DEF WeatherJson
  <2>10. Number(json, q, f) = json[q.key][f] /\ Number(new, q, f) = new[q.key][f]
    BY <2>1 DEF Number
  <2>11. json[q.key][f] \in Json
    BY <2>2, <2>4 DEF City
  <2> QED BY <2>2, <2>4, <2>7, <2>8, <2>9, <2>10, <2>11, <1>1
      DEF has_member, Document, WeatherJson, new
<1>2. CASE s = "currency"
  <2>1. r.type = "post_currency" /\ r \in PostCurrencyRequest /\ q \in PostCurrencyRequest
    BY <1>2 DEF IsPost, get_base_request, Request, GetRequest, PostWeatherRequest,
                PostCurrencyRequest
  <2>2. /\ json \in [Coins -> Json] /\ r.key \in Coins /\ q.key \in Coins
        /\ json # NullJson
    BY <1>2 DEF Document, CurrencyJson, has_member
  <2>3. new = IF VALID(r.value) THEN [json EXCEPT ![r.key] = json_real_set(json[r.key], r.value)]
              ELSE json
    BY <1>2, <2>1 DEF micro_handle_request, get_base_request, handle_currency,
                      set_currency_exchange
  <2>4. f = "value" /\ q[f] \in Int
    BY <2>1 DEF Given, PostCurrencyRequest
  <2>5. "value" \in Given(r) <=> VALID(r.value)
    BY <2>1 DEF Given
  <2>6. json_real_set(json[r.key], r.value) \in Json
    BY <2>1, <2>2 DEF PostCurrencyRequest, Json, json_real_set
  <2> HIDE DEF new
  <2>7. /\ new \in [Coins -> Json]
        /\ \A key \in Coins :
              new[key] = IF key = r.key /\ VALID(r.value)
                         THEN json_real_set(json[r.key], r.value) ELSE json[key]
    BY <2>2, <2>3, <2>6
  <2>8. new # NullJson
    BY <2>7, NullJsonAssumption DEF CurrencyJson
  <2>9. Number(json, q, f) = json[q.key] /\ Number(new, q, f) = new[q.key]
    BY <2>1 DEF Number
  <2> QED BY <1>2, <2>2, <2>4, <2>5, <2>7, <2>8, <2>9
      DEF has_member, SetNumber, Document, CurrencyJson, new
<1> QED BY <1>1, <1>2 DEF Services

\* A document keeps its members.
LEMMA SameMembers ==
    ASSUME NEW s \in Services, NEW json \in Document(s), NEW r \in Request,
           get_base_request(r.type) = s, NEW key, has_member(json, key)
    PROVE  has_member(micro_handle_request(s, json, r).json, key)
<1> DEFINE new == micro_handle_request(s, json, r).json
<1>1. CASE s = "weather"
  <2>1. json \in [Cities -> City] /\ key \in Cities /\ json # NullJson
    BY <1>1 DEF Document, WeatherJson, has_member
  <2>2. CASE r.type = "post_weather" /\ r.key \in Cities
    <3>1. r \in PostWeatherRequest
      BY <2>2 DEF Request, GetRequest, PostCurrencyRequest
    <3>2. \E city \in City : new = [json EXCEPT ![r.key] = city]
      <4>1. new = set_city_weather(json, r)
        BY <1>1, <2>1, <2>2 DEF micro_handle_request, get_base_request, handle_weather, has_member
      <4>2. json[r.key] \in City
        BY <2>1, <2>2
      <4> QED BY <3>1, <4>1, <4>2
          DEF set_city_weather, City, PostWeatherRequest, Json, json_integer_set, json_real_set,
              truncate
    <3> HIDE DEF new
    <3>3. new \in WeatherJson
      BY <2>1, <3>2 DEF WeatherJson
    <3> QED BY <2>1, <3>3, NullJsonAssumption DEF WeatherJson, has_member, new
  <2>3. CASE ~(r.type = "post_weather" /\ r.key \in Cities)
    <3>1. ~(IsPost(r) /\ has_member(json, r.key))
      BY <1>1, <2>1, <2>3 DEF has_member, IsPost, get_base_request
    <3> QED BY <3>1, SuccessFacts
  <2> QED BY <2>2, <2>3
<1>2. CASE s = "currency"
  <2>1. json \in [Coins -> Json] /\ key \in Coins /\ json # NullJson
    BY <1>2 DEF Document, CurrencyJson, has_member
  <2>2. CASE r.type = "post_currency" /\ r.key \in Coins /\ VALID(r.value)
    <3>1. r \in PostCurrencyRequest
      BY <2>2 DEF Request, GetRequest, PostWeatherRequest
    <3>2. \E j \in Json : new = [json EXCEPT ![r.key] = j]
      <4>1. new = set_currency_exchange(json, r)
        BY <1>2, <2>1, <2>2 DEF micro_handle_request, get_base_request, handle_currency, has_member
      <4>2. json[r.key] \in Json
        BY <2>1, <2>2
      <4> QED BY <2>2, <3>1, <4>1, <4>2
          DEF set_currency_exchange, PostCurrencyRequest, Json, json_real_set
    <3> HIDE DEF new
    <3>3. new \in CurrencyJson
      BY <2>1, <3>2 DEF CurrencyJson
    <3> QED BY <2>1, <3>3, NullJsonAssumption DEF CurrencyJson, has_member, new
  <2>3. CASE ~(r.type = "post_currency" /\ r.key \in Coins)
    <3>1. ~(IsPost(r) /\ has_member(json, r.key))
      BY <1>2, <2>1, <2>3 DEF has_member, IsPost, get_base_request
    <3> QED BY <3>1, SuccessFacts
  <2>4. CASE r.type = "post_currency" /\ r.key \in Coins /\ ~VALID(r.value)
    <3>1. new = set_currency_exchange(json, r)
      BY <1>2, <2>1, <2>4 DEF micro_handle_request, get_base_request, handle_currency, has_member
    <3> QED BY <2>4, <3>1 DEF set_currency_exchange
  <2> QED BY <2>2, <2>3, <2>4
<1> QED BY <1>1, <1>2 DEF Services

\* A POST leaves the numbers that it gives as it wants them, and the others as
\* they are.
LEMMA PostKeeps ==
    ASSUME NEW s \in Services, NEW json \in Document(s), NEW r \in Request, IsPost(r),
           get_base_request(r.type) = s, has_member(json, r.key)
    PROVE  LET new == micro_handle_request(s, json, r).json IN
           /\ has_member(new, r.key)
           /\ \A f \in Given(r) : Stands(new, r, f)
           /\ \A q \in Request : \A f \in Given(q) :
                 /\ IsPost(q) /\ get_base_request(q.type) = s
                 /\ Stands(json, q, f)
                 /\ ~(SameEntry(q, r) /\ f \in Given(r))
                 => Stands(new, q, f)
<1> DEFINE new == micro_handle_request(s, json, r).json
<1>1. ASSUME NEW f \in Given(r) PROVE Stands(new, r, f)
  <2>1. /\ new \in Document(s) /\ has_member(new, r.key)
        /\ Number(json, r, f) \in Json /\ r[f] \in Int
        /\ Number(new, r, f) = SetNumber(r, f, Number(json, r, f))
    BY <1>1, PostEffect
  <2> HIDE DEF new
  <2> QED BY <2>1 DEF Stands, SetNumber, json_integer_set, json_real_set, Json
<1>2. ASSUME NEW q \in Request, NEW f \in Given(q), IsPost(q), get_base_request(q.type) = s,
             Stands(json, q, f), ~(SameEntry(q, r) /\ f \in Given(r))
      PROVE  Stands(new, q, f)
  <2>1. q.type = r.type
    BY <1>2 DEF IsPost, get_base_request
  <2>2. has_member(json, q.key)
    BY <1>2 DEF Stands
  <2>3. /\ has_member(new, q.key)
        /\ Number(new, q, f) = Number(json, q, f)
    BY <1>2, <2>1, <2>2, PostEffect DEF SameEntry
  <2> HIDE DEF new
  <2> QED BY <1>2, <2>3 DEF Stands
<1>3. has_member(new, r.key)
  BY SameMembers
<1> QED BY <1>1, <1>2, <1>3

\* The execution of a request, as the clients see it: the document of its
\* service keeps its members and one client is answered.
LEMMA AnswerFacts ==
    ASSUME TypeInv, FlowInv, TraceInv, NEW s \in Services, MicroHandle(s)
    PROVE  LET a == request[s]
               result == micro_handle_request(s, store[s], req[a])
           IN /\ a \in Clients /\ req[a] \in Request /\ get_base_request(req[a].type) = s
              /\ answer[a] = None /\ None # Result("Success")
              /\ store[s] \in Document(s) \cup {NullJson}
              /\ \A t \in Services : store'[t] = IF t = s THEN result.json ELSE store[t]
              /\ \A c \in Clients : answer'[c] = IF c = a THEN result.resp ELSE answer[c]
              /\ UNCHANGED req
              /\ result.resp = Result("Success") =>
                    IsPost(req[a]) /\ has_member(store[s], req[a].key)
              /\ result.resp # Result("Success") => result.json = store[s]
              /\ \A key : has_member(store[s], key) => has_member(result.json, key)
<1> DEFINE a == request[s]
           result == micro_handle_request(s, store[s], req[a])
           success == Result("Success")
<1>1. /\ a \in Clients /\ get_base_request(req[a].type) = s
      /\ Fresh(a) /\ store[s] \in Document(s) \cup {NullJson}
      /\ store' = [store EXCEPT ![s] = result.json]
      /\ answer' = [answer EXCEPT ![a] = result.resp]
      /\ UNCHANGED req
  BY ExecutionFacts
<1>2. req[a] \in Request
  BY <1>1, ProcFacts DEF TypeInv, TypeOK, ClientType
<1>3. answer[a] = None /\ None # success
  BY <1>1, SuccessAnswer DEF Fresh, TraceInv
<1>4. /\ result.resp = success => IsPost(req[a]) /\ has_member(store[s], req[a].key)
      /\ result.resp # success => result.json = store[s]
  BY <1>1, <1>2, SuccessFacts
<1>5. \A key : has_member(store[s], key) => has_member(result.json, key)
  BY <1>1, <1>2, <1>4, SameMembers DEF has_member
<1>6. /\ \A t \in Services : store'[t] = IF t = s THEN result.json ELSE store[t]
      /\ \A c \in Clients : answer'[c] = IF c = a THEN result.resp ELSE answer[c]
  BY <1>1 DEF TypeInv, TypeOK, DataType, ClientType
<1> HIDE DEF success, result
<1> QED BY <1>1, <1>2, <1>3, <1>4, <1>5, <1>6 DEF success, result

LEMMA KeptStep ==
    TypeInv /\ FlowInv /\ TraceInv /\ KeptInv /\ [Next]_vars => KeptInv'
<1> SUFFICES ASSUME TypeInv, FlowInv, TraceInv, KeptInv, [Next]_vars PROVE KeptInv'
  OBVIOUS
<1>1. CASE UNCHANGED <<store, history>>
  BY <1>1, StoreStep DEF KeptInv, history
<1>2. ASSUME NEW s \in Services, ServiceLoad(s) PROVE KeptInv'
  <2>1. /\ UNCHANGED <<req, answer>>
        /\ \A c \in Clients : get_base_request(req[c].type) = s => answer[c] = None
        /\ \A t \in Services : t # s => store'[t] = store[t]
    BY <1>2 DEF ServiceLoad, TraceInv, clientVars, history, TypeInv, TypeOK, DataType
  <2>2. \A c \in Clients : get_base_request(req[c].type) \in Services
    BY ProcFacts DEF TypeInv, TypeOK, ClientType
  <2> QED BY <2>1, <2>2, SuccessAnswer DEF KeptInv
<1>3. ASSUME NEW s \in Services, MicroHandle(s) PROVE KeptInv'
  <2> DEFINE success == Result("Success")
  <2> SUFFICES ASSUME NEW c \in Clients, answer'[c] = success
               PROVE  /\ IsPost(req[c])
                      /\ has_member(store'[get_base_request(req[c].type)], req[c].key)
                      /\ req' = req
    BY AnswerFacts, <1>3 DEF KeptInv
  <2>1. get_base_request(req[c].type) \in Services
    BY ProcFacts DEF TypeInv, TypeOK, ClientType
  <2>2. KeptInv => (answer[c] = success =>
            IsPost(req[c]) /\ has_member(store[get_base_request(req[c].type)], req[c].key))
    BY DEF KeptInv
  <2> HIDE DEF success
  <2> QED BY <1>3, <2>1, <2>2, AnswerFacts DEF success
<1> QED BY <1>1, <1>2, <1>3, StoreStep

\* As long as a service has answered somebody Success, the document that counts
\* is the one that it has.
LEMMA CurrentFacts ==
    ASSUME SaveInv, KeptInv, NEW c \in Clients, answer[c] = Result("Success"),
           NEW s \in Services, get_base_request(req[c].type) = s
    PROVE  Current(s) = store[s]
BY DEF SaveInv, KeptInv, Current, has_member

LEMMA CurrentFactsPrime ==
    ASSUME SaveInv', KeptInv', NEW c \in Clients, answer'[c] = Result("Success"),
           NEW s \in Services, get_base_request(req'[c].type) = s
    PROVE  Current(s)' = store'[s]
BY DEF SaveInv, KeptInv, Current, has_member

-----------------------------------------------------------------------------
LEMMA StoreInit == Init => StoreInv
<1> SUFFICES ASSUME Init PROVE StoreInv
  OBVIOUS
<1>1. /\ \A s \in Services : pc[s] = "unborn" /\ store[s] = NullJson
      /\ \A c \in Clients : answer[c] = None /\ outcome[c] = None
  BY ProcFacts DEF Init
<1> QED BY <1>1, SuccessAnswer DEF StoreInv, ForkInv, SaveInv, TraceInv, KeptInv

\* Before it loads a service has no document and has answered nobody, each
\* answer is the trace of an execution, and what a service has saved stays.
THEOREM StoreInvariant == Spec => []StoreInv
<1>1. IInv /\ StoreInv /\ [Next]_vars => StoreInv'
  BY ForkStep, SaveStep, TraceStep, KeptStep DEF IInv, StoreInv, TypeInv
<1> QED BY <1>1, StoreInit, InvariantHolds, PTL DEF Spec

\* A service that ends in order leaves its last document on disk, unless the
\* disk fails: see ExitIsSaved.
THEOREM ExitSaves == Spec => []ExitIsSaved
<1>1. StoreInv => ExitIsSaved
  BY DEF StoreInv, SaveInv, ExitIsSaved
<1> QED BY <1>1, StoreInvariant, PTL

\* The numbers of a POST answered with Success are in the document that counts
\* until another POST for them is executed with Success: see AcknowledgedIsKept.
THEOREM AcknowledgedKept == Spec => AcknowledgedIsKept
<1> DEFINE success == Result("Success")
           Kept ==
             \A c \in Clients, s \in Services :
                get_base_request(req[c].type) = s /\ answer'[c] = success =>
                   \A f \in Given(req[c]) :
                      \/ Stands(Current(s)', req[c], f)
                      \/ Overridden(c, f)
                      \/ answer[c] = success /\ ~Stands(Current(s), req[c], f)
<1>1. IInv /\ StoreInv /\ StoreInv' /\ [Next]_vars => Kept
  <2> SUFFICES ASSUME TypeInv, FlowInv, TraceInv, SaveInv, KeptInv, SaveInv', KeptInv',
                      [Next]_vars,
                      NEW c \in Clients, NEW s \in Services,
                      get_base_request(req[c].type) = s, answer'[c] = success,
                      NEW f \in Given(req[c])
               PROVE  \/ Stands(Current(s)', req[c], f)
                      \/ Overridden(c, f)
                      \/ answer[c] = success /\ ~Stands(Current(s), req[c], f)
    BY DEF IInv, StoreInv, TypeInv
  <2>1. Current(s)' = store'[s] /\ UNCHANGED req /\ req[c] \in Request
    <3>1. UNCHANGED req
      BY StoreStep
    <3>2. Current(s)' = store'[s]
      BY <3>1, CurrentFactsPrime
    <3> QED BY <3>1, <3>2, ProcFacts DEF TypeInv, TypeOK, ClientType
  <2>2. answer[c] = success => Current(s) = store[s] /\ IsPost(req[c])
    BY CurrentFacts DEF KeptInv
  <2>3. CASE answer[c] = success /\ store'[s] = store[s]
    BY <2>1, <2>2, <2>3
  <2>4. ASSUME NEW t \in Services, ServiceLoad(t)
        PROVE  answer[c] = success /\ store'[s] = store[s]
    <3>1. answer[c] = success
      BY <2>4 DEF ServiceLoad, history
    <3>2. s # t
      BY <2>4, <3>1, SuccessAnswer DEF ServiceLoad, TraceInv
    <3> QED BY <2>4, <3>1, <3>2 DEF ServiceLoad, TypeInv, TypeOK, DataType
  <2>5. ASSUME NEW t \in Services, MicroHandle(t)
        PROVE  \/ answer[c] = success /\ store'[s] = store[s]
               \/ Stands(store'[s], req[c], f)
               \/ Overridden(c, f)
               \/ answer[c] = success /\ ~Stands(store[s], req[c], f)
    <3> DEFINE a == request[t]
               result == micro_handle_request(t, store[t], req[a])
    <3>1. /\ a \in Clients /\ req[a] \in Request /\ get_base_request(req[a].type) = t
          /\ answer[a] = None /\ None # success
          /\ store[t] \in Document(t) \cup {NullJson}
          /\ store'[s] = IF s = t THEN result.json ELSE store[s]
          /\ answer'[c] = IF c = a THEN result.resp ELSE answer[c]
          /\ answer'[a] = result.resp
          /\ result.resp = success => IsPost(req[a]) /\ has_member(store[t], req[a].key)
          /\ result.resp # success => result.json = store[t]
      BY <2>5, AnswerFacts
    <3>2. result.resp = success =>
             /\ \A g \in Given(req[a]) : Stands(result.json, req[a], g)
             /\ \A q \in Request : \A g \in Given(q) :
                   /\ IsPost(q) /\ get_base_request(q.type) = t
                   /\ Stands(store[t], q, g)
                   /\ ~(SameEntry(q, req[a]) /\ g \in Given(req[a]))
                   => Stands(result.json, q, g)
      BY <3>1, PostKeeps DEF has_member
    <3> HIDE DEF result, success
    <3>3. CASE c = a
      BY <3>1, <3>2, <3>3
    <3>4. CASE c # a /\ (s # t \/ result.resp # success)
      BY <3>1, <3>4
    <3>5. CASE c # a /\ s = t /\ result.resp = success
               /\ SameEntry(req[c], req[a]) /\ f \in Given(req[a])
      BY <3>1, <3>5 DEF Overridden, success
    <3>6. CASE c # a /\ s = t /\ result.resp = success
               /\ ~(SameEntry(req[c], req[a]) /\ f \in Given(req[a]))
      BY <2>1, <2>2, <3>1, <3>2, <3>6
    <3> QED BY <3>3, <3>4, <3>5, <3>6
  <2>6. CASE UNCHANGED <<store, history>>
    BY <2>3, <2>6 DEF history
  <2> HIDE DEF success
  <2> QED BY <2>1, <2>2, <2>3, <2>4, <2>5, <2>6, StoreStep
<1>2. IInv /\ StoreInv /\ StoreInv' /\ [Next]_vars => [Kept]_vars
  BY <1>1
<1> QED BY <1>2, InvariantHolds, StoreInvariant, PTL DEF Spec, AcknowledgedIsKept

-----------------------------------------------------------------------------
(* What a request may change *)

\* The setters keep the kind of a number.
LEMMA SetterKeepsKind ==
    ASSUME NEW j \in Json, NEW n \in Int
    PROVE  json_integer_set(j, n).kind = j.kind /\ json_real_set(j, n).kind = j.kind
BY DEF json_integer_set, json_real_set, Json

LEMMA WeatherConfined ==
    ASSUME NEW json \in WeatherJson \cup {NullJson}, NEW r \in Request,
           get_base_request(r.type) = "weather",
           handle_weather(json, r).json # json
    PROVE  IsPost(r) /\ OnlyAsked(json, handle_weather(json, r).json, r)
<1> DEFINE new == handle_weather(json, r).json
<1>1. /\ r.type = "post_weather" /\ has_member(json, r.key)
      /\ new = set_city_weather(json, r)
  BY DEF handle_weather
<1>2. json \in [Cities -> City] /\ r.key \in Cities /\ json[r.key] \in City
  BY <1>1 DEF has_member, WeatherJson
<1>3. r \in PostWeatherRequest
  BY <1>1 DEF Request, GetRequest, PostCurrencyRequest
<1> DEFINE city == json[r.key]
           updated == [humidity |-> IF VALID(r.humidity)
                                    THEN json_integer_set(city.humidity, r.humidity)
                                    ELSE city.humidity,
                       pressure |-> IF VALID(r.pressure)
                                    THEN json_real_set(city.pressure, r.pressure)
                                    ELSE city.pressure,
                       temperature |-> IF VALID(r.temperature)
                                       THEN json_real_set(city.temperature, r.temperature)
                                       ELSE city.temperature]
<1>4. new = [json EXCEPT ![r.key] = updated]
  BY <1>1 DEF set_city_weather
<1>5. /\ updated.humidity # city.humidity =>
            VALID(r.humidity) /\ updated.humidity.kind = city.humidity.kind
      /\ updated.pressure # city.pressure =>
            VALID(r.pressure) /\ updated.pressure.kind = city.pressure.kind
      /\ updated.temperature # city.temperature =>
            VALID(r.temperature) /\ updated.temperature.kind = city.temperature.kind
  BY <1>2, <1>3, SetterKeepsKind DEF City, PostWeatherRequest
<1> HIDE DEF updated, new
<1>6. /\ DOMAIN new = DOMAIN json
      /\ r.key \in DOMAIN json
      /\ new[r.key] = updated
      /\ \A key \in DOMAIN json \ {r.key} : new[key] = json[key]
  BY <1>2, <1>4
<1> QED BY <1>1, <1>5, <1>6 DEF IsPost, OnlyAsked, new

LEMMA CurrencyConfined ==
    ASSUME NEW json \in CurrencyJson \cup {NullJson}, NEW r \in Request,
           get_base_request(r.type) = "currency",
           handle_currency(json, r).json # json
    PROVE  IsPost(r) /\ OnlyAsked(json, handle_currency(json, r).json, r)
<1> DEFINE new == handle_currency(json, r).json
<1>1. /\ r.type = "post_currency" /\ has_member(json, r.key) /\ VALID(r.value)
      /\ new = [json EXCEPT ![r.key] = json_real_set(json[r.key], r.value)]
  BY DEF handle_currency, set_currency_exchange
<1>2. json \in [Coins -> Json] /\ r.key \in Coins /\ json[r.key] \in Json
  BY <1>1 DEF has_member, CurrencyJson
<1>3. r.value \in Int
  BY <1>1 DEF Request, GetRequest, PostWeatherRequest, PostCurrencyRequest
<1> HIDE DEF new
<1>4. /\ DOMAIN new = DOMAIN json
      /\ r.key \in DOMAIN json
      /\ new[r.key].kind = json[r.key].kind
      /\ \A key \in DOMAIN json \ {r.key} : new[key] = json[key]
  BY <1>1, <1>2, <1>3, SetterKeepsKind
<1> QED BY <1>1, <1>4 DEF IsPost, OnlyAsked, new

\* Documents change as UpdatesAreConfined says: never by a GET or by a request
\* of the other service, only in the step that executes a POST and answers it
\* Success, in the entry that it names and the fields that it gives a value.
THEOREM UpdatesConfined == Spec => UpdatesAreConfined
<1> DEFINE Confined ==
        \A s \in Services : store'[s] # store[s] /\ pc[s] # "load" =>
          \E c \in Clients :
             /\ IsPost(req[c])
             /\ get_base_request(req[c].type) = s
             /\ answer[c] = None /\ answer'[c] = Result("Success")
             /\ OnlyAsked(store[s], store'[s], req[c])
<1>1. IInv /\ StoreInv /\ [Next]_vars => [Confined]_vars
  <2> SUFFICES ASSUME TypeInv, FlowInv, TraceInv, [Next]_vars,
                      NEW s \in Services, store'[s] # store[s], pc[s] # "load"
               PROVE  \E c \in Clients :
                         /\ IsPost(req[c])
                         /\ get_base_request(req[c].type) = s
                         /\ answer[c] = None /\ answer'[c] = Result("Success")
                         /\ OnlyAsked(store[s], store'[s], req[c])
    BY DEF IInv, TypeInv, StoreInv
  <2>1. MicroHandle(s)
    <3>1. ASSUME NEW t \in Services, ServiceLoad(t) \/ MicroHandle(t) PROVE t = s
      BY <3>1 DEF ServiceLoad, MicroHandle, TypeInv, TypeOK, DataType
    <3>2. ~ServiceLoad(s)
      BY DEF ServiceLoad
    <3> QED BY <3>1, <3>2, StoreStep
  <2> DEFINE c == request[s]
             result == micro_handle_request(s, store[s], req[c])
  <2>2. /\ c \in Clients /\ req[c] \in Request /\ get_base_request(req[c].type) = s
        /\ answer[c] = None /\ answer'[c] = result.resp
        /\ store[s] \in Document(s) \cup {NullJson} /\ store'[s] = result.json
        /\ result.resp # Result("Success") => result.json = store[s]
    BY <2>1, AnswerFacts
  <2>3. answer'[c] = Result("Success") /\ result.json # store[s]
    BY <2>2
  <2>4. IsPost(req[c]) /\ OnlyAsked(store[s], result.json, req[c])
    <3>1. CASE s = "weather"
      <4>1. result = handle_weather(store[s], req[c])
        BY <2>2, <3>1 DEF micro_handle_request
      <4> QED BY <2>2, <2>3, <3>1, <4>1, WeatherConfined DEF Document
    <3>2. CASE s = "currency"
      <4>1. result = handle_currency(store[s], req[c])
        BY <2>2, <3>2 DEF micro_handle_request
      <4> QED BY <2>2, <2>3, <3>2, <4>1, CurrencyConfined DEF Document
    <3> QED BY <3>1, <3>2 DEF Services
  <2> QED BY <2>2, <2>3, <2>4
<1> QED BY <1>1, InvariantHolds, StoreInvariant, PTL DEF Spec, UpdatesAreConfined

-----------------------------------------------------------------------------
(* Connections *)

Elements(q) == {q[i] : i \in 1 .. Len(q)}

Distinct(q) == \A i, j \in 1 .. Len(q) : q[i] = q[j] => i = j

LEMMA AppendFacts ==
    ASSUME NEW S, NEW q \in Seq(S), NEW x \in S, Distinct(q), x \notin Elements(q)
    PROVE  /\ Distinct(Append(q, x)) /\ Elements(Append(q, x)) = Elements(q) \cup {x}
           /\ Append(q, x) # <<>>
<1> DEFINE r == Append(q, x)
           n == Len(q)
<1>1. /\ n \in Nat /\ Len(r) = n + 1 /\ r[n + 1] = x
      /\ \A i \in 1 .. n : r[i] = q[i] /\ q[i] # x
      /\ \A i \in 1 .. n + 1 : i \in 1 .. n \/ i = n + 1
  BY DEF Elements
<1>2. \A i, j \in 1 .. n : q[i] = q[j] => i = j
  BY DEF Distinct
<1>3. Elements(q) = {q[i] : i \in 1 .. n}
  BY DEF Elements
<1>4. Distinct(r) <=> \A i, j \in 1 .. Len(r) : r[i] = r[j] => i = j
  BY DEF Distinct
<1>5. Elements(r) = {r[i] : i \in 1 .. Len(r)}
  BY DEF Elements
<1>6. r # <<>>
  BY <1>1
<1> HIDE DEF r, n
<1>7. Distinct(r)
  BY <1>1, <1>2, <1>4
<1>8. Elements(r) = Elements(q) \cup {x}
  <2>1. n + 1 \in 1 .. n + 1 /\ \A i \in 1 .. n : i \in 1 .. n + 1
    BY <1>1
  <2> QED BY <1>1, <1>3, <1>5, <2>1
<1> QED BY <1>6, <1>7, <1>8 DEF r

LEMMA TailFacts ==
    ASSUME NEW S, NEW q \in Seq(S), q # <<>>, Distinct(q)
    PROVE  /\ Distinct(Tail(q)) /\ Elements(Tail(q)) = Elements(q) \ {Head(q)}
           /\ Head(q) \in Elements(q)
<1> DEFINE r == Tail(q)
           n == Len(q)
<1>1. /\ n \in Nat /\ n > 0 /\ Len(r) = n - 1 /\ Head(q) = q[1]
      /\ \A i \in 1 .. n - 1 : r[i] = q[i + 1] /\ i + 1 \in 2 .. n
      /\ \A i \in 1 .. n : i = 1 \/ (i - 1 \in 1 .. n - 1 /\ (i - 1) + 1 = i)
  OBVIOUS
<1>2. \A i, j \in 1 .. n : q[i] = q[j] => i = j
  BY DEF Distinct
<1>3. Elements(q) = {q[i] : i \in 1 .. n}
  BY DEF Elements
<1>4. Distinct(r) <=> \A i, j \in 1 .. Len(r) : r[i] = r[j] => i = j
  BY DEF Distinct
<1>5. Elements(r) = {r[i] : i \in 1 .. Len(r)}
  BY DEF Elements
<1> HIDE DEF r, n
<1>6. Distinct(r)
  <2> SUFFICES ASSUME NEW i \in 1 .. n - 1, NEW j \in 1 .. n - 1, r[i] = r[j] PROVE i = j
    BY <1>1, <1>4
  <2>1. i + 1 \in 1 .. n /\ j + 1 \in 1 .. n /\ q[i + 1] = q[j + 1]
    BY <1>1
  <2>2. i + 1 = j + 1
    BY <1>2, <2>1
  <2> QED BY <2>2
<1>7. Elements(r) = Elements(q) \ {q[1]}
  <2>1. ASSUME NEW x \in Elements(r) PROVE x \in Elements(q) \ {q[1]}
    <3>1. PICK i \in 1 .. n - 1 : x = q[i + 1]
      BY <1>1, <1>5, <2>1
    <3>2. i + 1 \in 1 .. n /\ 1 \in 1 .. n /\ i + 1 # 1
      BY <1>1
    <3> QED BY <1>2, <1>3, <3>1, <3>2
  <2>2. ASSUME NEW x \in Elements(q) \ {q[1]} PROVE x \in Elements(r)
    <3>1. PICK i \in 1 .. n : x = q[i]
      BY <1>3
    <3>2. i # 1
      BY <3>1
    <3>3. i - 1 \in 1 .. Len(r) /\ r[i - 1] = x
      BY <1>1, <3>1, <3>2
    <3> QED BY <1>5, <3>3
  <2> QED BY <2>1, <2>2
<1>8. q[1] \in Elements(q)
  BY <1>1, <1>3
<1> QED BY <1>1, <1>6, <1>7, <1>8 DEF r

\* A connection arrives at one server.
LEMMA ListenerFacts ==
    ASSUME NEW x \in Conns
    PROVE  /\ ListenerOf(x) \in Servers
           /\ \A p \in Servers : x \in ConnsOf(p) <=> ListenerOf(x) = p
BY PortalAssumption DEF Conns, ListenerOf, ConnsOf, Servers, Services, Portal

LEMMA ElementsQueued ==
    \A p \in Servers : Queued(p) = Elements(backlog[p]) /\ Queued(p)' = Elements(backlog'[p])
BY DEF Queued, Elements

\* What QueueInv and EndsInv say of one server and of one connection.
LEMMA QueueFacts ==
    ASSUME TypeInv, ConnInv, NEW p \in Servers
    PROVE  /\ backlog[p] \in Seq(Conns)
           /\ Distinct(backlog[p]) /\ Elements(backlog[p]) = Queued(p)
           /\ backlog[p] # <<>> => Listening(p)
           /\ cur[p] # None => Handling(p)
           /\ \A x \in Queued(p) : x \in Conns /\ ListenerOf(x) = p /\ serverEnd[x] = "queued"
           /\ cur[p] # None => /\ cur[p] \in Conns /\ ListenerOf(cur[p]) = p
                               /\ serverEnd[cur[p]] = "open"
<1>1. \A x \in Queued(p) : x \in Conns /\ ListenerOf(x) = p
  BY QueuedFacts, ProcFacts, ListenerFacts
<1>2. cur[p] # None => cur[p] \in Conns /\ ListenerOf(cur[p]) = p
  BY ProcFacts, ListenerFacts DEF TypeInv, TypeOK, ProcType
<1>3. backlog[p] \in Seq(Conns)
  BY DEF TypeInv, TypeOK, NetType
<1> QED BY <1>1, <1>2, <1>3 DEF ConnInv, QueueInv, EndsInv, Distinct, Elements, Queued

\* Servers stay in a connection and hold on to their sockets.
GoOn ==
    /\ \A p \in Servers : /\ Handling(p) => Handling(p)'
                          /\ pc[p] \notin Down => pc'[p] \notin Down
                          /\ pc[p] \notin Ended => pc'[p] \notin Ended
    /\ \A c \in Clients : pc'[c] = "connect" => pc[c] = "connect"

LEMMA StillListening ==
    ASSUME GoOn, NEW p \in Servers, Listening(p)
    PROVE  Listening(p)'
BY DEF GoOn, Listening, ListenHolders

LEMMA QuietConn ==
    ASSUME ConnInv, GoOn, UNCHANGED <<cur, backlog, serverEnd>>
    PROVE  ConnInv'
<1>1. QueueInv'
  BY StillListening DEF ConnInv, QueueInv, GoOn
<1>2. EndsInv'
  BY DEF ConnInv, EndsInv, Queued, GoOn
<1> QED BY <1>1, <1>2 DEF ConnInv

LEMMA AcceptConn ==
    ASSUME TypeInv, ConnInv, NEW p \in Servers, Accept(p)
    PROVE  ConnInv'
<1> DEFINE x == Head(backlog[p])
<1>1. /\ pc[p] = "accept" /\ backlog[p] # <<>>
      /\ cur' = [cur EXCEPT ![p] = x]
      /\ serverEnd' = [serverEnd EXCEPT ![x] = "open"]
      /\ backlog' = [backlog EXCEPT ![p] = Tail(@)]
      /\ pc' = [pc EXCEPT ![p] = "recv"]
  BY DEF Accept, Goto
<1>2. GoOn
  BY <1>1, ProcFacts
  DEF GoOn, Handling, Down, Ended, TypeInv, TypeOK, ProcType
<1>3. /\ Distinct(Tail(backlog[p])) /\ x \in Queued(p)
      /\ Elements(Tail(backlog[p])) = Queued(p) \ {x}
  BY <1>1, QueueFacts, TailFacts
<1>4. x \in Conns /\ ListenerOf(x) = p /\ serverEnd[x] = "queued" /\ cur[p] = None
  BY <1>1, <1>3, QueueFacts DEF Handling
<1> HIDE DEF x
<1>5. /\ \A q \in Servers : /\ cur'[q] = IF q = p THEN x ELSE cur[q]
                            /\ backlog'[q] = IF q = p THEN Tail(backlog[p]) ELSE backlog[q]
      /\ \A y \in Conns : serverEnd'[y] = IF y = x THEN "open" ELSE serverEnd[y]
  BY <1>1 DEF TypeInv, TypeOK, ProcType, NetType
<1>6. Queued(p)' = Queued(p) \ {x} /\ \A q \in Servers : q # p => Queued(q)' = Queued(q)
  BY <1>3, <1>5, ElementsQueued
<1>7. QueueInv'
  <2>1. Listening(p) /\ Handling(p)'
    BY <1>1, QueueFacts, ProcFacts DEF Handling, TypeInv, TypeOK, ProcType
  <2>2. \A q \in Servers : backlog'[q] # <<>> => Listening(q)
    BY <1>5, <2>1, QueueFacts
  <2>3. \A q \in Servers : Distinct(backlog'[q])
    BY <1>3, <1>5, QueueFacts
  <2>4. \A q \in Servers : cur'[q] # None => Handling(q)'
    BY <1>2, <1>5, <2>1, QueueFacts DEF GoOn
  <2> QED BY <1>2, <2>2, <2>3, <2>4, StillListening DEF QueueInv, Distinct
<1>8. EndsInv'
  <2>1. ASSUME NEW y \in Conns
        PROVE  /\ serverEnd'[y] = "queued" <=> y \in Queued(ListenerOf(y))'
               /\ serverEnd'[y] = "open" <=> cur'[ListenerOf(y)] = y
    <3>1. /\ serverEnd[y] = "queued" <=> y \in Queued(ListenerOf(y))
          /\ serverEnd[y] = "open" <=> cur[ListenerOf(y)] = y
      BY DEF ConnInv, EndsInv
    <3>2. CASE y = x
      BY <1>4, <1>5, <1>6, <3>2
    <3>3. CASE y # x /\ ListenerOf(y) = p
      <4>1. y # None
        BY NoneFacts DEF Conns
      <4> QED BY <1>4, <1>5, <1>6, <3>1, <3>3, <4>1
    <3>4. CASE y # x /\ ListenerOf(y) # p
      BY <1>4, <1>5, <1>6, <3>1, <3>4, ListenerFacts
    <3> QED BY <3>2, <3>3, <3>4
  <2>2. \A c \in Clients : pc'[c] = "connect" => serverEnd'[c] = "none"
    BY <1>2, <1>4, <1>5, ProcFacts DEF GoOn, ConnInv, EndsInv
  <2> QED BY <2>1, <2>2 DEF EndsInv, ListenerOf
<1> QED BY <1>7, <1>8 DEF ConnInv

LEMMA CloseConn ==
    ASSUME TypeInv, ConnInv, NEW p \in Servers, DropConnection(p) \/ Reply(p)
    PROVE  ConnInv'
<1> DEFINE x == cur[p]
<1>1. /\ pc[p] \in {"recv", "reply"}
      /\ cur' = [cur EXCEPT ![p] = None]
      /\ serverEnd' = [serverEnd EXCEPT ![x] = "fin"]
      /\ pc' = [pc EXCEPT ![p] = "loop"]
      /\ UNCHANGED backlog
  BY DEF DropConnection, Reply, Goto
<1>2. /\ \A q \in Servers : /\ pc'[q] = IF q = p THEN "loop" ELSE pc[q]
                            /\ cur'[q] = IF q = p THEN None ELSE cur[q]
      /\ \A y \in Conns : serverEnd'[y] = IF y = x THEN "fin" ELSE serverEnd[y]
      /\ \A c \in Clients : pc'[c] = pc[c]
  BY <1>1, ProcFacts DEF TypeInv, TypeOK, ProcType, NetType
<1>3. x \in Conns /\ ListenerOf(x) = p /\ serverEnd[x] = "open" /\ x # None
  <2>1. x # None
    <3>1. cur[p] \in Conns
      BY <1>1, ProcFacts DEF TypeInv, ControlInv
    <3> QED BY <3>1, NoneFacts DEF Conns
  <2> QED BY <2>1, QueueFacts
<1>4. QueueInv'
  <2>1. \A q \in Servers : Listening(q) => Listening(q)'
    BY <1>1, <1>2 DEF Listening, ListenHolders, Down, Ended
  <2> QED BY <1>1, <1>2, <2>1 DEF ConnInv, QueueInv, Handling
<1> HIDE DEF x
<1>5. EndsInv'
  <2>1. \A y \in Conns : y # None /\ ListenerOf(y) \in Servers
    BY NoneFacts, ListenerFacts DEF Conns
  <2>2. \A q \in Servers : Queued(q)' = Queued(q)
    BY <1>1 DEF Queued
  <2>3. ASSUME NEW y \in Conns
        PROVE  /\ serverEnd'[y] = "queued" <=> y \in Queued(ListenerOf(y))'
               /\ serverEnd'[y] = "open" <=> cur'[ListenerOf(y)] = y
    <3>1. /\ serverEnd[y] = "queued" <=> y \in Queued(ListenerOf(y))
          /\ serverEnd[y] = "open" <=> cur[ListenerOf(y)] = y
      BY DEF ConnInv, EndsInv
    <3>2. CASE y = x
      BY <1>2, <1>3, <2>1, <2>2, <3>1, <3>2
    <3>3. CASE y # x
      BY <1>2, <2>1, <2>2, <3>1, <3>3 DEF x
    <3> QED BY <3>2, <3>3
  <2>4. \A c \in Clients : pc'[c] = "connect" => serverEnd'[c] = "none"
    BY <1>2, <1>3, ProcFacts DEF ConnInv, EndsInv
  <2> QED BY <2>3, <2>4 DEF EndsInv, ListenerOf
<1> QED BY <1>4, <1>5 DEF ConnInv

\* A connection is opened only when the one of that name before is over.
LEMMA ConnectConn ==
    ASSUME TypeInv, FlowInv, ConnInv, NEW k \in Callers, Connect(k)
    PROVE  ConnInv'
<1>0. PICK x \in Conns : x = Target(k) /\ ListenerOf(x) \in Servers
  BY CallerFacts, ListenerFacts, ProcFacts DEF Callers, Target, Connect
<1>p. PICK p \in Servers : p = ListenerOf(x)
  BY <1>0
<1>1. /\ pc[k] = "connect" /\ Listening(p)
      /\ backlog' = [backlog EXCEPT ![p] = Append(@, x)]
      /\ serverEnd' = [serverEnd EXCEPT ![x] = "queued"]
      /\ pc' = [pc EXCEPT ![k] = "send"]
      /\ UNCHANGED cur
  BY <1>0, <1>p DEF Connect, Goto
<1>2. x \in Conns /\ p \in Servers /\ p = ListenerOf(x)
  BY <1>p
<1>3. ~Alive(x)
  <2>1. CASE k \in Clients
    <3>1. x = k /\ serverEnd[k] = "none"
      BY <1>0, <1>1, <2>1 DEF Target, ConnInv, EndsInv
    <3> QED BY <3>1 DEF Alive
  <2>2. CASE k = Portal
    <3>1. x \in Services /\ ~PortalEnded /\ ~PortalCalling
      BY <1>0, <1>1, <2>2, CallerFacts DEF PortalEnded, PortalCalling, Ended
    <3> QED BY <3>1 DEF FlowInv, CallInv
  <2> QED BY <2>1, <2>2 DEF Callers
<1>4. GoOn
  BY <1>1, ProcFacts, PortalAssumption
  DEF GoOn, Handling, Down, Ended, Callers, TypeInv, TypeOK, ProcType, Servers
<1>5. x \notin Queued(p) /\ cur[p] # x
  BY <1>2, <1>3 DEF ConnInv, EndsInv, Alive
<1>6. /\ Distinct(Append(backlog[p], x))
      /\ Elements(Append(backlog[p], x)) = Queued(p) \cup {x}
  BY <1>2, <1>5, QueueFacts, AppendFacts
<1>7. /\ \A q \in Servers :
            backlog'[q] = IF q = p THEN Append(backlog[p], x) ELSE backlog[q]
      /\ \A y \in Conns : serverEnd'[y] = IF y = x THEN "queued" ELSE serverEnd[y]
  BY <1>1 DEF TypeInv, TypeOK, NetType
<1>8. Queued(p)' = Queued(p) \cup {x} /\ \A q \in Servers : q # p => Queued(q)' = Queued(q)
  BY <1>2, <1>6, <1>7, ElementsQueued
<1>9. QueueInv'
  <2>1. \A q \in Servers : backlog'[q] # <<>> => Listening(q)
    BY <1>1, <1>7, QueueFacts
  <2>2. \A q \in Servers : Distinct(backlog'[q])
    BY <1>6, <1>7, QueueFacts
  <2>3. \A q \in Servers : cur'[q] # None => Handling(q)'
    BY <1>1, <1>4, QueueFacts DEF GoOn
  <2> QED BY <1>4, <2>1, <2>2, <2>3, StillListening DEF QueueInv, Distinct
<1>10. EndsInv'
  <2>1. ASSUME NEW y \in Conns
        PROVE  /\ serverEnd'[y] = "queued" <=> y \in Queued(ListenerOf(y))'
               /\ serverEnd'[y] = "open" <=> cur'[ListenerOf(y)] = y
    <3>1. /\ serverEnd[y] = "queued" <=> y \in Queued(ListenerOf(y))
          /\ serverEnd[y] = "open" <=> cur[ListenerOf(y)] = y
      BY DEF ConnInv, EndsInv
    <3>2. CASE y = x
      BY <1>1, <1>2, <1>5, <1>7, <1>8, <3>2
    <3>3. CASE y # x
      <4>1. y \in Queued(ListenerOf(y))' <=> y \in Queued(ListenerOf(y))
        BY <1>8, <3>3, ListenerFacts
      <4> QED BY <1>1, <1>7, <3>1, <3>3, <4>1
    <3> QED BY <3>2, <3>3
  <2>2. ASSUME NEW c \in Clients, pc'[c] = "connect" PROVE serverEnd'[c] = "none"
    <3>1. c # k /\ pc[c] = "connect"
      BY <1>1, <2>2, ProcFacts DEF TypeInv, TypeOK, ProcType, Callers
    <3>2. c # x
      BY <1>0, <1>1, <3>1, CallerFacts, ProcFacts, PortalAssumption
      DEF Target, Callers, Servers
    <3> QED BY <1>7, <3>1, <3>2, ProcFacts DEF ConnInv, EndsInv
  <2> QED BY <2>1, <2>2 DEF EndsInv, ListenerOf
<1> QED BY <1>9, <1>10 DEF ConnInv

\* The kernel resets a queue when its last holder ends, and only then.
LEMMA EndsConn ==
    ASSUME TypeInv, ConnInv, NEW p \in Servers, NEW label \in {"exited", "dead"}, Ends(p, label)
    PROVE  ConnInv'
<1> DEFINE gone == {q \in Servers : ListenHolders(q) = {p}}
           reset == UNION {Queued(q) : q \in gone}
<1>1. /\ pc' = [pc EXCEPT ![p] = label]
      /\ backlog' = [q \in Servers |-> IF q \in gone THEN <<>> ELSE backlog[q]]
      /\ cur' = [cur EXCEPT ![p] = None]
      /\ \A y \in Conns :
            /\ y \in reset => serverEnd'[y] = "rst"
            /\ y \notin reset /\ y = cur[p] => serverEnd'[y] \in {"fin", "rst"}
            /\ y \notin reset /\ y # cur[p] => serverEnd'[y] = serverEnd[y]
  BY DEF Ends
<1>2. /\ \A q \in Servers : /\ q # p => pc'[q] = pc[q] /\ cur'[q] = cur[q]
                            /\ backlog'[q] = IF q \in gone THEN <<>> ELSE backlog[q]
      /\ cur'[p] = None
      /\ \A c \in Clients : pc'[c] = pc[c]
  BY <1>1, ProcFacts DEF TypeInv, TypeOK, ProcType
<1>3. \A y \in Conns : y \in reset <=> ListenerOf(y) \in gone /\ y \in Queued(ListenerOf(y))
  BY QueueFacts, ListenerFacts
<1>4. ASSUME NEW q \in Servers, q \notin gone, Listening(q) PROVE Listening(q)'
  <2>1. PICK h \in ListenHolders(q) : h # p
    BY <1>4 DEF Listening
  <2>2. h \in Servers /\ pc'[h] = pc[h]
    BY <1>2, <2>1 DEF ListenHolders
  <2> QED BY <2>1, <2>2 DEF Listening, ListenHolders
<1> HIDE DEF gone, reset
<1>5. QueueInv'
  <2>1. ASSUME NEW q \in Servers PROVE backlog'[q] # <<>> => Listening(q)'
    BY <1>2, <1>4, QueueFacts
  <2>2. ASSUME NEW q \in Servers PROVE Distinct(backlog'[q])
    BY <1>2, QueueFacts DEF Distinct
  <2>3. ASSUME NEW q \in Servers PROVE cur'[q] # None => Handling(q)'
    BY <1>2, QueueFacts DEF Handling
  <2> QED BY <2>1, <2>2, <2>3 DEF QueueInv, Distinct
<1>6. EndsInv'
  <2>1. ASSUME NEW y \in Conns
        PROVE  /\ serverEnd'[y] = "queued" <=> y \in Queued(ListenerOf(y))'
               /\ serverEnd'[y] = "open" <=> cur'[ListenerOf(y)] = y
    <3>0. PICK l \in Servers : l = ListenerOf(y)
      BY ListenerFacts
    <3>1. /\ serverEnd[y] = "queued" <=> y \in Queued(l)
          /\ serverEnd[y] = "open" <=> cur[l] = y
          /\ l \in Servers /\ y # None
          /\ y \in reset <=> l \in gone /\ y \in Queued(l)
      BY <1>3, <3>0, NoneFacts DEF ConnInv, EndsInv, Conns
    <3>2. Queued(l)' = IF l \in gone THEN {} ELSE Queued(l)
      BY <1>2, <3>1 DEF Queued
    <3>3. y = cur[p] => l = p
      BY <3>0, <3>1, QueueFacts
    <3> SUFFICES /\ serverEnd'[y] = "queued" <=> y \in Queued(l)'
                 /\ serverEnd'[y] = "open" <=> cur'[l] = y
      BY <3>0 DEF ListenerOf
    <3>4. CASE y \in reset
      BY <1>1, <1>2, <3>1, <3>2, <3>3, <3>4
    <3>5. CASE y \notin reset /\ y = cur[p]
      BY <1>1, <1>2, <3>1, <3>2, <3>3, <3>5
    <3>6. CASE y \notin reset /\ y # cur[p]
      BY <1>1, <1>2, <3>1, <3>2, <3>6
    <3> QED BY <3>4, <3>5, <3>6
  <2>2. ASSUME NEW c \in Clients, pc'[c] = "connect" PROVE serverEnd'[c] = "none"
    <3>1. c \in Conns /\ serverEnd[c] = "none"
      BY <1>2, <2>2, ProcFacts DEF ConnInv, EndsInv
    <3>2. c \notin reset /\ c # cur[p]
      BY <1>3, <3>1, QueueFacts, NoneFacts DEF ConnInv, EndsInv
    <3> QED BY <1>1, <3>1, <3>2
  <2> QED BY <2>1, <2>2 DEF EndsInv, ListenerOf
<1> QED BY <1>5, <1>6 DEF ConnInv

\* The other steps open and close nothing.
LEMMA QuietActions ==
    ASSUME TypeInv, ConnInv,
           \/ \E p \in Servers : Boot(p) \/ LoopCheck(p) \/ AcceptFails(p) \/ ReadRequest(p)
                                 \/ SigintCaught(p)
           \/ \E s \in Services : ServiceLoad(s) \/ MicroHandle(s) \/ SaveOpen(s) \/ SaveWrite(s)
    PROVE  ConnInv'
<1>1. UNCHANGED <<cur, backlog, serverEnd>>
  BY DEF Boot, LoopCheck, AcceptFails, ReadRequest, SigintCaught, ServiceLoad, MicroHandle,
         SaveOpen, SaveWrite, netVars
<1>2. ASSUME NEW p \in Servers, NEW label, pc' = [pc EXCEPT ![p] = label],
             Handling(p) => label \in {"connect", "handle", "reply", "spin", "await_spin", pc[p]},
             label \in Down => label = pc[p]
      PROVE  GoOn
  BY <1>2, ProcFacts
  DEF GoOn, Handling, Down, Ended, TypeInv, TypeOK, ProcType
<1>3. ASSUME NEW p \in Servers, Boot(p) \/ LoopCheck(p) \/ AcceptFails(p) \/ ReadRequest(p)
      PROVE  GoOn
  BY <1>2, <1>3, ProcFacts
  DEF Boot, LoopCheck, AcceptFails, ReadRequest, Goto, Handling, Down, Servers
<1>4. ASSUME NEW p \in Servers, SigintCaught(p) PROVE GoOn
  BY <1>2, <1>4 DEF SigintCaught, Interrupted, Goto, Handling, Down
<1>5. ASSUME NEW s \in Services, ServiceLoad(s) \/ MicroHandle(s) \/ SaveOpen(s) \/ SaveWrite(s)
      PROVE  GoOn
  BY <1>2, <1>5, ProcFacts
  DEF ServiceLoad, MicroHandle, SaveOpen, SaveWrite, Goto, Handling, Down
<1> QED BY <1>1, <1>3, <1>4, <1>5, QuietConn

LEMMA QuietCalls ==
    ASSUME TypeInv, ConnInv, NEW k \in Callers,
           \/ ConnectFails(k) \/ Send(k) \/ SendFails(k) \/ Receive(k)
           \/ k = Portal /\ SpinEnds
    PROVE  ConnInv'
<1>1. UNCHANGED <<cur, backlog, serverEnd>>
  BY DEF ConnectFails, Send, SendFails, Receive, SpinEnds, netVars
<1>2. PICK label \in {"await", "done", "reply"} :
         /\ pc' = [pc EXCEPT ![k] = label]
         /\ k = Portal => label # "done"
         /\ pc[k] \in {"connect", "send", "await", "await_spin"}
  BY ProcFacts DEF ConnectFails, Send, SendFails, Receive, SpinEnds, CallEnds, Goto
<1>3. GoOn
  BY <1>2, ProcFacts, PortalAssumption
  DEF GoOn, Handling, Down, Ended, Callers, TypeInv, TypeOK, ProcType, Servers
<1> QED BY <1>1, <1>3, QuietConn

LEMMA ForkConn ==
    ASSUME TypeInv, ForkInv, ConnInv, NEW s \in Services, Fork(s)
    PROVE  ConnInv'
<1>1. pc[s] = "unborn" /\ pc[Portal] \in {"fork_weather", "fork_currency"} /\ s # Portal
  BY ProcFacts DEF Fork, ForkInv, ForkLabel
<1>2. /\ \A p \in Servers :
            pc'[p] = IF p = Portal THEN (IF s = "weather" THEN "fork_currency" ELSE "loop")
                     ELSE IF p = s THEN "boot" ELSE pc[p]
      /\ \A c \in Clients : pc'[c] = pc[c]
      /\ UNCHANGED <<cur, backlog, serverEnd>>
  BY <1>1, ProcFacts DEF Fork, TypeInv, TypeOK, ProcType, netVars
<1>3. GoOn
  BY <1>1, <1>2 DEF GoOn, Handling, Down, Ended
<1> QED BY <1>2, <1>3, QuietConn

LEMMA ConnStep == TypeInv /\ FlowInv /\ ForkInv /\ ConnInv /\ [Next]_vars => ConnInv'
<1> SUFFICES ASSUME TypeInv, FlowInv, ForkInv, ConnInv, [Next]_vars PROVE ConnInv'
  OBVIOUS
<1>1. ASSUME NEW p \in Servers, Serve(p) PROVE ConnInv'
  BY <1>1, QuietActions, AcceptConn, CloseConn DEF Serve
<1>2. ASSUME NEW k \in Callers, Call(k) PROVE ConnInv'
  BY <1>2, QuietCalls, ConnectConn DEF Call
<1>3. CASE PortalStep
  BY <1>1, <1>2, <1>3, ProcFacts, ForkConn, QuietCalls, EndsConn
  DEF PortalStep, PortalExit, Callers
<1>4. CASE \E s \in Services : ServiceStep(s)
  BY <1>1, <1>4, ProcFacts, QuietActions, EndsConn DEF ServiceStep, WildCrash, ServiceExit
<1>5. CASE \E c \in Clients : Call(c)
  BY <1>2, <1>5 DEF Callers
<1>6. CASE Environment
  <2>1. ASSUME NEW c \in Clients, ClientCrash(c) PROVE ConnInv'
    <3>1. GoOn
      BY <2>1, ProcFacts, PortalAssumption
      DEF ClientCrash, Goto, GoOn, Handling, TypeInv, TypeOK, ProcType
    <3> QED BY <2>1, <3>1, QuietConn DEF ClientCrash
  <2> QED BY <1>6, <2>1, ProcFacts, QuietActions, EndsConn
      DEF Environment, BindFails, ForkFails, SigintKills, Crash
<1>7. CASE UNCHANGED vars
  <2>1. GoOn
    BY <1>7 DEF vars, procVars, GoOn, Handling
  <2> QED BY <1>7, <2>1, QuietConn DEF vars, procVars, netVars
<1> QED BY <1>3, <1>4, <1>5, <1>6, <1>7 DEF Next, Idle

LEMMA ConnInit == Init => ConnInv
<1> SUFFICES ASSUME Init PROVE ConnInv
  OBVIOUS
<1>1. /\ \A p \in Servers : cur[p] = None /\ backlog[p] = <<>> /\ Queued(p) = {}
      /\ \A x \in Conns : serverEnd[x] = "none" /\ x # None /\ ListenerOf(x) \in Servers
  BY NoneFacts, ListenerFacts DEF Init, Queued, Conns
<1> QED BY <1>1, ProcFacts DEF ConnInv, QueueInv, EndsInv

\* Sockets and servers agree on each connection, and queues are on sockets that
\* somebody holds: see ConnInv.
THEOREM ConnectionInvariant == Spec => []ConnInv
<1>1. IInv /\ StoreInv /\ ConnInv /\ [Next]_vars => ConnInv'
  BY ConnStep DEF IInv, StoreInv, TypeInv
<1> QED BY <1>1, ConnInit, InvariantHolds, StoreInvariant, PTL DEF Spec

\* No caller waits for a server that has dropped its connection without closing
\* it, or that has ended: see ConnectionsAreHeld.
THEOREM ConnectionsHeld == Spec => []ConnectionsAreHeld
<1>1. IInv /\ ConnInv => ConnectionsAreHeld
  <2> SUFFICES ASSUME TypeInv, ConnInv, NEW x \in Conns
               PROVE  LET p == ListenerOf(x) IN
                      /\ serverEnd[x] = "queued" => x \in Queued(p) /\ Listening(p)
                      /\ serverEnd[x] = "open" => cur[p] = x /\ Running(p)
    BY DEF IInv, TypeInv, ConnectionsAreHeld
  <2> DEFINE p == ListenerOf(x)
  <2>1. p \in Servers /\ x # None
    BY ListenerFacts, NoneFacts DEF Conns
  <2>2. ASSUME serverEnd[x] = "queued" PROVE x \in Queued(p) /\ Listening(p)
    <3>1. x \in Queued(p)
      BY <2>2 DEF ConnInv, EndsInv
    <3>2. backlog[p] # <<>>
      BY <3>1 DEF Queued
    <3> QED BY <2>1, <3>1, <3>2, QueueFacts
  <2>3. ASSUME serverEnd[x] = "open" PROVE cur[p] = x /\ Running(p)
    <3>1. cur[p] = x
      BY <2>3 DEF ConnInv, EndsInv
    <3> QED BY <2>1, <3>1, QueueFacts DEF Handling, Running, Ended
  <2> QED BY <2>2, <2>3
<1> QED BY <1>1, InvariantHolds, ConnectionInvariant, PTL

-----------------------------------------------------------------------------
(* The refinement of AtomicPortal *)

\* Both modules read the microservices from the same module.
LEMMA SameServices ==
    /\ Atomic!Services = Services
    /\ Atomic!ZeroResponse = ZeroResponse
    /\ \A s \in Services : Atomic!Document(s) = Document(s)
    /\ \A c \in Clients : Atomic!ServiceOf(c) = get_base_request(req[c].type)
BY DEF Atomic!Services, Services, Atomic!ZeroResponse, ZeroResponse, Atomic!ServiceOf,
       Atomic!get_base_request, get_base_request, Atomic!Document, Document,
       Atomic!WeatherJson, WeatherJson, Atomic!CurrencyJson, CurrencyJson,
       Atomic!City, City, Atomic!Json, Json

LEMMA SameHandler ==
    ASSUME NEW s \in Services, NEW json \in Document(s) \cup {NullJson}, NEW r \in Request
    PROVE  Atomic!micro_handle_request(s, json, r) = micro_handle_request(s, json, r)
BY DEF Atomic!micro_handle_request, micro_handle_request,
       Atomic!get_base_request, get_base_request, Atomic!ZeroResponse, ZeroResponse,
       Atomic!handle_weather, handle_weather, Atomic!handle_currency, handle_currency,
       Atomic!has_member, has_member, Atomic!Result, Result,
       Atomic!get_city_weather, get_city_weather, Atomic!set_city_weather, set_city_weather,
       Atomic!get_currency_exchange, get_currency_exchange,
       Atomic!set_currency_exchange, set_currency_exchange,
       Atomic!json_integer_value, json_integer_value, Atomic!json_real_value, json_real_value,
       Atomic!json_integer_set, json_integer_set, Atomic!json_real_set, json_real_set,
       Atomic!truncate, truncate, Atomic!VALID, VALID, Atomic!INVALID_VALUE, INVALID_VALUE

LEMMA LoadRefines ==
    ASSUME TypeInv, TraceInv, NEW s \in Services, ServiceLoad(s)
    PROVE  Atomic!Load(s)
<1>1. \A c \in Clients : get_base_request(req[c].type) = s => answer[c] = None
  BY DEF ServiceLoad, TraceInv
<1>2. PICK json \in Document(s) \cup {NullJson, Wild} : store' = [store EXCEPT ![s] = json]
  BY DEF ServiceLoad, TypeInv, TypeOK, DataType
<1>3. store'[s] = json
  BY <1>2 DEF TypeInv, TypeOK, DataType
<1>4. UNCHANGED <<req, answer, outcome>>
  BY DEF ServiceLoad, clientVars, history
<1> QED BY <1>1, <1>2, <1>3, <1>4, SameServices DEF Atomic!Load

LEMMA ExecuteRefines ==
    ASSUME TypeInv, FlowInv, TraceInv, NEW s \in Services, MicroHandle(s)
    PROVE  \E c \in Clients : Atomic!Execute(c)
<1> DEFINE c == request[s]
           result == micro_handle_request(s, store[s], req[c])
<1>1. /\ c \in Clients /\ get_base_request(req[c].type) = s
      /\ Fresh(c) /\ store[s] \in Document(s) \cup {NullJson}
      /\ store' = [store EXCEPT ![s] = result.json]
      /\ answer' = [answer EXCEPT ![c] = result.resp]
      /\ UNCHANGED <<req, outcome>>
  BY ExecutionFacts
<1>2. answer[c] = None /\ outcome[c] \in {None, Failed}
  BY <1>1 DEF Fresh, TraceInv, TypeInv, TypeOK, ClientType
<1>3. store[s] # Wild
  BY DEF MicroHandle
<1>4. Atomic!ServiceOf(c) = s
  BY <1>1, SameServices
<1>5. Atomic!micro_handle_request(s, store[s], req[c]) = result
  <2>1. req[c] \in Request
    BY <1>1, ProcFacts DEF TypeInv, TypeOK, ClientType
  <2> QED BY <1>1, <2>1, SameHandler
<1> HIDE DEF c, result
<1>6. Atomic!Execute(c)
  BY <1>1, <1>2, <1>3, <1>4, <1>5 DEF Atomic!Execute
<1> QED BY <1>1, <1>6

LEMMA FinishRefines ==
    ASSUME TypeInv, FlowInv, TraceInv, AnswerIntegrity', [Next]_vars, outcome' # outcome
    PROVE  \E c \in Clients : Atomic!Finish(c)
<1>1. PICK c \in Clients, r \in Response \cup {Failed} :
         /\ pc[c] \in {"connect", "send", "await"}
         /\ outcome' = [outcome EXCEPT ![c] = r]
         /\ UNCHANGED <<store, req, answer>>
  BY OutcomeStep DEF history
<1>2. outcome[c] = None /\ outcome'[c] = r
  BY <1>1 DEF TraceInv, TypeInv, TypeOK, ClientType
<1>3. r \in {answer[c], ZeroResponse, Failed} \ {None}
  BY <1>1, <1>2, PortalAssumption DEF AnswerIntegrity
<1>4. Atomic!Finish(c)
  BY <1>1, <1>2, <1>3, SameServices DEF Atomic!Finish
<1> QED BY <1>4

LEMMA StepRefines ==
    IInv /\ AnswerIntegrity' /\ StoreInv /\ [Next]_vars => [Atomic!Next]_(Atomic!vars)
<1> SUFFICES ASSUME TypeInv, FlowInv, AnswerIntegrity', TraceInv, [Next]_vars
             PROVE  [Atomic!Next]_(Atomic!vars)
  BY DEF IInv, TypeInv, StoreInv
<1>1. CASE outcome' # outcome
  BY <1>1, FinishRefines DEF Atomic!Next
<1>2. CASE outcome' = outcome
  <2>1. CASE UNCHANGED <<store, history>>
    BY <1>2, <2>1, StoreStep DEF Atomic!vars, history
  <2>2. CASE \E s \in Services : ServiceLoad(s)
    BY <2>2, LoadRefines, SameServices DEF Atomic!Next
  <2>3. CASE \E s \in Services : MicroHandle(s)
    BY <2>3, ExecuteRefines DEF Atomic!Next
  <2> QED BY <2>1, <2>2, <2>3, StoreStep
<1> QED BY <1>1, <1>2

LEMMA InitRefines == Init => Atomic!Init
BY SameServices DEF Init, Atomic!Init

\* The processes, sockets and signals of the program implement one atomic
\* store: whatever happens, its clients see no more than AtomicPortal allows.
THEOREM Refinement == Spec => ImplementsAtomic
<1>1. IInv => AnswerIntegrity
  BY DEF IInv, FlowInv
<1> QED BY <1>1, InitRefines, StepRefines, InvariantHolds, StoreInvariant, PTL
        DEF Spec, ImplementsAtomic, Atomic!Spec

=============================================================================
