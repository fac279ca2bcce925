---------------------------- MODULE AnswerProofs ----------------------------
(***************************************************************************)
(* The two main safety properties of NewsPortal, for every instance: the   *)
(* inductive step of FlowInv, action by action, and what follows from it.  *)
(***************************************************************************)
EXTENDS NewsPortalProofs

\* FlowInv does not depend on the flags, the documents and the files.
LEMMA UnseenStep ==
    ASSUME FlowInv, UNCHANGED <<pc, cur, request, resp, netVars, clientVars, history>>
    PROVE  FlowInv'
BY DEF FlowInv, UnreadInv, BusyInv, CallInv, ServeInv, LiveInv, StartInv, AnswerInv,
       AnswerIntegrity, netVars, clientVars, history, Sent, PortalBusy, PortalCalling,
       PortalAwaits, PortalEnded, ServiceBusy, Live, Fresh, Alive, Target

\* Steps of a server between connections, as far as FlowInv can see them.
Calm == {"boot", "load", "loop", "accept", "finish", "save", "stop"}

LEMMA CalmStep ==
    ASSUME TypeInv, FlowInv, NEW p \in Servers, NEW label \in Calm,
           pc[p] \in Calm,
           p = Portal => label # "boot",
           pc' = [pc EXCEPT ![p] = label],
           UNCHANGED <<cur, request, resp, netVars, clientVars, history>>
    PROVE  FlowInv'
<1> USE ProcFacts DEF TypeInv, TypeOK, ProcType, FlowInv, Calm, netVars, clientVars, history,
        Ended, Sent, PortalBusy, PortalCalling, PortalAwaits, PortalEnded, ServiceBusy, Live, Fresh, Alive, Target
<1>1. UnreadInv' /\ BusyInv'
  BY DEF UnreadInv, BusyInv
<1>2. CallInv' /\ ServeInv'
  BY DEF CallInv, ServeInv
<1>3. LiveInv' /\ StartInv'
  BY DEF LiveInv, StartInv
<1>4. AnswerInv' /\ AnswerIntegrity'
  BY DEF AnswerInv, AnswerIntegrity
<1> QED BY <1>1, <1>2, <1>3, <1>4

LEMMA CalmActions ==
    ASSUME TypeInv, FlowInv, NEW p \in Servers,
           \/ p # Portal /\ Boot(p)
           \/ LoopCheck(p) \/ AcceptFails(p)
           \/ p \in Services /\ (ServiceLoad(p) \/ SaveOpen(p) \/ SaveWrite(p))
    PROVE  FlowInv'
BY CalmStep, ProcFacts
DEF Calm, Goto, Boot, LoopCheck, AcceptFails, ServiceLoad, SaveOpen, SaveWrite, Servers

\* The portal starts up: it opens its socket and forks its services.
LEMMA StartFlow ==
    ASSUME TypeInv, FlowInv, Boot(Portal) \/ \E s \in Services : Fork(s)
    PROVE  FlowInv'
<1> USE ProcFacts DEF TypeInv, TypeOK, ProcType, FlowInv, netVars, clientVars, history,
        Ended, Sent, PortalBusy, PortalCalling, PortalAwaits, PortalEnded, ServiceBusy, Live, Fresh, Alive, Target
<1>1. CASE Boot(Portal)
  <2>1. UnreadInv' /\ BusyInv'
    BY <1>1 DEF Boot, Goto, UnreadInv, BusyInv
  <2>2. CallInv' /\ ServeInv'
    BY <1>1 DEF Boot, Goto, CallInv, ServeInv
  <2>3. LiveInv' /\ StartInv'
    BY <1>1 DEF Boot, Goto, LiveInv, StartInv
  <2>4. AnswerInv' /\ AnswerIntegrity'
    BY <1>1 DEF Boot, Goto, AnswerInv, AnswerIntegrity
  <2> QED BY <2>1, <2>2, <2>3, <2>4
<1>2. ASSUME NEW s \in Services, Fork(s) PROVE FlowInv'
  <2>1. pc' = [pc EXCEPT ![s] = "boot", ![Portal] = pc'[Portal]]
        /\ pc[Portal] \in {"fork_weather", "fork_currency"}
        /\ pc'[Portal] \in {"fork_currency", "loop"}
    BY <1>2 DEF Fork, ForkLabel
  <2>2. UnreadInv' /\ BusyInv'
    BY <1>2, <2>1 DEF Fork, UnreadInv, BusyInv
  <2>3. CallInv' /\ ServeInv'
    BY <1>2, <2>1 DEF Fork, CallInv, ServeInv
  <2>4. LiveInv' /\ StartInv'
    BY <1>2, <2>1, PortalAssumption DEF Fork, LiveInv, StartInv
  <2>5. AnswerInv' /\ AnswerIntegrity'
    BY <1>2, <2>1 DEF Fork, AnswerInv, AnswerIntegrity
  <2> QED BY <2>2, <2>3, <2>4, <2>5
<1> QED BY <1>1, <1>2

\* None and Failed are not taken for something else.
LEMMA NoneFacts ==
    /\ None \notin Clients /\ None \notin Services /\ None \notin Response
    /\ Failed \notin Response /\ Failed # None
BY PortalAssumption DEF Conns

\* A service in the middle of a connection is in the middle of its own.
LEMMA ServiceConn ==
    ASSUME TypeInv, NEW s \in Services, pc[s] \in {"recv", "handle", "reply", "spin"}
    PROVE  cur[s] = s
BY ProcFacts DEF TypeInv, ControlInv, ConnsOf

LEMMA PortalConn ==
    ASSUME TypeInv, PortalBusy \/ pc[Portal] = "recv"
    PROVE  cur[Portal] \in Clients /\ (PortalBusy => request[Portal] \in Clients)
BY ProcFacts DEF TypeInv, ControlInv, ConnsOf, PortalBusy

LEMMA QueuedFacts == ASSUME TypeInv, NEW p \in Servers PROVE Queued(p) \subseteq ConnsOf(p)
<1>1. backlog[p] \in Seq(ConnsOf(p))
  BY DEF TypeInv, TypeOK, NetType
<1> QED BY <1>1 DEF Queued

\* Steps of the portal with a client before it has read a request.
LEMMA FrontStep ==
    ASSUME TypeInv, FlowInv,
           NEW label \in {"loop", "accept", "recv", "spin"},
           pc[Portal] \in {"loop", "accept", "recv", "spin"},
           pc' = [pc EXCEPT ![Portal] = label],
           \A s \in Services : /\ cur'[s] = cur[s]
                               /\ serverEnd'[s] = serverEnd[s]
                               /\ backlog'[s] = backlog[s],
           UNCHANGED <<request, resp, up, down, clientVars, history>>
    PROVE  FlowInv'
<1> USE ProcFacts, NoneFacts DEF TypeInv, TypeOK, ProcType, FlowInv,
        netVars, clientVars, history, Ended, Sent, PortalBusy, PortalCalling,
        PortalAwaits, PortalEnded, ServiceBusy, Live, Fresh, Alive, Target
<1>1. UnreadInv'
  BY DEF UnreadInv, BusyInv, LiveInv, ServeInv
<1>2. BusyInv'
  BY DEF UnreadInv, BusyInv, LiveInv, ServeInv, AnswerInv, CallInv
<1>3. CallInv'
  BY DEF BusyInv, CallInv, ServeInv
<1>4. ServeInv'
  BY DEF BusyInv, CallInv, ServeInv, LiveInv
<1>5. LiveInv'
  BY DEF UnreadInv, BusyInv, CallInv, ServeInv, LiveInv, StartInv
<1>6. StartInv'
  BY DEF StartInv
<1>7. AnswerInv'
  BY DEF BusyInv, CallInv, ServeInv, LiveInv, AnswerInv
<1>8. AnswerIntegrity'
  BY DEF LiveInv, ServeInv, AnswerInv, AnswerIntegrity, UnreadInv
<1> QED BY <1>1, <1>2, <1>3, <1>4, <1>5, <1>6, <1>7, <1>8

LEMMA PortalAccepts == ASSUME TypeInv, FlowInv, Accept(Portal) PROVE FlowInv'
<1>1. Head(backlog[Portal]) \in Clients
  <2>1. backlog[Portal] \in Seq(Clients)
    BY ProcFacts DEF TypeInv, TypeOK, NetType, ConnsOf
  <2> QED BY <2>1 DEF Accept
<1> QED
  BY <1>1, FrontStep, ProcFacts, NoneFacts DEF Accept, Goto, TypeInv, TypeOK, ProcType, NetType

LEMMA PortalDrops == ASSUME TypeInv, FlowInv, DropConnection(Portal) PROVE FlowInv'
BY PortalConn, FrontStep, ProcFacts
DEF DropConnection, Goto, TypeInv, TypeOK, ProcType, NetType

LEMMA PortalReads == ASSUME TypeInv, FlowInv, ReadRequest(Portal) PROVE FlowInv'
<1> USE ProcFacts, NoneFacts DEF TypeInv, TypeOK, ProcType, NetType, FlowInv,
        netVars, clientVars, history, Ended, Sent, PortalBusy, PortalCalling,
        PortalAwaits, PortalEnded, ServiceBusy, Live, Fresh, Alive, Target
<1> DEFINE c == cur[Portal]
<1>0. /\ c \in Clients /\ up[c] = c
      /\ pc[Portal] = "recv"
      /\ pc' = [pc EXCEPT ![Portal] = "connect"]
      /\ request' = [request EXCEPT ![Portal] = c]
      /\ resp' = [resp EXCEPT ![Portal] = ZeroResponse]
      /\ up' = [up EXCEPT ![c] = None]
      /\ UNCHANGED <<cur, backlog, serverEnd, down, clientVars, history>>
  BY PortalConn DEF ReadRequest, Goto, UnreadInv
<1>1. UnreadInv'
  BY <1>0 DEF UnreadInv, BusyInv, LiveInv, ServeInv
<1>2. BusyInv'
  BY <1>0 DEF UnreadInv, BusyInv, LiveInv, ServeInv, AnswerInv, CallInv
<1>3. CallInv'
  BY <1>0 DEF BusyInv, CallInv, ServeInv
<1>4. ServeInv'
  BY <1>0 DEF BusyInv, CallInv, ServeInv, LiveInv
<1>5. LiveInv'
  BY <1>0 DEF UnreadInv, BusyInv, CallInv, ServeInv, LiveInv, StartInv
<1>6. StartInv'
  BY <1>0 DEF StartInv
<1>7. AnswerInv'
  BY <1>0 DEF BusyInv, CallInv, ServeInv, LiveInv, AnswerInv
<1>8. AnswerIntegrity'
  BY <1>0 DEF LiveInv, ServeInv, AnswerInv, AnswerIntegrity, UnreadInv
<1> QED BY <1>1, <1>2, <1>3, <1>4, <1>5, <1>6, <1>7, <1>8

LEMMA PortalReplies == ASSUME TypeInv, FlowInv, Reply(Portal) PROVE FlowInv'
<1> USE ProcFacts, NoneFacts DEF TypeInv, TypeOK, ProcType, NetType, FlowInv,
        netVars, clientVars, history, Ended, Sent, PortalBusy, PortalCalling,
        PortalAwaits, PortalEnded, ServiceBusy, Live, Fresh, Alive, Target
<1> DEFINE c == request[Portal]
<1>0. /\ c \in Clients /\ cur[Portal] = c
      /\ pc[Portal] = "reply"
      /\ pc' = [pc EXCEPT ![Portal] = "loop"]
      /\ down' = down \/ down' = [down EXCEPT ![c] = resp[Portal]]
      /\ serverEnd' = [serverEnd EXCEPT ![c] = "fin"]
      /\ cur' = [cur EXCEPT ![Portal] = None]
      /\ UNCHANGED <<request, resp, backlog, up, clientVars, history>>
  BY PortalConn DEF Reply, Goto, BusyInv
<1>1. UnreadInv'
  BY <1>0 DEF UnreadInv, BusyInv, LiveInv, ServeInv
<1>2. BusyInv'
  BY <1>0 DEF UnreadInv, BusyInv, LiveInv, ServeInv, AnswerInv, CallInv
<1>3. CallInv'
  BY <1>0 DEF BusyInv, CallInv, ServeInv
<1>4. ServeInv'
  BY <1>0 DEF BusyInv, CallInv, ServeInv, LiveInv
<1>5. LiveInv'
  BY <1>0 DEF UnreadInv, BusyInv, CallInv, ServeInv, LiveInv, StartInv
<1>6. StartInv'
  BY <1>0 DEF StartInv
<1>7. AnswerInv'
  BY <1>0 DEF BusyInv, CallInv, ServeInv, LiveInv, AnswerInv
<1>8. AnswerIntegrity'
  BY <1>0 DEF LiveInv, ServeInv, AnswerInv, AnswerIntegrity, UnreadInv
<1> QED BY <1>1, <1>2, <1>3, <1>4, <1>5, <1>6, <1>7, <1>8

LEMMA ServiceAccepts == ASSUME TypeInv, FlowInv, NEW s \in Services, Accept(s) PROVE FlowInv'
<1> USE ProcFacts, NoneFacts DEF TypeInv, TypeOK, ProcType, NetType, FlowInv,
        netVars, clientVars, history, Ended, Sent, PortalBusy, PortalCalling,
        PortalAwaits, PortalEnded, ServiceBusy, Live, Fresh, Alive, Target
<1>0. /\ serverEnd[s] = "queued"
      /\ pc[s] = "accept"
      /\ pc' = [pc EXCEPT ![s] = "recv"]
      /\ cur' = [cur EXCEPT ![s] = s]
      /\ serverEnd' = [serverEnd EXCEPT ![s] = "open"]
      /\ backlog' = [backlog EXCEPT ![s] = <<>>]
      /\ UNCHANGED <<request, resp, up, down, clientVars, history>>
  <2>1. backlog[s] = <<s>> /\ serverEnd[s] = "queued"
    BY DEF Accept, CallInv
  <2>2. Head(backlog[s]) = s /\ Tail(backlog[s]) = <<>>
    BY <2>1
  <2> QED BY <2>1, <2>2 DEF Accept, Goto
<1>1. UnreadInv'
  BY <1>0 DEF UnreadInv, BusyInv, LiveInv, ServeInv
<1>2. BusyInv'
  BY <1>0 DEF UnreadInv, BusyInv, LiveInv, ServeInv, AnswerInv, CallInv
<1>3. CallInv'
  BY <1>0 DEF BusyInv, CallInv, ServeInv
<1>4. ServeInv'
  BY <1>0 DEF BusyInv, CallInv, ServeInv, LiveInv
<1>5. LiveInv'
  BY <1>0 DEF UnreadInv, BusyInv, CallInv, ServeInv, LiveInv, StartInv
<1>6. StartInv'
  BY <1>0 DEF StartInv
<1>7. AnswerInv'
  BY <1>0 DEF BusyInv, CallInv, ServeInv, LiveInv, AnswerInv
<1>8. AnswerIntegrity'
  BY <1>0 DEF LiveInv, ServeInv, AnswerInv, AnswerIntegrity, UnreadInv
<1> QED BY <1>1, <1>2, <1>3, <1>4, <1>5, <1>6, <1>7, <1>8

LEMMA ServiceDrops == ASSUME TypeInv, FlowInv, NEW s \in Services, DropConnection(s) PROVE FlowInv'
<1> USE ProcFacts, NoneFacts DEF TypeInv, TypeOK, ProcType, NetType, FlowInv,
        netVars, clientVars, history, Ended, Sent, PortalBusy, PortalCalling,
        PortalAwaits, PortalEnded, ServiceBusy, Live, Fresh, Alive, Target
<1>0. /\ pc[s] = "recv" /\ up[s] = None
      /\ pc' = [pc EXCEPT ![s] = "loop"]
      /\ cur' = [cur EXCEPT ![s] = None]
      /\ serverEnd' = [serverEnd EXCEPT ![s] = "fin"]
      /\ UNCHANGED <<request, resp, backlog, up, down, clientVars, history>>
  BY ServiceConn DEF DropConnection, Goto
<1>1. UnreadInv'
  BY <1>0 DEF ConnsOf, UnreadInv, BusyInv, LiveInv, ServeInv
<1>2. BusyInv'
  BY <1>0 DEF ConnsOf, UnreadInv, BusyInv, LiveInv, ServeInv, AnswerInv, CallInv
<1>3. CallInv'
  BY <1>0 DEF ConnsOf, BusyInv, CallInv, ServeInv
<1>4. ServeInv'
  BY <1>0 DEF ConnsOf, BusyInv, CallInv, ServeInv, LiveInv
<1>5. LiveInv'
  BY <1>0 DEF ConnsOf, UnreadInv, BusyInv, CallInv, ServeInv, LiveInv, StartInv
<1>6. StartInv'
  BY <1>0 DEF ConnsOf, StartInv
<1>7. AnswerInv'
  BY <1>0 DEF ConnsOf, BusyInv, CallInv, ServeInv, LiveInv, AnswerInv
<1>8. AnswerIntegrity'
  BY <1>0 DEF ConnsOf, LiveInv, ServeInv, AnswerInv, AnswerIntegrity, UnreadInv
<1> QED BY <1>1, <1>2, <1>3, <1>4, <1>5, <1>6, <1>7, <1>8

LEMMA ServiceReads == ASSUME TypeInv, FlowInv, NEW s \in Services, ReadRequest(s) PROVE FlowInv'
<1> USE ProcFacts, NoneFacts DEF TypeInv, TypeOK, ProcType, NetType, FlowInv,
        netVars, clientVars, history, Ended, Sent, PortalBusy, PortalCalling,
        PortalAwaits, PortalEnded, ServiceBusy, Live, Fresh, Alive, Target
<1> DEFINE c == up[s]
<1>0. /\ pc[s] = "recv" /\ c \in Clients
      /\ PortalEnded \/ PortalAwaits(c)
      /\ get_base_request(req[c].type) = s
      /\ pc' = [pc EXCEPT ![s] = "handle"]
      /\ request' = [request EXCEPT ![s] = c]
      /\ resp' = [resp EXCEPT ![s] = ZeroResponse]
      /\ up' = [up EXCEPT ![s] = None]
      /\ UNCHANGED <<cur, backlog, serverEnd, down, clientVars, history>>
  <2>1. pc[s] = "recv" /\ cur[s] = s /\ c \in Clients
    BY ServiceConn DEF ReadRequest
  <2>2. Live(s, c)
    BY <2>1
  <2>3. (PortalEnded \/ PortalAwaits(c)) /\ get_base_request(req[c].type) = s
    BY <2>1, <2>2 DEF LiveInv
  <2> QED BY <2>1, <2>3 DEF ReadRequest, Goto
<1>1. UnreadInv'
  BY <1>0 DEF UnreadInv, BusyInv, LiveInv, ServeInv
<1>2. BusyInv'
  BY <1>0 DEF UnreadInv, BusyInv, LiveInv, ServeInv, AnswerInv, CallInv
<1>3. CallInv'
  BY <1>0 DEF BusyInv, CallInv, ServeInv
<1>4. ServeInv'
  BY <1>0 DEF ServeInv
<1>5. LiveInv'
  BY <1>0 DEF UnreadInv, BusyInv, CallInv, ServeInv, LiveInv, StartInv
<1>6. StartInv'
  BY <1>0 DEF StartInv
<1>7. AnswerInv'
  BY <1>0 DEF BusyInv, CallInv, ServeInv, LiveInv, AnswerInv
<1>8. AnswerIntegrity'
  BY <1>0 DEF LiveInv, ServeInv, AnswerInv, AnswerIntegrity, UnreadInv
<1> QED BY <1>1, <1>2, <1>3, <1>4, <1>5, <1>6, <1>7, <1>8

LEMMA ServiceReplies == ASSUME TypeInv, FlowInv, NEW s \in Services, Reply(s) PROVE FlowInv'
<1> USE ProcFacts, NoneFacts DEF TypeInv, TypeOK, ProcType, NetType, FlowInv,
        netVars, clientVars, history, Ended, Sent, PortalBusy, PortalCalling,
        PortalAwaits, PortalEnded, ServiceBusy, Live, Fresh, Alive, Target
<1>0. /\ pc[s] = "reply"
      /\ resp[s] = answer[request[s]]
      /\ PortalEnded \/ PortalAwaits(request[s])
      /\ pc' = [pc EXCEPT ![s] = "loop"]
      /\ down' = down \/ down' = [down EXCEPT ![s] = resp[s]]
      /\ serverEnd' = [serverEnd EXCEPT ![s] = "fin"]
      /\ cur' = [cur EXCEPT ![s] = None]
      /\ UNCHANGED <<request, resp, backlog, up, clientVars, history>>
  BY ServiceConn DEF Reply, Goto, ServeInv
<1>1. UnreadInv'
  BY <1>0 DEF ConnsOf, UnreadInv, BusyInv, LiveInv, ServeInv
<1>2. BusyInv'
  BY <1>0, PortalConn DEF BusyInv
<1>3. CallInv'
  BY <1>0 DEF ConnsOf, BusyInv, CallInv, ServeInv
<1>4. ServeInv'
  BY <1>0 DEF ConnsOf, BusyInv, CallInv, ServeInv, LiveInv
<1>5. LiveInv'
  BY <1>0 DEF ConnsOf, UnreadInv, BusyInv, CallInv, ServeInv, LiveInv, StartInv
<1>6. StartInv'
  BY <1>0 DEF ConnsOf, StartInv
<1>7. AnswerInv'
  <2>1. \A c \in Clients : down'[c] = down[c]
    BY <1>0
  <2>2. ASSUME PortalCalling PROVE down'[Target(Portal)] \in {None, answer[request[Portal]]}
    <3>1. PortalAwaits(request[s])
      BY <1>0, <2>2
    <3>2. Target(Portal) \in Conns /\ down[Target(Portal)] \in {None, answer[request[Portal]]}
      BY <2>2, CallerFacts DEF AnswerInv, Callers
    <3> QED BY <1>0, <3>1, <3>2
  <2> QED BY <1>0, <2>1, <2>2 DEF AnswerInv
<1>8. AnswerIntegrity'
  BY <1>0 DEF ConnsOf, LiveInv, ServeInv, AnswerInv, AnswerIntegrity, UnreadInv
<1> QED BY <1>1, <1>2, <1>3, <1>4, <1>5, <1>6, <1>7, <1>8

LEMMA MicroResult ==
    ASSUME TypeInv, NEW s \in Services, MicroHandle(s)
    PROVE  /\ request[s] \in Clients
           /\ micro_handle_request(s, store[s], req[request[s]]).resp \in Response
<1>1. request[s] \in Clients /\ req[request[s]] \in Request
  BY ProcFacts DEF MicroHandle, TypeInv, TypeOK, ClientType, ControlInv
<1>2. store[s] \in Document(s) \cup {NullJson}
  BY DEF MicroHandle, TypeInv, TypeOK, DataType
<1> QED BY <1>1, <1>2, MicroType

LEMMA MicroHandleFlow == ASSUME TypeInv, FlowInv, NEW s \in Services, MicroHandle(s) PROVE FlowInv'
<1> USE ProcFacts, NoneFacts DEF TypeInv, TypeOK, ProcType, NetType, ClientType, FlowInv,
        netVars, clientVars, history, Ended, Sent, PortalBusy, PortalCalling,
        PortalAwaits, PortalEnded, ServiceBusy, Live, Fresh, Alive, Target
<1> DEFINE c == request[s]
           r == micro_handle_request(s, store[s], req[c]).resp
<1>0. /\ c \in Clients /\ Live(s, c) /\ Alive(s)
      /\ pc[s] = "handle" /\ r # None
      /\ Sent(c) /\ up[c] = None /\ Fresh(c)
      /\ get_base_request(req[c].type) = s
      /\ PortalEnded \/ PortalAwaits(c)
      /\ pc' = [pc EXCEPT ![s] = "reply"]
      /\ resp' = [resp EXCEPT ![s] = r]
      /\ answer' = [answer EXCEPT ![c] = r]
      /\ execs' = [execs EXCEPT ![c] = @ + 1]
      /\ UNCHANGED <<cur, request, netVars, clientVars>>
  <2>1. c \in Clients /\ r # None
    BY MicroResult
  <2>2. pc[s] = "handle" /\ Live(s, c)
    BY <2>1 DEF MicroHandle
  <2>3. Alive(s)
    BY <2>2 DEF CallInv
  <2> QED BY <2>1, <2>2, <2>3 DEF MicroHandle, Goto, LiveInv
<1> HIDE DEF r
<1>1. UnreadInv'
  BY <1>0 DEF UnreadInv, LiveInv
<1>2. BusyInv'
  BY <1>0, PortalConn DEF BusyInv
<1>3. CallInv'
  BY <1>0 DEF BusyInv, CallInv, ServeInv
<1>4. ServeInv'
  BY <1>0 DEF ServeInv
<1>5. LiveInv'
  BY <1>0 DEF LiveInv, ServeInv
<1>6. StartInv'
  BY <1>0 DEF StartInv
<1>7. AnswerInv'
  BY <1>0, PortalConn DEF AnswerInv, CallInv
<1>8. AnswerIntegrity'
  BY <1>0 DEF AnswerIntegrity
<1> QED BY <1>1, <1>2, <1>3, <1>4, <1>5, <1>6, <1>7, <1>8

\* client_send() returns to a client, with what came down its connection.
LEMMA ClientReturns ==
    ASSUME TypeInv, FlowInv, NEW c \in Clients, NEW r \in Response \cup {Failed},
           pc[c] \in {"connect", "send", "await"},
           r = Failed \/ (r = down[c] /\ r # None),
           pc' = [pc EXCEPT ![c] = "done"],
           outcome' = [outcome EXCEPT ![c] = r],
           down' \in {down, [down EXCEPT ![c] = None]},
           UNCHANGED <<resp, cur, request, backlog, serverEnd, up, req, history>>
    PROVE  FlowInv'
<1> USE ProcFacts, NoneFacts DEF TypeInv, TypeOK, ProcType, NetType, ClientType, FlowInv,
        netVars, clientVars, history, Ended, Sent, PortalBusy, PortalCalling,
        PortalAwaits, PortalEnded, ServiceBusy, Live, Fresh, Alive, Target
<1>1. UnreadInv'
  BY DEF UnreadInv, BusyInv, LiveInv, ServeInv
<1>2. BusyInv'
  <2>1. PortalBusy => request[Portal] \in Clients
    BY PortalConn
  <2>2. \A d \in Clients : Sent(d) => Sent(d)'
    OBVIOUS
  <2>3. \A d \in Clients : down[d] = None => down'[d] = None /\ (Fresh(d) => Fresh(d)')
    OBVIOUS
  <2>4. UNCHANGED <<pc[Portal], resp, cur, request, up, req, answer>>
    BY DEF history
  <2> QED BY <2>1, <2>2, <2>3, <2>4 DEF BusyInv
<1>3. CallInv'
  BY DEF BusyInv, CallInv, ServeInv
<1>4. ServeInv'
  BY DEF BusyInv, CallInv, ServeInv, LiveInv
<1>5. LiveInv'
  BY DEF UnreadInv, BusyInv, CallInv, ServeInv, LiveInv, StartInv
<1>6. StartInv'
  BY DEF StartInv
<1>7. AnswerInv'
  <2>1. PortalCalling => Target(Portal) \in Services
    BY CallerFacts DEF Callers
  <2>2. \A s \in Services : down'[s] = down[s]
    OBVIOUS
  <2>3. \A d \in Clients : down'[d] \in {down[d], None}
    OBVIOUS
  <2> QED BY <2>1, <2>2, <2>3 DEF AnswerInv
<1>8. AnswerIntegrity'
  BY DEF LiveInv, ServeInv, AnswerInv, AnswerIntegrity, UnreadInv
<1> QED BY <1>1, <1>2, <1>3, <1>4, <1>5, <1>6, <1>7, <1>8

\* It returns to the portal, once the service is through with the connection.
LEMMA PortalReturns ==
    ASSUME TypeInv, FlowInv, NEW r, NEW x \in Services,
           x = Target(Portal),
           pc[Portal] \in {"connect", "send", "await", "await_spin"},
           \A s \in Services : ~Alive(s),
           r = resp[Portal] \/ (PortalCalling /\ r = down[x] /\ r # None),
           pc' = [pc EXCEPT ![Portal] = "reply"],
           resp' = [resp EXCEPT ![Portal] = r],
           down' = down \/ down' = [down EXCEPT ![x] = None],
           UNCHANGED <<cur, request, backlog, serverEnd, up, req, outcome, history>>
    PROVE  FlowInv'
<1> USE ProcFacts, NoneFacts DEF TypeInv, TypeOK, ProcType, NetType, ClientType,
        ControlInv, FlowInv,
        netVars, clientVars, history, Ended, Sent, PortalBusy, PortalCalling,
        PortalAwaits, PortalEnded, ServiceBusy, Live, Fresh, Alive, Target
<1>1. UnreadInv'
  BY DEF UnreadInv, BusyInv, LiveInv, ServeInv
<1>2. BusyInv'
  <2>1. request[Portal] \in Clients
    BY PortalConn
  <2>2. r \in {answer[request[Portal]], ZeroResponse}
    BY <2>1 DEF BusyInv, AnswerInv
  <2> QED BY <2>1, <2>2 DEF BusyInv
<1>3. CallInv'
  BY DEF BusyInv, CallInv, ServeInv
<1>4. ServeInv'
  BY DEF BusyInv, CallInv, ServeInv, LiveInv
<1>5. LiveInv'
  BY DEF LiveInv
<1>6. StartInv'
  BY DEF StartInv
<1>7. AnswerInv'
  <2>1. \A c \in Clients : c # x /\ down'[c] = down[c]
    OBVIOUS
  <2> QED BY <2>1 DEF AnswerInv
<1>8. AnswerIntegrity'
  BY DEF LiveInv, ServeInv, AnswerInv, AnswerIntegrity, UnreadInv
<1> QED BY <1>1, <1>2, <1>3, <1>4, <1>5, <1>6, <1>7, <1>8

LEMMA ClientConnects == ASSUME TypeInv, FlowInv, NEW c \in Clients, Connect(c) PROVE FlowInv'
<1> USE ProcFacts, NoneFacts DEF TypeInv, TypeOK, ProcType, NetType, FlowInv,
        netVars, clientVars, history, Ended, Sent, PortalBusy, PortalCalling,
        PortalAwaits, PortalEnded, ServiceBusy, Live, Fresh, Alive, Target
<1>0. /\ pc[c] = "connect"
      /\ pc' = [pc EXCEPT ![c] = "send"]
      /\ \A s \in Services : backlog'[s] = backlog[s]
      /\ serverEnd' = [serverEnd EXCEPT ![c] = "queued"]
      /\ up' = [up EXCEPT ![c] = None]
      /\ down' = [down EXCEPT ![c] = None]
      /\ UNCHANGED <<cur, request, resp, clientVars, history>>
  BY DEF Connect, Goto, ListenerOf
<1>1. UnreadInv'
  BY <1>0 DEF UnreadInv, BusyInv, LiveInv, ServeInv
<1>2. BusyInv'
  BY <1>0 DEF UnreadInv, BusyInv, LiveInv, ServeInv, AnswerInv, CallInv
<1>3. CallInv'
  BY <1>0 DEF BusyInv, CallInv, ServeInv
<1>4. ServeInv'
  BY <1>0 DEF BusyInv, CallInv, ServeInv, LiveInv
<1>5. LiveInv'
  BY <1>0 DEF UnreadInv, BusyInv, CallInv, ServeInv, LiveInv, StartInv
<1>6. StartInv'
  BY <1>0 DEF StartInv
<1>7. AnswerInv'
  BY <1>0 DEF BusyInv, CallInv, ServeInv, LiveInv, AnswerInv
<1>8. AnswerIntegrity'
  BY <1>0 DEF LiveInv, ServeInv, AnswerInv, AnswerIntegrity, UnreadInv
<1> QED BY <1>1, <1>2, <1>3, <1>4, <1>5, <1>6, <1>7, <1>8

LEMMA PortalConnects == ASSUME TypeInv, FlowInv, Connect(Portal) PROVE FlowInv'
<1> USE ProcFacts, NoneFacts DEF TypeInv, TypeOK, ProcType, NetType, FlowInv,
        netVars, clientVars, history, Ended, Sent, PortalBusy, PortalCalling,
        PortalAwaits, PortalEnded, ServiceBusy, Live, Fresh, Alive, Target
<1> DEFINE x == Target(Portal)
<1>0. /\ x \in Services /\ ~Alive(x) /\ backlog[x] = <<>>
      /\ pc[Portal] = "connect"
      /\ pc' = [pc EXCEPT ![Portal] = "send"]
      /\ backlog' = [backlog EXCEPT ![x] = <<x>>]
      /\ serverEnd' = [serverEnd EXCEPT ![x] = "queued"]
      /\ up' = [up EXCEPT ![x] = None]
      /\ down' = [down EXCEPT ![x] = None]
      /\ UNCHANGED <<cur, request, resp, clientVars, history>>
  <2>1. pc[Portal] = "connect"
    BY DEF Connect
  <2>2. x \in Services /\ ListenerOf(x) = x
    BY <2>1, CallerFacts DEF Callers, ListenerOf
  <2>3. ~Alive(x)
    BY <2>1, <2>2 DEF CallInv
  <2>4. backlog[x] = <<>>
    BY <2>2, <2>3 DEF CallInv
  <2>5. Append(backlog[x], x) = <<x>>
    BY <2>4
  <2> QED BY <2>1, <2>2, <2>3, <2>4, <2>5 DEF Connect, Goto
<1>1. UnreadInv'
  BY <1>0 DEF UnreadInv, BusyInv, LiveInv, ServeInv
<1>2. BusyInv'
  BY <1>0 DEF UnreadInv, BusyInv, LiveInv, ServeInv, AnswerInv, CallInv
<1>3. CallInv'
  BY <1>0 DEF BusyInv, CallInv, ServeInv
<1>4. ServeInv'
  BY <1>0 DEF BusyInv, CallInv, ServeInv, LiveInv
<1>5. LiveInv'
  BY <1>0 DEF UnreadInv, BusyInv, CallInv, ServeInv, LiveInv, StartInv
<1>6. StartInv'
  BY <1>0 DEF StartInv
<1>7. AnswerInv'
  BY <1>0 DEF BusyInv, CallInv, ServeInv, LiveInv, AnswerInv
<1>8. AnswerIntegrity'
  BY <1>0 DEF LiveInv, ServeInv, AnswerInv, AnswerIntegrity, UnreadInv
<1> QED BY <1>1, <1>2, <1>3, <1>4, <1>5, <1>6, <1>7, <1>8

LEMMA ClientSends == ASSUME TypeInv, FlowInv, NEW c \in Clients, Send(c) PROVE FlowInv'
<1> USE ProcFacts, NoneFacts DEF TypeInv, TypeOK, ProcType, NetType, FlowInv,
        netVars, clientVars, history, Ended, Sent, PortalBusy, PortalCalling,
        PortalAwaits, PortalEnded, ServiceBusy, Live, Fresh, Alive, Target
<1>0. /\ pc[c] = "send" /\ Encodable(req[c])
      /\ pc' = [pc EXCEPT ![c] = "await"]
      /\ up' = [up EXCEPT ![c] = c]
      /\ UNCHANGED <<cur, request, resp, backlog, serverEnd, down, clientVars, history>>
  BY DEF Send, Goto, Origin
<1>1. UnreadInv'
  BY <1>0 DEF UnreadInv, BusyInv, LiveInv, ServeInv
<1>2. BusyInv'
  BY <1>0 DEF UnreadInv, BusyInv, LiveInv, ServeInv, AnswerInv, CallInv
<1>3. CallInv'
  BY <1>0 DEF BusyInv, CallInv, ServeInv
<1>4. ServeInv'
  BY <1>0 DEF BusyInv, CallInv, ServeInv, LiveInv
<1>5. LiveInv'
  BY <1>0 DEF UnreadInv, BusyInv, CallInv, ServeInv, LiveInv, StartInv
<1>6. StartInv'
  BY <1>0 DEF StartInv
<1>7. AnswerInv'
  BY <1>0 DEF BusyInv, CallInv, ServeInv, LiveInv, AnswerInv
<1>8. AnswerIntegrity'
  BY <1>0 DEF LiveInv, ServeInv, AnswerInv, AnswerIntegrity, UnreadInv
<1> QED BY <1>1, <1>2, <1>3, <1>4, <1>5, <1>6, <1>7, <1>8

LEMMA PortalSends == ASSUME TypeInv, FlowInv, Send(Portal) PROVE FlowInv'
<1> USE ProcFacts, NoneFacts DEF TypeInv, TypeOK, ProcType, NetType, FlowInv,
        netVars, clientVars, history, Ended, Sent, PortalBusy, PortalCalling,
        PortalAwaits, PortalEnded, ServiceBusy, Live, Fresh, Alive, Target
<1> DEFINE x == Target(Portal)
           c == request[Portal]
<1>0. /\ x \in Services /\ Alive(x) /\ c \in Clients
      /\ get_base_request(req[c].type) = x
      /\ pc[Portal] = "send"
      /\ pc' = [pc EXCEPT ![Portal] = "await"]
      /\ up' = [up EXCEPT ![x] = c]
      /\ UNCHANGED <<cur, request, resp, backlog, serverEnd, down, clientVars, history>>
  BY CallerFacts DEF Send, Goto, Origin, Callers
<1>1. UnreadInv'
  BY <1>0 DEF UnreadInv, BusyInv, LiveInv, ServeInv
<1>2. BusyInv'
  BY <1>0 DEF UnreadInv, BusyInv, LiveInv, ServeInv, AnswerInv, CallInv
<1>3. CallInv'
  BY <1>0 DEF BusyInv, CallInv, ServeInv
<1>4. ServeInv'
  BY <1>0 DEF BusyInv, CallInv, ServeInv, LiveInv
<1>5. LiveInv'
  BY <1>0 DEF UnreadInv, BusyInv, CallInv, ServeInv, LiveInv, StartInv
<1>6. StartInv'
  BY <1>0 DEF StartInv
<1>7. AnswerInv'
  BY <1>0 DEF BusyInv, CallInv, ServeInv, LiveInv, AnswerInv
<1>8. AnswerIntegrity'
  BY <1>0 DEF LiveInv, ServeInv, AnswerInv, AnswerIntegrity, UnreadInv
<1> QED BY <1>1, <1>2, <1>3, <1>4, <1>5, <1>6, <1>7, <1>8

LEMMA PortalEnds ==
    ASSUME TypeInv, FlowInv, NEW last \in {"exited", "dead"}, Ends(Portal, last)
    PROVE  FlowInv'
<1> USE ProcFacts, NoneFacts DEF TypeInv, TypeOK, ProcType, NetType, FlowInv,
        netVars, clientVars, history, Ended, Sent, PortalBusy, PortalCalling,
        PortalAwaits, PortalEnded, ServiceBusy, Live, Fresh, Alive, Target
<1>0. /\ pc' = [pc EXCEPT ![Portal] = last]
      /\ \A s \in Services : /\ cur'[s] = cur[s]
                             /\ serverEnd'[s] = serverEnd[s]
                             /\ backlog'[s] = backlog[s]
                             /\ request'[s] = request[s]
                             /\ resp'[s] = resp[s]
      /\ UNCHANGED <<up, down, clientVars, history>>
  <2>1. \A q \in Servers : ListenHolders(q) = {Portal} => q = Portal
    BY DEF ListenHolders
  <2>2. \A s \in Services : s \notin Queued(Portal) /\ s # cur[Portal]
    BY QueuedFacts DEF ConnsOf
  <2> QED BY <2>1, <2>2 DEF Ends
<1>1. UnreadInv'
  BY <1>0 DEF UnreadInv, BusyInv, LiveInv, ServeInv
<1>2. BusyInv'
  BY <1>0 DEF UnreadInv, BusyInv, LiveInv, ServeInv, AnswerInv, CallInv
<1>3. CallInv'
  BY <1>0 DEF BusyInv, CallInv, ServeInv
<1>4. ServeInv'
  BY <1>0 DEF BusyInv, CallInv, ServeInv, LiveInv
<1>5. LiveInv'
  BY <1>0 DEF UnreadInv, BusyInv, CallInv, ServeInv, LiveInv, StartInv
<1>6. StartInv'
  BY <1>0 DEF StartInv
<1>7. AnswerInv'
  BY <1>0 DEF BusyInv, CallInv, ServeInv, LiveInv, AnswerInv
<1>8. AnswerIntegrity'
  BY <1>0 DEF LiveInv, ServeInv, AnswerInv, AnswerIntegrity, UnreadInv
<1> QED BY <1>1, <1>2, <1>3, <1>4, <1>5, <1>6, <1>7, <1>8

LEMMA ServiceEnds ==
    ASSUME TypeInv, FlowInv, NEW p \in Services, NEW last \in {"exited", "dead"}, Ends(p, last)
    PROVE  FlowInv'
<1> USE ProcFacts, NoneFacts DEF TypeInv, TypeOK, ProcType, NetType, FlowInv,
        netVars, clientVars, history, Ended, Sent, PortalBusy, PortalCalling,
        PortalAwaits, PortalEnded, ServiceBusy, Live, Fresh, Alive, Target
<1>0. /\ pc' = [pc EXCEPT ![p] = last]
      /\ cur' = [cur EXCEPT ![p] = None]
      /\ request' = [request EXCEPT ![p] = None]
      /\ resp' = [resp EXCEPT ![p] = ZeroResponse]
      /\ \A s \in Services : s # p => serverEnd'[s] = serverEnd[s] /\ backlog'[s] = backlog[s]
      /\ Alive(p)' => Alive(p)
      /\ cur[p] = p => ~Alive(p)'
      /\ backlog'[p] = <<>> \/ (backlog'[p] = backlog[p] /\ serverEnd'[p] = serverEnd[p])
      /\ UNCHANGED <<up, down, clientVars, history>>
  <2> DEFINE gone  == {q \in Servers : ListenHolders(q) = {p}}
             reset == UNION {Queued(q) : q \in gone}
  <2>1. gone \subseteq {p, Portal}
    BY DEF ListenHolders
  <2>2. Queued(Portal) \subseteq Clients /\ Queued(p) \subseteq {p}
    BY QueuedFacts DEF ConnsOf
  <2>3. reset \subseteq Clients \cup {p} /\ (p \in reset => p \in gone)
    <3>1. \A x \in reset : \E q \in gone : x \in Queued(q)
      OBVIOUS
    <3>2. \A x \in reset : x \in Queued(Portal) \/ (p \in gone /\ x \in Queued(p))
      BY <3>1, <2>1
    <3> HIDE DEF gone, reset
    <3> QED BY <3>2, <2>2
  <2>4. cur[p] \in {p, None}
    BY DEF ConnsOf
  <2>5. /\ backlog' = [q \in Servers |-> IF q \in gone THEN <<>> ELSE backlog[q]]
        /\ \A x \in Conns : x \notin reset /\ x # cur[p] => serverEnd'[x] = serverEnd[x]
        /\ \A x \in Conns : x \in reset \/ x = cur[p] => serverEnd'[x] \in {"fin", "rst"}
    BY DEF Ends
  <2> HIDE DEF gone, reset
  <2>6. \A s \in Services : s # p => serverEnd'[s] = serverEnd[s] /\ backlog'[s] = backlog[s]
    BY <2>1, <2>3, <2>4, <2>5
  <2>7. /\ Alive(p)' => Alive(p)
        /\ cur[p] = p => ~Alive(p)'
        /\ p \in gone \/ cur[p] = p \/ serverEnd'[p] = serverEnd[p]
    BY <2>3, <2>4, <2>5
  <2>8. backlog'[p] = <<>> \/ (backlog'[p] = backlog[p] /\ serverEnd'[p] = serverEnd[p])
    BY <2>5, <2>7 DEF CallInv
  <2> QED BY <2>6, <2>7, <2>8 DEF Ends
<1>1. UnreadInv'
  BY <1>0 DEF UnreadInv, BusyInv, LiveInv, ServeInv
<1>2. BusyInv'
  BY <1>0 DEF UnreadInv, BusyInv, LiveInv, ServeInv, AnswerInv, CallInv
<1>3. CallInv'
  BY <1>0 DEF BusyInv, CallInv, ServeInv
<1>4. ServeInv'
  BY <1>0 DEF BusyInv, CallInv, ServeInv, LiveInv
<1>5. LiveInv'
  BY <1>0 DEF UnreadInv, BusyInv, CallInv, ServeInv, LiveInv, StartInv
<1>6. StartInv'
  BY <1>0 DEF StartInv
<1>7. AnswerInv'
  BY <1>0 DEF BusyInv, CallInv, ServeInv, LiveInv, AnswerInv
<1>8. AnswerIntegrity'
  BY <1>0 DEF LiveInv, ServeInv, AnswerInv, AnswerIntegrity, UnreadInv
<1> QED BY <1>1, <1>2, <1>3, <1>4, <1>5, <1>6, <1>7, <1>8

\* recv() is interrupted in a service, or in the portal as it waits for one.
LEMMA SpinFlow ==
    ASSUME TypeInv, FlowInv, NEW p \in Servers, NEW label,
           \/ p \in Services /\ pc[p] = "recv" /\ label = "spin"
           \/ p = Portal /\ pc[p] = "await" /\ label = "await_spin",
           pc' = [pc EXCEPT ![p] = label],
           UNCHANGED <<cur, request, resp, netVars, clientVars, history>>
    PROVE  FlowInv'
<1> USE ProcFacts, NoneFacts DEF TypeInv, TypeOK, ProcType, FlowInv,
        netVars, clientVars, history, Ended, Sent, PortalBusy, PortalCalling,
        PortalAwaits, PortalEnded, ServiceBusy, Live, Fresh, Alive, Target
<1>1. UnreadInv'
  BY DEF UnreadInv
<1>2. BusyInv'
  <2>1. PortalBusy => request[Portal] \in Clients
    BY PortalConn
  <2>2. /\ \A d \in Clients : Sent(d) => Sent(d)'
        /\ PortalBusy' => PortalBusy
        /\ pc'[Portal] \in {"connect", "send"} => pc[Portal] \in {"connect", "send"}
        /\ (PortalBusy' /\ pc'[Portal] # "reply") => pc[Portal] # "reply"
    OBVIOUS
  <2>3. UNCHANGED <<resp, cur, request, up, down, req, answer, execs, outcome>>
    OBVIOUS
  <2> QED BY <2>1, <2>2, <2>3 DEF BusyInv
<1>3. CallInv'
  BY DEF CallInv
<1>4. ServeInv'
  BY DEF ServeInv
<1>5. LiveInv'
  BY DEF LiveInv
<1>6. StartInv'
  BY DEF StartInv
<1>7. AnswerInv'
  BY DEF AnswerInv
<1>8. AnswerIntegrity'
  BY DEF AnswerIntegrity
<1> QED BY <1>1, <1>2, <1>3, <1>4, <1>5, <1>6, <1>7, <1>8

LEMMA SigintFlow == ASSUME TypeInv, FlowInv, NEW p \in Servers, SigintCaught(p) PROVE FlowInv'
<1>1. PICK label : /\ pc' = [pc EXCEPT ![p] = label]
                   /\ \/ label = pc[p]
                      \/ pc[p] = "accept" /\ label = "loop"
                      \/ pc[p] = "recv" /\ label = "spin"
                      \/ pc[p] = "await" /\ label = "await_spin"
  BY DEF SigintCaught, Interrupted, Goto
<1>2. UNCHANGED <<cur, request, resp, netVars, clientVars, history>>
  BY DEF SigintCaught
<1>3. CASE label = pc[p]
  <2>1. pc' = pc
    BY <1>1, <1>3, ProcFacts DEF TypeInv, TypeOK, ProcType
  <2> QED BY <1>2, <2>1, UnseenStep
<1>4. CASE pc[p] = "accept" /\ label = "loop"
  BY <1>1, <1>2, <1>4, CalmStep DEF Calm
<1>5. CASE pc[p] = "recv" /\ label = "spin"
  BY <1>1, <1>2, <1>5, FrontStep, SpinFlow DEF netVars, Servers
<1>6. CASE pc[p] = "await" /\ label = "await_spin"
  <2>1. p = Portal
    BY <1>6 DEF TypeInv, TypeOK, ProcType, Servers, ServicePc, Down, LoopPc
  <2> QED BY <1>1, <1>2, <1>6, <2>1, SpinFlow
<1> QED BY <1>1, <1>3, <1>4, <1>5, <1>6

LEMMA ClientCrashFlow == ASSUME TypeInv, FlowInv, NEW c \in Clients, ClientCrash(c) PROVE FlowInv'
<1> USE ProcFacts, NoneFacts DEF TypeInv, TypeOK, ProcType, FlowInv,
        netVars, clientVars, history, Ended, Sent, PortalBusy, PortalCalling,
        PortalAwaits, PortalEnded, ServiceBusy, Live, Fresh, Alive, Target
<1>0. /\ pc' = [pc EXCEPT ![c] = "dead"]
      /\ UNCHANGED <<cur, request, resp, backlog, serverEnd, up, down, clientVars, history>>
  BY DEF ClientCrash, Goto
<1>1. UnreadInv'
  BY <1>0 DEF UnreadInv
<1>2. BusyInv'
  BY <1>0, PortalConn DEF BusyInv
<1>3. CallInv'
  BY <1>0 DEF CallInv
<1>4. ServeInv'
  BY <1>0 DEF ServeInv
<1>5. LiveInv'
  BY <1>0 DEF LiveInv
<1>6. StartInv'
  BY <1>0 DEF StartInv
<1>7. AnswerInv'
  BY <1>0 DEF AnswerInv
<1>8. AnswerIntegrity'
  BY <1>0 DEF AnswerIntegrity
<1> QED BY <1>1, <1>2, <1>3, <1>4, <1>5, <1>6, <1>7, <1>8

-----------------------------------------------------------------------------
(* The inductive step *)

LEMMA InitFlow == Init => FlowInv
<1> SUFFICES ASSUME Init PROVE FlowInv
  OBVIOUS
<1>1. /\ pc[Portal] = "boot"
      /\ \A c \in Clients : pc[c] = "connect"
      /\ \A s \in Services : pc[s] = "unborn" /\ cur[s] = None /\ backlog[s] = <<>>
  BY ProcFacts DEF Init
<1>2. /\ \A x \in Conns : up[x] = None /\ down[x] = None /\ serverEnd[x] = "none"
      /\ \A c \in Clients : answer[c] = None /\ outcome[c] = None /\ execs[c] = 0
  BY DEF Init
<1>3. UnreadInv /\ BusyInv /\ StartInv /\ AnswerInv /\ AnswerIntegrity
  BY <1>1, <1>2, ProcFacts, NoneFacts
  DEF UnreadInv, BusyInv, StartInv, AnswerInv, AnswerIntegrity, Fresh, Sent, PortalBusy,
      PortalCalling
<1>4. CallInv /\ ServeInv /\ LiveInv
  BY <1>1, <1>2, ProcFacts, NoneFacts
  DEF CallInv, ServeInv, LiveInv, Live, Alive, ServiceBusy, Ended
<1> QED BY <1>3, <1>4 DEF FlowInv

LEMMA ServeFlow == ASSUME TypeInv, FlowInv, NEW p \in Servers, Serve(p) PROVE FlowInv'
<1>1. CASE p = Portal
  BY <1>1, StartFlow, CalmActions, PortalAccepts, PortalReads, PortalDrops, PortalReplies DEF Serve
<1>2. CASE p \in Services
  BY <1>2, ProcFacts, CalmActions, ServiceAccepts, ServiceReads, ServiceDrops, ServiceReplies
  DEF Serve
<1> QED BY <1>1, <1>2 DEF Servers

LEMMA ClientCallFlow == ASSUME TypeInv, FlowInv, NEW c \in Clients, Call(c) PROVE FlowInv'
<1>1. CASE ConnectFails(c)
  BY <1>1, ClientReturns DEF ConnectFails, CallEnds, Goto, netVars
<1>2. CASE SendFails(c)
  BY <1>2, ClientReturns DEF SendFails, CallEnds, Goto
<1>3. CASE Receive(c)
  <2>1. Target(c) = c
    BY DEF Target
  <2> DEFINE r == IF down[c] = None THEN Failed ELSE down[c]
  <2>2. /\ r \in Response \cup {Failed}
        /\ r = Failed \/ (r = down[c] /\ r # None)
    BY DEF TypeInv, TypeOK, NetType, Conns
  <2>3. /\ pc[c] \in {"connect", "send", "await"}
        /\ pc' = [pc EXCEPT ![c] = "done"]
        /\ outcome' = [outcome EXCEPT ![c] = r]
        /\ down' \in {down, [down EXCEPT ![c] = None]}
        /\ UNCHANGED <<resp, cur, request, backlog, serverEnd, up, req, history>>
    BY <1>3, <2>1 DEF Receive, CallEnds, Goto
  <2> HIDE DEF r
  <2> QED BY <2>2, <2>3, ClientReturns
<1> QED BY <1>1, <1>2, <1>3, ClientConnects, ClientSends DEF Call

LEMMA PortalCallFlow ==
    ASSUME TypeInv, FlowInv, Call(Portal) \/ SpinEnds
    PROVE  FlowInv'
<1> USE ProcFacts DEF TypeInv, TypeOK, ProcType, CallEnds, Goto
<1>1. ASSUME pc[Portal] \in {"connect", "send", "await", "await_spin"},
             pc[Portal] = "connect" \/ ~Alive(Target(Portal))
      PROVE  Target(Portal) \in Services /\ \A s \in Services : ~Alive(s)
  <2>1. Target(Portal) \in Services
    BY <1>1, CallerFacts DEF Callers
  <2>2. \A s \in Services : Alive(s) => PortalCalling /\ Target(Portal) = s
    BY <1>1 DEF FlowInv, CallInv, PortalEnded, Ended
  <2> QED BY <1>1, <2>1, <2>2 DEF PortalCalling
<1>2. CASE ConnectFails(Portal)
  BY <1>1, <1>2, PortalReturns DEF ConnectFails, netVars
<1>3. CASE SendFails(Portal)
  <2>1. Encodable(req[Origin(Portal)])
    BY <1>3 DEF SendFails, FlowInv, BusyInv, PortalBusy, Origin
  <2> QED BY <1>1, <1>3, <2>1, PortalReturns DEF SendFails
<1>4. CASE Receive(Portal)
  <2> DEFINE x == Target(Portal)
             r == IF down[x] = None THEN resp[Portal] ELSE down[x]
  <2>1. x \in Services /\ \A s \in Services : ~Alive(s)
    BY <1>1, <1>4 DEF Receive
  <2>2. r = resp[Portal] \/ (PortalCalling /\ r = down[x] /\ r # None)
    BY <1>4 DEF Receive, PortalCalling
  <2>3. /\ pc[Portal] = "await"
        /\ pc' = [pc EXCEPT ![Portal] = "reply"]
        /\ resp' = [resp EXCEPT ![Portal] = r]
        /\ down' = [down EXCEPT ![x] = None]
        /\ UNCHANGED <<cur, request, backlog, serverEnd, up, req, outcome, history>>
    BY <1>4 DEF Receive
  <2>4. x = Target(Portal)
    OBVIOUS
  <2> HIDE DEF r, x
  <2> QED BY <2>1, <2>2, <2>3, <2>4, PortalReturns
<1>5. CASE SpinEnds
  BY <1>1, <1>5, PortalReturns DEF SpinEnds, Alive
<1> QED BY <1>2, <1>3, <1>4, <1>5, PortalConnects, PortalSends DEF Call

LEMMA EndsFlow ==
    ASSUME TypeInv, FlowInv, NEW p \in Servers, NEW last \in {"exited", "dead"}, Ends(p, last)
    PROVE  FlowInv'
BY PortalEnds, ServiceEnds DEF Servers

LEMMA FlowStep == TypeInv /\ FlowInv /\ [Next]_vars => FlowInv'
<1> SUFFICES ASSUME TypeInv, FlowInv, [Next]_vars PROVE FlowInv'
  OBVIOUS
<1>1. CASE PortalStep
  BY <1>1, ProcFacts, StartFlow, ServeFlow, PortalCallFlow, EndsFlow DEF PortalStep, PortalExit
<1>2. CASE \E s \in Services : ServiceStep(s)
  BY <1>2, ProcFacts, ServeFlow, CalmActions, MicroHandleFlow, EndsFlow
  DEF ServiceStep, WildCrash, ServiceExit
<1>3. CASE \E c \in Clients : Call(c)
  BY <1>3, ClientCallFlow
<1>4. CASE Environment
  BY <1>4, ProcFacts, CalmActions, SigintFlow, ClientCrashFlow, EndsFlow
  DEF Environment, BindFails, ForkFails, SigintKills, Crash
<1>5. CASE UNCHANGED vars
  BY <1>5, UnseenStep DEF vars, procVars
<1> QED BY <1>1, <1>2, <1>3, <1>4, <1>5 DEF Next, Idle

THEOREM InvariantHolds == Spec => []IInv
<1>1. TypeInv /\ FlowInv <=> IInv
  BY DEF TypeInv, IInv
<1>2. Init => TypeInv /\ FlowInv
  BY InitType, InitFlow
<1>3. TypeInv /\ FlowInv /\ [Next]_vars => (TypeInv /\ FlowInv)'
  BY TypeStep, FlowStep
<1> QED BY <1>1, <1>2, <1>3, PTL DEF Spec

\* A client only ever reports the answer computed for its own request or the
\* zero response: see AnswerIntegrity.
THEOREM AnswersAreOwn == Spec => []AnswerIntegrity
<1>1. IInv => AnswerIntegrity
  BY DEF IInv, FlowInv
<1> QED BY <1>1, InvariantHolds, PTL

\* Only a service that holds a request executes it, and IInv says what is true
\* of such a request.
LEMMA ExecutesStep ==
    ASSUME TypeInv, FlowInv, [Next]_vars, NEW c \in Clients, execs'[c] # execs[c]
    PROVE  execs[c] = 0 /\ execs'[c] = 1 /\ outcome[c] \notin Response
<1>1. PICK s \in Services : MicroHandle(s)
  BY DEF Next, PortalStep, ServiceStep, Serve, Call, Environment, Idle, vars, history,
         Boot, LoopCheck, Accept, AcceptFails, ReadRequest, DropConnection, Reply, Fork, ForkFails,
         ServiceLoad, WildCrash, SaveOpen, SaveWrite, ServiceExit, PortalExit, SpinEnds,
         Connect, ConnectFails, Send, SendFails, Receive,
         BindFails, SigintCaught, SigintKills, Crash, ClientCrash, Ends
<1>2. request[s] \in Clients
  BY <1>1, MicroResult
<1>3. execs' = [execs EXCEPT ![request[s]] = @ + 1]
  BY <1>1 DEF MicroHandle
<1>4. c = request[s] /\ execs'[c] = execs[c] + 1
  BY <1>2, <1>3 DEF TypeInv, TypeOK, ClientType
<1>5. Live(s, c)
  BY <1>1, <1>4 DEF MicroHandle, Live, Ended
<1> QED BY <1>4, <1>5 DEF FlowInv, LiveInv, Fresh

\* No request is executed twice, or after its client has reported a response:
\* see ExecutesOnceInTime.
THEOREM ExecutesOnce == Spec => ExecutesOnceInTime
<1>1. IInv /\ [Next]_vars =>
        [\A c \in Clients : execs'[c] # execs[c] =>
            /\ execs[c] = 0
            /\ execs'[c] = 1
            /\ outcome[c] \notin Response]_vars
  BY ExecutesStep DEF IInv, TypeInv
<1> QED BY <1>1, InvariantHolds, PTL DEF Spec, ExecutesOnceInTime

=============================================================================
