---------------------------- MODULE AtomicPortal ----------------------------
(***************************************************************************)
(* What the program promises its clients, without processes or sockets: a  *)
(* request takes effect at most once, in one step, on the document of its  *)
(* service.  A client that reports a response got what that step computed, *)
(* or the zero response of a portal that could not reach the service; a    *)
(* client that reports an error may see its request executed all the same, *)
(* before or after.                                                        *)
(***************************************************************************)
EXTENDS Microservices

CONSTANTS Clients, Requests, None, Failed, Wild

VARIABLES
    db,       \* the document of each service
    req,      \* the request of each client
    answer,   \* what the execution of that request computed
    outcome   \* what the client reports

vars == <<db, req, answer, outcome>>

Init ==
    /\ db = [s \in Services |-> NullJson]
    /\ req \in [Clients -> Requests]
    /\ answer = [c \in Clients |-> None]
    /\ outcome = [c \in Clients |-> None]

ServiceOf(c) == get_base_request(req[c].type)

\* A service reads its file before it executes anything.
Load(s) ==
    /\ \A c \in Clients : ServiceOf(c) = s => answer[c] = None
    /\ db' = [db EXCEPT ![s] = db'[s]]
    /\ db'[s] \in Document(s) \cup {NullJson, Wild}
    /\ UNCHANGED <<req, answer, outcome>>

Execute(c) ==
    LET s == ServiceOf(c)
        result == micro_handle_request(s, db[s], req[c])
    IN /\ answer[c] = None
       /\ outcome[c] \in {None, Failed}
       /\ db[s] # Wild
       /\ db' = [db EXCEPT ![s] = result.json]
       /\ answer' = [answer EXCEPT ![c] = result.resp]
       /\ UNCHANGED <<req, outcome>>

Finish(c) ==
    /\ outcome[c] = None
    /\ \E r \in {answer[c], ZeroResponse, Failed} \ {None} :
          outcome' = [outcome EXCEPT ![c] = r]
    /\ UNCHANGED <<db, req, answer>>

Next ==
    \/ \E s \in Services : Load(s)
    \/ \E c \in Clients : Execute(c) \/ Finish(c)

Spec == Init /\ [][Next]_vars
=============================================================================
