------------------------------ MODULE Lifecycle ------------------------------
(***************************************************************************)
(* Several lives of the program: what one leaves behind for the next, in   *)
(* ports and in files.  A life is one portal with its two services.  The   *)
(* next one may be started at any time, while processes of an earlier one  *)
(* still run.                                                              *)
(*                                                                         *)
(* What NewsPortal says of one life in detail is coarse here: a service is *)
(* updated at any time, by way of the portal or of a program that calls    *)
(* its port, and a document is the number of updates in it.                *)
(***************************************************************************)
EXTENDS Integers

CONSTANTS
    MaxLives,    \* how often the program is started
    MaxUpdates,  \* how many updates each document gets
    Unreadable,  \* a file that does not parse; a context without a document
    None         \* no context

ASSUME LifecycleAssumption ==
    /\ MaxLives \in Nat /\ MaxUpdates \in Nat
    /\ Unreadable \notin Nat /\ None \notin Nat \cup {Unreadable}

Services == {"weather", "currency"}
Roles == {"portal"} \cup Services     \* and their ports
Lives == 1 .. MaxLives
Procs == Lives \X Roles

Life(p) == p[1]
Role(p) == p[2]
PortalOf(p) == <<Life(p), "portal">>
IsPortal(p) == Role(p) = "portal"

VARIABLES
    pc,         \* unborn, boot, fork_weather, fork_currency, load, loop, finish,
                \* save, stop, ended
    holders,    \* which processes hold the listening socket of a port
    lingering,  \* the ports with a connection in TIME_WAIT
    context,    \* the document of a service
    file,       \* the documents on disk
    updates,    \* history: the updates of each document so far
    harmed      \* history: the documents that a death or the disk has hurt

vars == <<pc, holders, lingering, context, file, updates, harmed>>

Down == {"unborn", "ended"}
Running(p) == pc[p] \notin Down

Init ==
    /\ pc = [p \in Procs |-> "unborn"]
    /\ holders = [r \in Roles |-> {}]
    /\ lingering = {}
    /\ context = [p \in Procs |-> None]
    /\ file \in [Services -> {0, Unreadable}]
    /\ updates = [s \in Services |-> 0]
    /\ harmed = {s \in Services : file[s] = Unreadable}

Goto(p, label) == pc' = [pc EXCEPT ![p] = label]

\* The end of a process closes its sockets and takes its memory.
Ends(p) ==
    /\ Goto(p, "ended")
    /\ holders' = [r \in Roles |-> holders[r] \ {p}]
    /\ context' = [context EXCEPT ![p] = None]
    /\ UNCHANGED <<lingering, file, updates>>

-----------------------------------------------------------------------------
(* Starting up *)

Start(l) ==
    LET p == <<l, "portal">> IN
    /\ pc[p] = "unborn"
    /\ \A k \in 1 .. l - 1 : pc[<<k, "portal">>] # "unborn"
    /\ Goto(p, "boot")
    /\ UNCHANGED <<holders, lingering, context, file, updates, harmed>>

Free(r) == holders[r] = {} /\ r \notin lingering

\* Wrong: SO_REUSEPORT, which lets a second socket listen on the port.
BootShares(p) ==
    /\ pc[p] = "boot"
    /\ holders' = [holders EXCEPT ![Role(p)] = @ \cup {p}]
    /\ Goto(p, IF IsPortal(p) THEN "fork_weather" ELSE "load")
    /\ UNCHANGED <<lingering, context, file, updates, harmed>>

\* server_init(): no SO_REUSEADDR, so bind() takes a port that is free.
Boot(p) ==
    /\ pc[p] = "boot" /\ Free(Role(p))
    /\ holders' = [holders EXCEPT ![Role(p)] = {p}]
    /\ Goto(p, IF IsPortal(p) THEN "fork_weather" ELSE "load")
    /\ UNCHANGED <<lingering, context, file, updates, harmed>>

BindFails(p) ==
    /\ pc[p] = "boot" /\ ~Free(Role(p))
    /\ Ends(p)
    /\ UNCHANGED harmed

ForkLabel(s) == IF s = "weather" THEN "fork_weather" ELSE "fork_currency"

\* Wrong: the child closes the socket it inherits.
ForkCloses(p) ==
    LET q == PortalOf(p) IN
    /\ ~IsPortal(p) /\ pc[q] = ForkLabel(Role(p))
    /\ pc' = [pc EXCEPT ![p] = "boot",
                        ![q] = IF Role(p) = "weather" THEN "fork_currency" ELSE "loop"]
    /\ UNCHANGED <<holders, lingering, context, file, updates, harmed>>

\* The child holds the listening socket of the portal, too, until it ends.
Fork(p) ==
    LET q == PortalOf(p) IN
    /\ ~IsPortal(p) /\ pc[q] = ForkLabel(Role(p))
    /\ pc' = [pc EXCEPT ![p] = "boot",
                        ![q] = IF Role(p) = "weather" THEN "fork_currency" ELSE "loop"]
    /\ holders' = [holders EXCEPT !["portal"] = @ \cup {p}]
    /\ UNCHANGED <<lingering, context, file, updates, harmed>>

ForkFails(q) ==
    /\ pc[q] \in {"fork_weather", "fork_currency"}
    /\ Ends(q)
    /\ UNCHANGED harmed

\* A file that does not parse leaves the context uninitialised.
ServiceLoad(p) ==
    /\ pc[p] = "load"
    /\ context' = [context EXCEPT ![p] = file[Role(p)]]
    /\ Goto(p, "loop")
    /\ UNCHANGED <<holders, lingering, file, updates, harmed>>

-----------------------------------------------------------------------------
(* Running *)

Update(p) ==
    LET s == Role(p) IN
    /\ ~IsPortal(p) /\ pc[p] = "loop"
    /\ context[p] # Unreadable /\ updates[s] < MaxUpdates
    /\ context' = [context EXCEPT ![p] = @ + 1]
    /\ updates' = [updates EXCEPT ![s] = @ + 1]
    /\ UNCHANGED <<pc, holders, lingering, file, harmed>>

\* A connection that this side closes first keeps the port for a minute.
Linger(r) ==
    /\ holders[r] # {} /\ r \notin lingering
    /\ lingering' = lingering \cup {r}
    /\ UNCHANGED <<pc, holders, context, file, updates, harmed>>

Expire(r) ==
    /\ r \in lingering
    /\ lingering' = lingering \ {r}
    /\ UNCHANGED <<pc, holders, context, file, updates, harmed>>

\* SIGINT, or accept() fails.
Leave(p) ==
    /\ pc[p] = "loop"
    /\ Goto(p, IF IsPortal(p) THEN "stop" ELSE "finish")
    /\ UNCHANGED <<holders, lingering, context, file, updates, harmed>>

-----------------------------------------------------------------------------
(* Leaving *)

\* json_dump_file() truncates the file, unless the disk fails already.
SaveOpen(p) ==
    LET s == Role(p) IN
    /\ pc[p] = "finish"
    /\ \/ /\ file' = [file EXCEPT ![s] = Unreadable]
          /\ Goto(p, "save")
          /\ UNCHANGED harmed
       \/ /\ harmed' = harmed \cup {s}
          /\ Goto(p, "stop")
          /\ UNCHANGED file
    /\ UNCHANGED <<holders, lingering, context, updates>>

\* A context that is no object, and a write that fails, leave it as it is.
SaveWrite(p) ==
    LET s == Role(p) IN
    /\ pc[p] = "save"
    /\ Goto(p, "stop")
    /\ \/ /\ file' = [file EXCEPT ![s] = context[p]]
          /\ UNCHANGED harmed
       \/ /\ harmed' = harmed \cup {s}
          /\ UNCHANGED file
    /\ UNCHANGED <<holders, lingering, context, updates>>

\* server_stop(): the portal waits for its own children.
Exit(p) ==
    /\ pc[p] = "stop"
    /\ IsPortal(p) => \A s \in Services : pc[<<Life(p), s>>] \in Down
    /\ Ends(p)
    /\ UNCHANGED harmed

\* A process dies at any point: of a second SIGINT, of a context that was not
\* initialised, or for a reason of its own.
Dies(p) ==
    LET s == Role(p)
        owner == ~IsPortal(p) /\ pc[p] \in {"loop", "finish", "save"}
    IN /\ Running(p)
       /\ Ends(p)
       /\ harmed' = IF owner /\ file[s] # updates[s] THEN harmed \cup {s} ELSE harmed

Next ==
    \/ \E l \in Lives : Start(l)
    \/ \E p \in Procs :
          \/ Boot(p) \/ BindFails(p) \/ Fork(p) \/ ForkFails(p) \/ ServiceLoad(p)
          \/ Update(p) \/ Leave(p) \/ SaveOpen(p) \/ SaveWrite(p) \/ Exit(p) \/ Dies(p)
    \/ \E r \in Roles : Linger(r) \/ Expire(r)

Spec == Init /\ [][Next]_vars

-----------------------------------------------------------------------------
Documents == 0 .. MaxUpdates \cup {Unreadable}

TypeOK ==
    /\ pc \in [Procs -> Down \cup {"boot", "fork_weather", "fork_currency", "load", "loop",
                                   "finish", "save", "stop"}]
    /\ holders \in [Roles -> SUBSET Procs]
    /\ lingering \subseteq Roles
    /\ context \in [Procs -> Documents \cup {None}]
    /\ file \in [Services -> Documents]
    /\ updates \in [Services -> 0 .. MaxUpdates]
    /\ harmed \subseteq Services
    \* A process past its bind() holds its port; a service holds its portal's, too.
    /\ \A p \in Procs :
          /\ Running(p) /\ pc[p] # "boot" => p \in holders[Role(p)]
          /\ Running(p) /\ ~IsPortal(p) => p \in holders["portal"]
          /\ ~Running(p) => \A r \in Roles : p \notin holders[r]

\* The processes of two lives never run at the same time, but for a portal that
\* is about to ask for its port: a service that is left behind keeps the port of
\* its dead portal from the next one, which would otherwise send its requests to
\* that service (main.c:54, 64, 73; server.c:99).
Started(p) == Running(p) /\ ~(IsPortal(p) /\ pc[p] = "boot")

OneLifeAtATime == \A p, q \in Procs : Started(p) /\ Started(q) => Life(p) = Life(q)

\* Whoever has document s in memory and will write it.
Owners(s) == {p \in Lives \X {s} : pc[p] \in {"loop", "finish", "save"}}

\* No update is ever lost from one life to a later one, unless a service dies
\* with updates that are not on disk, or the disk fails: the service in charge
\* has all of them in memory, and when there is none they are in the file, which
\* is only incomplete while that service writes it (microservices.c:40, 272,
\* 278; server.c:99, 160).
UpdatesSurvive ==
    \A s \in Services \ harmed :
        /\ \A p \in Owners(s) : context[p] = updates[s]
        /\ Owners(s) = {} => file[s] = updates[s]
        /\ file[s] = Unreadable => \E p \in Owners(s) : pc[p] = "save"
=============================================================================
