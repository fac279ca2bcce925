--------------------------- MODULE LifecycleProofs ---------------------------
(***************************************************************************)
(* The lives of the program, for any number of them and of updates.        *)
(***************************************************************************)
EXTENDS Lifecycle, TLAPS

-----------------------------------------------------------------------------
(* The inductive invariant *)

\* The listening socket of a portal is only handed on within its life.
HoldersInv == \A p, q \in holders["portal"] : Life(p) = Life(q)

\* A portal has no document.
RoleInv == \A p \in Procs : pc[p] \in {"load", "finish", "save"} => ~IsPortal(p)

\* A portal forks each of its services once.
ForkInv ==
    \A p \in Procs :
        ~IsPortal(p) /\ pc[PortalOf(p)] \in {"unborn", "boot", "fork_weather", ForkLabel(Role(p))}
            => pc[p] = "unborn"

Owning(p) == ~IsPortal(p) /\ pc[p] \in {"loop", "finish", "save"}

\* Nobody has an update that was never made.
ContextInv ==
    /\ \A s \in Services : file[s] # Unreadable => file[s] <= updates[s]
    /\ \A p \in Procs : ~IsPortal(p) =>
          /\ context[p] \in Nat => context[p] <= updates[Role(p)]
          /\ Owning(p) => context[p] # None

\* UpdatesSurvive, in terms of processes.
Survive ==
    \A s \in Services \ harmed :
        /\ \A p \in Procs : Role(p) = s /\ Owning(p) => context[p] = updates[s]
        /\ (\A p \in Procs : Role(p) = s => ~Owning(p)) => file[s] = updates[s]
        /\ file[s] = Unreadable =>
              \E p \in Procs : Role(p) = s /\ Owning(p) /\ pc[p] = "save"

IInv == TypeOK /\ RoleInv /\ HoldersInv /\ ForkInv /\ ContextInv /\ Survive

-----------------------------------------------------------------------------
(* Processes *)

LEMMA ProcFacts ==
    /\ \A p \in Procs :
          /\ Life(p) \in Lives /\ Role(p) \in Roles
          /\ IsPortal(p) <=> Role(p) = "portal"
          /\ ~IsPortal(p) => Role(p) \in Services
          /\ PortalOf(p) \in Procs
          /\ IsPortal(PortalOf(p))
          /\ Life(PortalOf(p)) = Life(p)
    /\ \A p, q \in Procs : Life(p) = Life(q) /\ Role(p) = Role(q) => p = q
    /\ \A l \in Lives : <<l, "portal">> \in Procs /\ IsPortal(<<l, "portal">>)
    /\ Services \subseteq Roles /\ "portal" \in Roles /\ "portal" \notin Services
BY DEF Procs, Life, Role, IsPortal, PortalOf, Roles, Services

LEMMA OwnerFacts ==
    \A s \in Services : Owners(s) = {p \in Procs : Role(p) = s /\ Owning(p)}
BY DEF Owners, Owning, Procs, Roles, Role, IsPortal, Services

LEMMA OneLife == TypeOK /\ HoldersInv => OneLifeAtATime
<1> SUFFICES ASSUME TypeOK, HoldersInv, NEW p \in Procs, NEW q \in Procs, Started(p), Started(q)
             PROVE  Life(p) = Life(q)
  BY DEF OneLifeAtATime
<1>1. p \in holders["portal"] /\ q \in holders["portal"]
  BY ProcFacts DEF Started, TypeOK
<1> QED BY <1>1 DEF HoldersInv

\* So a document has one owner at most.
LEMMA OneOwner ==
    ASSUME TypeOK, HoldersInv, NEW s \in Services, NEW p \in Procs, NEW q \in Procs,
           Role(p) = s, Role(q) = s,
           pc[p] \in {"load", "loop", "finish", "save"},
           pc[q] \in {"load", "loop", "finish", "save"}
    PROVE  p = q
<1>1. Started(p) /\ Started(q)
  BY ProcFacts DEF Started, Running, Down
<1> QED BY <1>1, OneLife, ProcFacts DEF OneLifeAtATime

-----------------------------------------------------------------------------
(* Types and sockets *)

LEMMA TypeStep ==
    ASSUME TypeOK, RoleInv, HoldersInv, ContextInv, [Next]_vars
    PROVE  TypeOK' /\ RoleInv' /\ HoldersInv'
<1> USE ProcFacts, LifecycleAssumption
<1> DEFINE Goal == TypeOK' /\ RoleInv' /\ HoldersInv'
<1>1. ASSUME NEW p \in Procs, Ends(p), harmed' \subseteq Services
      PROVE  Goal
  BY <1>1 DEF Ends, Goto, TypeOK, RoleInv, HoldersInv, Running, Down, Documents
<1>2. ASSUME NEW p \in Procs, Boot(p) PROVE Goal
  BY <1>2 DEF Boot, Free, Goto, TypeOK, RoleInv, HoldersInv, Running, Down
<1>3. ASSUME NEW p \in Procs, Fork(p) PROVE Goal
  <2>1. PortalOf(p) \in holders["portal"]
    BY <1>3 DEF Fork, ForkLabel, TypeOK, Running, Down
  <2>2. TypeOK' /\ RoleInv'
    BY <1>3 DEF Fork, ForkLabel, TypeOK, RoleInv, Running, Down
  <2>3. HoldersInv'
    BY <1>3, <2>1 DEF Fork, TypeOK, HoldersInv
  <2> QED BY <2>2, <2>3
<1>4. ASSUME NEW p \in Procs, NEW label \in {"loop", "finish", "save", "stop"}, Goto(p, label),
             Running(p), pc[p] # "boot", label \in {"finish", "save"} => ~IsPortal(p),
             UNCHANGED <<holders, lingering, updates>>,
             context' \in [Procs -> Documents \cup {None}],
             file' \in [Services -> Documents], harmed' \subseteq Services
      PROVE  Goal
  BY <1>4 DEF Goto, TypeOK, RoleInv, HoldersInv, Running, Down
<1>5. ASSUME NEW p \in Procs, ServiceLoad(p) PROVE Goal
  <2>1. Role(p) \in Services
    BY <1>5 DEF ServiceLoad, RoleInv
  <2> QED BY <1>4, <1>5, <2>1 DEF ServiceLoad, TypeOK, Running, Down
<1>6. ASSUME NEW p \in Procs, Leave(p) PROVE Goal
  BY <1>4, <1>6 DEF Leave, TypeOK, Running, Down
<1>7. ASSUME NEW p \in Procs, SaveOpen(p) PROVE Goal
  <2>1. Role(p) \in Services
    BY <1>7 DEF SaveOpen, RoleInv
  <2> QED BY <1>4, <1>7, <2>1 DEF SaveOpen, TypeOK, Running, Down, Documents
<1>8. ASSUME NEW p \in Procs, SaveWrite(p) PROVE Goal
  <2>1. Role(p) \in Services /\ context[p] \in Documents
    BY <1>8 DEF SaveWrite, RoleInv, ContextInv, Owning, TypeOK
  <2> QED BY <1>4, <1>8, <2>1 DEF SaveWrite, TypeOK, Running, Down
<1>9. ASSUME NEW p \in Procs, Update(p) PROVE Goal
  <2>1. /\ Role(p) \in Services
        /\ context[p] \in 0 .. MaxUpdates
        /\ context[p] <= updates[Role(p)]
        /\ updates[Role(p)] \in 0 .. MaxUpdates
    BY <1>9 DEF Update, ContextInv, Owning, TypeOK, Documents
  <2>2. context[p] + 1 \in 0 .. MaxUpdates /\ updates[Role(p)] + 1 \in 0 .. MaxUpdates
    BY <1>9, <2>1 DEF Update
  <2> QED BY <1>9, <2>1, <2>2 DEF Update, TypeOK, RoleInv, HoldersInv, Running, Documents
<1>10. ASSUME NEW l \in Lives, Start(l) PROVE Goal
  BY <1>10 DEF Start, Goto, TypeOK, RoleInv, HoldersInv, Running, Down
<1>11. ASSUME NEW r \in Roles, Linger(r) \/ Expire(r) PROVE Goal
  BY <1>11 DEF Linger, Expire, TypeOK, RoleInv, HoldersInv, Running, Down
<1>12. ASSUME UNCHANGED vars PROVE Goal
  BY <1>12 DEF vars, TypeOK, RoleInv, HoldersInv, Running
<1>13. ASSUME NEW p \in Procs, BindFails(p) \/ ForkFails(p) \/ Exit(p) \/ Dies(p) PROVE Goal
  BY <1>1, <1>13 DEF BindFails, ForkFails, Exit, Dies, TypeOK
<1> HIDE DEF Goal
<1>14. Goal
  BY <1>2, <1>3, <1>5, <1>6, <1>7, <1>8, <1>9, <1>10, <1>11, <1>12, <1>13 DEF Next
<1> QED BY <1>14 DEF Goal

LEMMA ForkStep == ASSUME TypeOK, RoleInv, ForkInv, [Next]_vars PROVE ForkInv'
<1> USE ProcFacts DEF TypeOK, ForkInv, ForkLabel, Goto
<1> DEFINE Forks == {"unborn", "boot", "fork_weather", "fork_currency"}
<1>1. ASSUME NEW p \in Procs, NEW label \in STRING, pc' = [pc EXCEPT ![p] = label],
             pc[p] # "unborn" \/ IsPortal(p), label # "unborn",
             label \notin Forks \/ ~IsPortal(p)
             \/ (label = "boot" /\ pc[p] = "unborn")
             \/ (label = "fork_weather" /\ pc[p] = "boot")
      PROVE  ForkInv'
  BY <1>1
<1>2. ASSUME NEW p \in Procs, Ends(p), pc[p] # "unborn" PROVE ForkInv'
  BY <1>1, <1>2 DEF Ends
<1>3. ASSUME NEW p \in Procs, Boot(p) PROVE ForkInv'
  BY <1>1, <1>3 DEF Boot
<1>4. ASSUME NEW p \in Procs, Fork(p) PROVE ForkInv'
  BY <1>4 DEF Fork, Services
<1>5. ASSUME NEW p \in Procs,
             ServiceLoad(p) \/ Leave(p) \/ SaveOpen(p) \/ SaveWrite(p)
      PROVE  ForkInv'
  BY <1>1, <1>5 DEF ServiceLoad, Leave, SaveOpen, SaveWrite
<1>6. ASSUME NEW l \in Lives, Start(l) PROVE ForkInv'
  BY <1>1, <1>6 DEF Start
<1>7. ASSUME UNCHANGED pc PROVE ForkInv'
  BY <1>7
<1>8. ASSUME NEW p \in Procs, BindFails(p) \/ ForkFails(p) \/ Exit(p) \/ Dies(p) PROVE ForkInv'
  BY <1>2, <1>8 DEF BindFails, ForkFails, Exit, Dies, Running, Down
<1> QED BY <1>3, <1>4, <1>5, <1>6, <1>7, <1>8 DEF Next, Update, Linger, Expire, vars

-----------------------------------------------------------------------------
(* Documents *)

LEMMA ContextStep ==
    ASSUME TypeOK, RoleInv, ContextInv, [Next]_vars PROVE ContextInv'
<1> USE ProcFacts, LifecycleAssumption DEF TypeOK, ContextInv, Owning, Goto, Documents
<1>1. ASSUME NEW p \in Procs, Ends(p) PROVE ContextInv'
  BY <1>1 DEF Ends
<1>2. ASSUME NEW p \in Procs, NEW label \in STRING, pc' = [pc EXCEPT ![p] = label],
             label \in {"loop", "finish", "save"} /\ ~IsPortal(p)
               => pc[p] \in {"loop", "finish", "save"},
             UNCHANGED <<context, file, updates>>
      PROVE  ContextInv'
  BY <1>2
<1>3. ASSUME NEW p \in Procs, Boot(p) \/ Leave(p) PROVE ContextInv'
  BY <1>2, <1>3 DEF Boot, Leave
<1>4. ASSUME NEW p \in Procs, Fork(p) PROVE ContextInv'
  BY <1>4 DEF Fork
<1>5. ASSUME NEW p \in Procs, ServiceLoad(p) PROVE ContextInv'
  BY <1>5 DEF ServiceLoad, RoleInv
<1>6. ASSUME NEW p \in Procs, Update(p) PROVE ContextInv'
  BY <1>6 DEF Update
<1>7. ASSUME NEW p \in Procs, SaveOpen(p) PROVE ContextInv'
  BY <1>7 DEF SaveOpen, RoleInv
<1>8. ASSUME NEW p \in Procs, SaveWrite(p) PROVE ContextInv'
  BY <1>8 DEF SaveWrite, RoleInv
<1>9. ASSUME NEW l \in Lives, Start(l) PROVE ContextInv'
  BY <1>2, <1>9 DEF Start
<1>10. ASSUME UNCHANGED <<pc, context, file, updates>> PROVE ContextInv'
  BY <1>10
<1>11. ASSUME NEW p \in Procs, BindFails(p) \/ ForkFails(p) \/ Exit(p) \/ Dies(p)
       PROVE  ContextInv'
  BY <1>1, <1>11 DEF BindFails, ForkFails, Exit, Dies
<1> QED
  BY <1>3, <1>4, <1>5, <1>6, <1>7, <1>8, <1>9, <1>10, <1>11 DEF Next, Linger, Expire, vars

LEMMA SurviveForm == UpdatesSurvive <=> Survive
BY OwnerFacts DEF UpdatesSurvive, Survive

LEMMA SurviveStep ==
    ASSUME TypeOK, RoleInv, HoldersInv, ForkInv, ContextInv, Survive, [Next]_vars
    PROVE  Survive'
<1> USE ProcFacts, LifecycleAssumption DEF TypeOK, Survive, Owning, Goto
<1>1. ASSUME NEW p \in Procs, Ends(p), harmed \subseteq harmed',
             Owning(p) => Role(p) \in harmed' \/ (file[Role(p)] = updates[Role(p)])
      PROVE  Survive'
  <2>1. ASSUME NEW s \in Services \ harmed', NEW q \in Procs, Role(q) = s, Owning(q)'
        PROVE  context'[q] = updates'[s]
    BY <1>1, <2>1 DEF Ends
  <2>2. ASSUME NEW s \in Services \ harmed',
               \A q \in Procs : Role(q) = s => ~Owning(q)'
        PROVE  file'[s] = updates'[s]
    BY <1>1, <2>2 DEF Ends
  <2>3. ASSUME NEW s \in Services \ harmed', file'[s] = Unreadable
        PROVE  \E q \in Procs : Role(q) = s /\ Owning(q)' /\ pc'[q] = "save"
    <3>1. PICK q \in Procs : Role(q) = s /\ Owning(q) /\ pc[q] = "save"
      BY <1>1, <2>3 DEF Ends
    <3>2. q # p
      BY <1>1, <2>3, <3>1 DEF Ends
    <3> QED BY <1>1, <3>1, <3>2 DEF Ends
  <2> QED BY <2>1, <2>2, <2>3
<1>2. ASSUME NEW p \in Procs, NEW label \in STRING, pc' = [pc EXCEPT ![p] = label],
             IsPortal(p) \/ (Owning(p) <=> label \in {"loop", "finish", "save"}),
             ~IsPortal(p) => pc[p] # "save",
             UNCHANGED <<context, file, updates, harmed>>
      PROVE  Survive'
  BY <1>2
<1>3. ASSUME NEW p \in Procs, Boot(p) \/ Leave(p) PROVE Survive'
  BY <1>2, <1>3 DEF Boot, Leave
<1>4. ASSUME NEW p \in Procs, Fork(p) PROVE Survive'
  <2>1. pc[p] = "unborn" /\ IsPortal(PortalOf(p)) /\ ~IsPortal(p)
    BY <1>4 DEF Fork, ForkInv, ForkLabel
  <2>2. /\ \A q \in Procs : Owning(q)' <=> Owning(q)
        /\ \A q \in Procs : ~IsPortal(q) => (pc'[q] = "save" <=> pc[q] = "save")
    BY <1>4, <2>1 DEF Fork
  <2> QED BY <1>4, <2>2 DEF Fork
<1>5. ASSUME NEW p \in Procs, ServiceLoad(p) PROVE Survive'
  <2>1. /\ Role(p) \in Services /\ ~IsPortal(p)
        /\ \A q \in Procs : Role(q) = Role(p) => ~Owning(q)
    BY <1>5, OneOwner DEF ServiceLoad, RoleInv
  <2>2. /\ \A q \in Procs \ {p} : Owning(q)' <=> Owning(q)
        /\ \A q \in Procs \ {p} : context'[q] = context[q] /\ pc'[q] = pc[q]
        /\ Owning(p)' /\ context'[p] = file[Role(p)]
        /\ UNCHANGED <<file, updates, harmed>>
    BY <1>5, <2>1 DEF ServiceLoad
  <2> QED BY <2>1, <2>2
<1>6. ASSUME NEW p \in Procs, Update(p) PROVE Survive'
  <2>1. /\ Role(p) \in Services /\ ~IsPortal(p) /\ Owning(p)
        /\ \A q \in Procs : Role(q) = Role(p) /\ Owning(q) => q = p
    BY <1>6, OneOwner DEF Update
  <2>2. /\ context' = [context EXCEPT ![p] = @ + 1]
        /\ updates' = [updates EXCEPT ![Role(p)] = @ + 1]
        /\ pc[p] = "loop"
        /\ UNCHANGED <<pc, file, harmed>>
    BY <1>6 DEF Update
  <2> QED BY <2>1, <2>2
<1>7. ASSUME NEW p \in Procs, SaveOpen(p) PROVE Survive'
  <2>1. /\ Role(p) \in Services /\ ~IsPortal(p) /\ Owning(p) /\ pc[p] = "finish"
        /\ UNCHANGED <<context, updates>>
    BY <1>7 DEF SaveOpen, RoleInv
  <2>2. CASE /\ file' = [file EXCEPT ![Role(p)] = Unreadable]
             /\ pc' = [pc EXCEPT ![p] = "save"]
             /\ harmed' = harmed
    <3>1. \A q \in Procs : Owning(q)' <=> Owning(q)
      BY <2>1, <2>2
    <3> QED BY <2>1, <2>2, <3>1
  <2>3. CASE /\ harmed' = harmed \cup {Role(p)}
             /\ pc' = [pc EXCEPT ![p] = "stop"]
             /\ file' = file
    BY <2>1, <2>3
  <2> QED BY <1>7, <2>2, <2>3 DEF SaveOpen
<1>8. ASSUME NEW p \in Procs, SaveWrite(p) PROVE Survive'
  <2>1. /\ Role(p) \in Services /\ ~IsPortal(p) /\ Owning(p) /\ pc[p] = "save"
        /\ \A q \in Procs : Role(q) = Role(p) /\ Owning(q) => q = p
        /\ pc' = [pc EXCEPT ![p] = "stop"]
        /\ UNCHANGED <<context, updates>>
    BY <1>8, OneOwner DEF SaveWrite, RoleInv
  <2>2. CASE file' = [file EXCEPT ![Role(p)] = context[p]] /\ harmed' = harmed
    BY <2>1, <2>2
  <2>3. CASE file' = file /\ harmed' = harmed \cup {Role(p)}
    BY <2>1, <2>3
  <2> QED BY <1>8, <2>2, <2>3 DEF SaveWrite
<1>9. ASSUME NEW l \in Lives, Start(l) PROVE Survive'
  BY <1>2, <1>9 DEF Start
<1>10. ASSUME UNCHANGED <<pc, context, file, updates, harmed>> PROVE Survive'
  BY <1>10
<1>11. ASSUME NEW p \in Procs, BindFails(p) \/ ForkFails(p) \/ Exit(p) \/ Dies(p)
       PROVE  Survive'
  <2>1. CASE Dies(p)
    BY <1>1, <2>1 DEF Dies
  <2>2. CASE BindFails(p) \/ ForkFails(p) \/ Exit(p)
    BY <1>1, <2>2 DEF BindFails, ForkFails, Exit
  <2> QED BY <1>11, <2>1, <2>2
<1> QED
  BY <1>3, <1>4, <1>5, <1>6, <1>7, <1>8, <1>9, <1>10, <1>11 DEF Next, Linger, Expire, vars

-----------------------------------------------------------------------------
LEMMA InitInv == Init => IInv
<1> SUFFICES ASSUME Init PROVE IInv
  OBVIOUS
<1> USE ProcFacts, LifecycleAssumption DEF Init
<1>1. TypeOK
  BY DEF TypeOK, Documents, Running, Down
<1>2. RoleInv /\ HoldersInv /\ ForkInv /\ ContextInv
  BY DEF RoleInv, HoldersInv, ForkInv, ContextInv, Owning
<1>3. Survive
  BY DEF Survive, Owning
<1> QED BY <1>1, <1>2, <1>3 DEF IInv

THEOREM LivesInvariant == Spec => []IInv
<1>1. IInv /\ [Next]_vars => IInv'
  BY TypeStep, ForkStep, ContextStep, SurviveStep DEF IInv
<1> QED BY <1>1, InitInv, PTL DEF Spec

\* Every variable keeps its type, and a process holds the listening sockets
\* that it should: see TypeOK.
THEOREM LivesTyped == Spec => []TypeOK
<1>1. IInv => TypeOK
  BY DEF IInv
<1> QED BY <1>1, LivesInvariant, PTL

\* The socket that the services inherit keeps two lives of the program apart:
\* see OneLifeAtATime.
THEOREM LivesApart == Spec => []OneLifeAtATime
<1>1. IInv => OneLifeAtATime
  BY OneLife DEF IInv
<1> QED BY <1>1, LivesInvariant, PTL

\* No update is lost between the lives: see UpdatesSurvive.
THEOREM UpdatesKept == Spec => []UpdatesSurvive
<1>1. IInv => UpdatesSurvive
  BY SurviveForm DEF IInv
<1> QED BY <1>1, LivesInvariant, PTL

=============================================================================
