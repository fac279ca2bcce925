----------------------------- MODULE MessageRead -----------------------------
(***************************************************************************)
(* What reading one message from a connection amounts to, as NewsPortal    *)
(* takes it (ReadRequest, DropConnection, Receive, Interrupted, SpinEnds): *)
(* it succeeds when the whole message was sent, fails when the other side  *)
(* ended without, and a signal that finds nothing to read stops it for     *)
(* good, unless the connection is reset.                                   *)
(***************************************************************************)
VARIABLES
    whole,   \* the other side has sent the whole message
    peer,    \* open, closed (in order, or by its death), reset
    result   \* reading, spin, message, failed

vars == <<whole, peer, result>>

Init == whole = FALSE /\ peer = "open" /\ result = "reading"

PeerSends ==
    /\ peer = "open"
    /\ whole' = TRUE
    /\ UNCHANGED <<peer, result>>

PeerEnds ==
    /\ peer = "open"
    /\ peer' \in IF whole THEN {"closed"} ELSE {"closed", "reset"}
    /\ UNCHANGED <<whole, result>>

Succeed ==
    /\ result = "reading" /\ whole
    /\ result' = "message"
    /\ UNCHANGED <<whole, peer>>

Fail ==
    /\ result = "reading" /\ ~whole /\ peer # "open"
    /\ result' = "failed"
    /\ UNCHANGED <<whole, peer>>

Interrupt ==
    /\ result = "reading" /\ ~whole /\ peer = "open"
    /\ result' = "spin"
    /\ UNCHANGED <<whole, peer>>

SpinEnds ==
    /\ result = "spin" /\ peer = "reset"
    /\ result' = "failed"
    /\ UNCHANGED <<whole, peer>>

Next == PeerSends \/ PeerEnds \/ Succeed \/ Fail \/ Interrupt \/ SpinEnds

Spec == Init /\ [][Next]_vars
=============================================================================
