----------------------------- MODULE MCLibraries -----------------------------
(***************************************************************************)
(* An instance of Strings and Log for TLC.  The two libraries share        *)
(* nothing, so that a behaviour uses one of them: the other is as it       *)
(* starts.                                                                 *)
(***************************************************************************)
EXTENDS Strings

CONSTANT MaxLines

VARIABLES log, debug, file, accepted

logVars == <<log, debug, file, accepted>>

L == INSTANCE Log

LibrariesInit == Init /\ L!Init

LibrariesNext ==
    \/ L!Init /\ Next /\ UNCHANGED logVars
    \/ Init /\ L!Next /\ UNCHANGED vars

LibrariesSpec == LibrariesInit /\ [][LibrariesNext]_<<vars, logVars>>

\* The file of the log holds, in order, what the disk took of each line for which
\* log_write() returned 0 (log.c:31, 54, 91).
TakenIsKept == L!TakenIsKept
=============================================================================
