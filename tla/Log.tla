--------------------------------- MODULE Log ---------------------------------
(***************************************************************************)
(* The log of a process (libs/log.c): one instance, made at its first use, *)
(* whatever the call.  log_close() frees it and keeps the pointer, so that *)
(* a call after it has no defined effect; there is none here.  A line is   *)
(* its level and what became of it: log_write() prints it in pieces and    *)
(* looks at no result, so that the disk may take the whole, a part or      *)
(* nothing of a line for which it returns 0.                               *)
(***************************************************************************)
EXTENDS Integers, Sequences

CONSTANT MaxLines   \* how many lines to consider

Levels == {"NONE_L", "STAT_L", "INFO_L", "DEBUG_L", "WARNING_L", "ERROR_L", "CRITICAL_L"}

Line == [level : Levels, disk : {"whole", "part", "nothing"}]

VARIABLES
    log,       \* the static pointer: NULL, open, freed
    debug,     \* log->debug
    file,      \* the content of the file, line by line
    accepted   \* history: the lines for which log_write() returned 0

vars == <<log, debug, file, accepted>>

Init == log = "NULL" /\ debug = FALSE /\ file = <<>> /\ accepted = <<>>

\* Wrong: the pointer is not static.
log_get_instance_anew ==
    {[log |-> "NULL", debug |-> debug, file |-> file],
     [log |-> "open", debug |-> TRUE, file |-> <<>>]}

\* The instance, and what making it leaves: fopen() may fail, and the next call
\* tries again.
log_get_instance ==
    IF log = "open" THEN {[log |-> log, debug |-> debug, file |-> file]}
    ELSE {[log |-> "NULL", debug |-> debug, file |-> file],
          [log |-> "open", debug |-> TRUE, file |-> <<>>]}

log_set_debug_mode(set_debug) ==
    \E got \in log_get_instance :
        /\ log' = got.log /\ file' = got.file
        /\ debug' = IF got.log = "open" THEN set_debug ELSE got.debug
        /\ UNCHANGED accepted

Refuses(got, lvl) ==
    got.log = "NULL" \/ (~got.debug /\ lvl \notin {"NONE_L", "STAT_L"})

log_write(lvl) ==
    \E got \in log_get_instance, line \in {l \in Line : l.level = lvl} :
        /\ log' = got.log /\ debug' = got.debug
        /\ file' = IF Refuses(got, lvl) THEN got.file ELSE Append(got.file, line)
        /\ accepted' = IF Refuses(got, lvl) THEN accepted ELSE Append(accepted, line)

\* It makes the instance first if there is none.
log_close ==
    \E got \in log_get_instance :
        /\ log' = IF got.log = "open" THEN "freed" ELSE "NULL"
        /\ debug' = got.debug /\ file' = got.file
        /\ UNCHANGED accepted

Call ==
    \/ \E b \in BOOLEAN : log_set_debug_mode(b)
    \/ \E lvl \in Levels : Len(accepted) < MaxLines /\ log_write(lvl)
    \/ log_close

Next == log # "freed" /\ Call

Spec == Init /\ [][Next]_vars

-----------------------------------------------------------------------------
TypeOK ==
    /\ log \in {"NULL", "open", "freed"} /\ debug \in BOOLEAN
    /\ file \in Seq(Line) /\ accepted \in Seq(Line)

\* The file holds, in order, what the disk took of each line for which log_write()
\* returned 0, whole or not: opening the file truncates it, but that happens once
\* and before the first of them (log.c:31, 54, 91).
TakenIsKept == file = accepted

\* Its inductive form: before the file is opened, nothing was accepted.
LogInv == TypeOK /\ TakenIsKept /\ (log = "NULL" => accepted = <<>>)
=============================================================================
