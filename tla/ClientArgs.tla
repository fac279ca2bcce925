------------------------------ MODULE ClientArgs ------------------------------
(***************************************************************************)
(* From the command line of the client to its request: _parse_options()    *)
(* and _make_request() of src/client/main.c, one option at a time.         *)
(*                                                                         *)
(* An argument is opaque but for what strtol() and strtod() make of it and *)
(* for its fitting in a string_t.  An infinite number is a large one here; *)
(* it is refused later, with nan, when the request is written: see Codec.  *)
(***************************************************************************)
EXTENDS Integers, Sequences

CONSTANTS
    Args,      \* the arguments
    LongArgs,  \* those that do not fit in a string_t
    strtol,    \* the number an argument spells in full; None: it does not
    strtod,
    None,
    nan,       \* "not a number", a number to strtod() that compares with nothing
    IntHalf,   \* 2^31: an int is in -IntHalf .. IntHalf - 1
    CommandLines  \* the command lines to consider

ASSUME ClientArgsAssumption ==
    /\ LongArgs \subseteq Args
    /\ strtol \in [Args -> Int \cup {None}]
    /\ strtod \in [Args -> Int \cup {None, nan}]
    /\ None \notin Int /\ nan \notin Int /\ nan # None
    /\ IntHalf \in Nat \ {0} /\ IntHalf > 4
    /\ CommandLines \subseteq Seq(Args)

SECRET_PASSWORD == "concutp2"
INVALID_VALUE == -999

\* requests.h, in the order of the enumeration.
RequestTypes == <<"weather", "currency", "post_weather", "post_currency">>

WeatherFields == {"humidity", "pressure", "temperature"}
Fields == WeatherFields \cup {"value"}

\* The options of a POST and the field that each of them sets.
Options(type) ==
    IF type = "post_weather"
    THEN [o \in {"--h", "--p", "--t"} |->
             IF o = "--h" THEN "humidity" ELSE IF o = "--p" THEN "pressure" ELSE "temperature"]
    ELSE [o \in {"--c"} |-> "value"]

\* Wrong: the check of the temperature is a copy of that of the others.
limit_copied(field) == 0

limit(field) == IF field = "temperature" THEN -273 ELSE 0

\* Wrong: only what is no number is refused.
good_number_any(field, arg) == strtod[arg] # None

\* strlen(endptr) || (value <= limit) refuses; nan <= limit is false.
good_number(field, arg) ==
    strtod[arg] # None /\ (strtod[arg] # nan => strtod[arg] > limit(field))

to_int(n) == ((n + IntHalf) % (2 * IntHalf)) - IntHalf

VARIABLES
    argv,    \* argv[1], argv[2], ... (argv[0] is the program)
    pc,      \* start, options, accepted, refused
    i,       \* the option that the loop is at
    req      \* type, target and numbers of the request_t

vars == <<argv, pc, i, req>>

argc == Len(argv) + 1

\* The string_t of a request that nobody has filled.
Empty == ""

Zero == [type |-> "weather", target |-> Empty, num |-> [f \in Fields |-> 0]]

Init ==
    /\ argv \in CommandLines
    /\ pc = "start" /\ i = 3 /\ req = Zero

Refuse == pc' = "refused" /\ UNCHANGED <<argv, i, req>>

-----------------------------------------------------------------------------
(* _parse_options() *)

\* No arguments, or one: --help, or an error.
TooFewArgs == pc = "start" /\ argc <= 2 /\ Refuse

number == strtol[argv[1]]
type_ok == number # None /\ to_int(number) \in 1 .. Len(RequestTypes)
asked == RequestTypes[to_int(number)]

BadType == pc = "start" /\ argc > 2 /\ ~type_ok /\ Refuse

-----------------------------------------------------------------------------
(* _make_request() *)

\* Wrong: the target is copied whatever its length.
target_unchecked == argv[2]

\* str_init() leaves the target empty if the argument is too long.
target == IF argv[2] \in LongArgs THEN Empty ELSE argv[2]

\* A GET takes no options and ignores what follows the target.
Get ==
    /\ pc = "start" /\ argc > 2 /\ type_ok
    /\ asked \in {"weather", "currency"}
    /\ req' = [req EXCEPT !.type = asked, !.target = target]
    /\ pc' = "accepted"
    /\ UNCHANGED <<argv, i>>

argc_ok ==
    \/ asked = "post_currency" /\ argc = 7
    \/ asked = "post_weather" /\ argc >= 5 /\ (argc - 3) % 2 = 0

Post == argc > 2 /\ type_ok /\ asked \in {"post_weather", "post_currency"}

BadCount == pc = "start" /\ Post /\ ~argc_ok /\ Refuse

StartPost ==
    /\ pc = "start" /\ Post /\ argc_ok
    /\ req' = [type |-> asked, target |-> target,
               num |-> [f \in Fields |-> IF asked = "post_weather" /\ f # "value"
                                         THEN INVALID_VALUE ELSE 0]]
    /\ pc' = "options"
    /\ UNCHANGED <<argv, i>>

IsPass(k) == argv[k] = "--pass" /\ argv[k + 1] = SECRET_PASSWORD

Sets(type, k) ==
    /\ argv[k] \in DOMAIN Options(type)
    /\ good_number(Options(type)[argv[k]], argv[k + 1])

Pass ==
    /\ pc = "options" /\ i < argc - 1
    /\ IsPass(i)
    /\ i' = i + 2
    /\ UNCHANGED <<argv, pc, req>>

SetField ==
    /\ pc = "options" /\ i < argc - 1
    /\ Sets(req.type, i)
    /\ req' = [req EXCEPT !.num[Options(req.type)[argv[i]]] = strtod[argv[i + 1]]]
    /\ i' = i + 2
    /\ UNCHANGED <<argv, pc>>

\* Wrong: an option that is not known is skipped.
BadOptionSkipped ==
    /\ pc = "options" /\ i < argc - 1
    /\ ~IsPass(i) /\ ~Sets(req.type, i)
    /\ i' = i + 2
    /\ UNCHANGED <<argv, pc, req>>

BadOption ==
    /\ pc = "options" /\ i < argc - 1
    /\ ~IsPass(i) /\ ~Sets(req.type, i)
    /\ Refuse

EndOptions ==
    /\ pc = "options" /\ i >= argc - 1
    /\ pc' = "accepted"
    /\ UNCHANGED <<argv, i, req>>

Next ==
    \/ TooFewArgs \/ BadType \/ Get \/ BadCount \/ StartPost
    \/ Pass \/ SetField \/ BadOption \/ EndOptions

Spec == Init /\ [][Next]_vars

-----------------------------------------------------------------------------
TypeOK ==
    /\ argv \in Seq(Args)
    /\ pc \in {"start", "options", "accepted", "refused"}
    /\ i \in 3 .. Len(argv) + 3
    /\ req.type \in {"weather", "currency", "post_weather", "post_currency"}
    /\ req.target \in (Args \ LongArgs) \cup {Empty}
    /\ req.num \in [Fields -> Int \cup {nan}]

IsPost == req.type \in {"post_weather", "post_currency"}

\* Where the command line sets field f of the request.
Settings(f) ==
    {k \in 3 .. Len(argv) - 1 :
        k % 2 = 1 /\ argv[k] \in DOMAIN Options(req.type) /\ Options(req.type)[argv[k]] = f}

\* An accepted POST carries, for each field, the last number given for it; an
\* accepted command line is understood to its end (main.c:123, 157).
PostIsAsArgs ==
    pc = "accepted" /\ IsPost =>
        /\ \A f \in Fields : \A k \in Settings(f) :
              (\A l \in Settings(f) : l <= k) => req.num[f] = strtod[argv[k + 1]]
        /\ \A k \in 3 .. Len(argv) : k % 2 = 1 =>
              argv[k] = "--pass" \/ \E f \in Fields : k \in Settings(f)

\* A weather field travels as INVALID_VALUE if and only if no option gives it:
\* no number that the client takes is the one that the service leaves out
\* (main.c:148, 172; microservices.c:113).
InvalidIffOmitted ==
    pc = "accepted" /\ req.type = "post_weather" =>
        \A f \in WeatherFields : req.num[f] = INVALID_VALUE <=> Settings(f) = {}

-----------------------------------------------------------------------------
(* The usage text, main.c:55-75: client REQ_TYPE REQ_TARGET [OPTIONS...]    *)

\* REQ_TYPE is one of the four numbers listed, and the target is a name.
LegalHead ==
    /\ Len(argv) >= 2
    /\ strtol[argv[1]] \in 1 .. 4
    /\ argv[2] \notin LongArgs

\* The options listed as values, to a POST of the weather (3) or a currency (4).
ValueOptions == IF strtol[argv[1]] = 3 THEN {"--p", "--t", "--h"} ELSE {"--c"}

\* A temperature is above absolute zero, any other value is positive.
InRange(o, n) == n \in Int /\ n > IF o = "--t" THEN -273 ELSE 0

\* As in its examples a POST gives the right password and some value, each option
\* once and followed by what it takes.
LegalOptions ==
    LET Given == {k \in 3 .. Len(argv) : k % 2 = 1} IN
    /\ Len(argv) % 2 = 0
    /\ \A k, l \in Given : argv[k] = argv[l] => k = l
    /\ \E k, l \in Given : argv[k] = "--pass" /\ argv[l] # "--pass"
    /\ \A k \in Given :
          IF argv[k] = "--pass" THEN argv[k + 1] = SECRET_PASSWORD
          ELSE argv[k] \in ValueOptions /\ InRange(argv[k], strtod[argv[k + 1]])

Legal == LegalHead /\ (strtol[argv[1]] \in {3, 4} => LegalOptions)

\* No command line of the form that the usage text describes is refused: the
\* checks of _parse_options() and _make_request() leave them all.
LegalIsAccepted == Legal => pc # "refused"
=============================================================================
