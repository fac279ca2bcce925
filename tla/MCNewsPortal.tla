---------------------------- MODULE MCNewsPortal ----------------------------
(***************************************************************************)
(* Instances of NewsPortal for TLC.  The documents are cut down to one     *)
(* city and two coins, with the JSON kinds that weather.json and           *)
(* currency.json give them: in the real files the pressure of bahia blanca *)
(* and the peso are written without a decimal point.                       *)
(***************************************************************************)
EXTENDS NewsPortal, TLC

MCNames == {"bahia", "peso", "dollar", "nowhere", "not_utf8"}
MCUnencodable == {"not_utf8"}
MCCities == {"bahia"}
MCCoins == {"peso", "dollar"}

Int_(n) == [kind |-> "int", num |-> n]
Real_(n) == [kind |-> "real", num |-> n]

MCFiles ==
    [s \in Services |->
        IF s = "weather"
        THEN [city \in MCCities |-> [humidity    |-> Int_(270),
                                     pressure    |-> Int_(9980),
                                     temperature |-> Real_(170)]]
        ELSE [coin \in MCCoins |-> IF coin = "peso" THEN Int_(10) ELSE Real_(174)]]

-----------------------------------------------------------------------------
(* Requests *)

GetWeather == [type |-> "weather", key |-> "bahia"]
GetNowhere == [type |-> "weather", key |-> "nowhere"]
GetNotUtf8 == [type |-> "weather", key |-> "not_utf8"]
GetDollar  == [type |-> "currency", key |-> "dollar"]

\* --humidity 30.5 --pressure 1000, and no --temperature.
PostWeather ==
    [type |-> "post_weather", key |-> "bahia",
     humidity |-> 305, pressure |-> 10000, temperature |-> INVALID_VALUE]

PostDollar == [type |-> "post_currency", key |-> "dollar", value |-> 180]
PostLess   == [type |-> "post_currency", key |-> "dollar", value |-> 150]
PostPeso   == [type |-> "post_currency", key |-> "peso", value |-> 20]
PostNowhere == [type |-> "post_currency", key |-> "nowhere", value |-> 20]

\* Reads and writes of both services, a number of the wrong JSON kind, an entry
\* that does not exist and a name that cannot be sent.
CallRequests == {GetDollar, PostDollar, PostLess, GetWeather, PostWeather, GetNotUtf8}

\* A write of one service and a read of the other; one write alone; two that
\* want different things.
TwoServices == {PostDollar, GetWeather}
OneService == {PostDollar}
TwoPosts == {PostDollar, PostLess}

\* Every kind of POST, and requests for an entry that does not exist.
Posts == {PostWeather, PostDollar, PostPeso, PostNowhere, GetNowhere}

-----------------------------------------------------------------------------
(* Faults *)

NoFaults == {}

\* What brings the program down: SIGINT, which a terminal sends to every process
\* of it, the death of the portal, and system calls that fail.  The disk fails
\* for one service only: ExitIsSaved promises nothing to that one.
ShutdownFaults ==
    ({"sigint"} \X {Portal, "currency"}) \cup ({"bind", "accept", "crash"} \X {Portal})
    \cup ({"fork"} \X Services) \cup {<<"disk", "weather">>}

\* Around a portal that is left alone: clients that are interrupted, a service
\* that dies, does not start, leaves its loop or reads a broken file.
ServiceFaults ==
    ({"crash", "bind", "accept", "file"} \X {"currency"}) \cup ({"crash"} \X Clients)

PortalSigint == {<<"sigint", Portal>>}

AcceptFaults == {"accept"} \X Servers

-----------------------------------------------------------------------------
\* No two clients ask for the same; which of them asks for what does not matter,
\* as they are interchangeable.
DifferentInit ==
    /\ Init
    /\ req = CHOOSE r \in [Clients -> Requests] : \A c, d \in Clients : c # d => r[c] # r[d]

DifferentSpec == DifferentInit /\ [][Next]_vars /\ Fairness

ClientSymmetry == Permutations(Clients)
=============================================================================
