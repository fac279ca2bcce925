---------------------------- MODULE Microservices ----------------------------
(***************************************************************************)
(* What the weather and the currency microservice do with one request      *)
(* (src/server/microservices.c): pure operators on the JSON document that  *)
(* each of them keeps in its context.                                      *)
(*                                                                         *)
(* A JSON number remembers whether it was read as an integer or as a real. *)
(* The accessors of the JSON library answer 0 to a question about the      *)
(* other kind and the setters then refuse without a change; the code does  *)
(* not look at what they return.                                           *)
(***************************************************************************)
EXTENDS Protocol

CONSTANTS
    Cities,    \* the members of weather.json
    Coins,     \* the members of currency.json
    NullJson   \* a context that is no JSON object: every lookup finds nothing

ASSUME StoreAssumption ==
    /\ Cities \subseteq Names
    /\ Coins \subseteq Names

Json == [kind : {"int", "real"}, num : Int]

City == [humidity : Json, pressure : Json, temperature : Json]

WeatherJson == [Cities -> City]

CurrencyJson == [Coins -> Json]

\* The documents that service s can hold once its file has been parsed.
Document(s) == IF s = "weather" THEN WeatherJson ELSE CurrencyJson

ASSUME NullJsonAssumption == NullJson \notin WeatherJson \cup CurrencyJson

-----------------------------------------------------------------------------
(* The JSON library, as microservices.c uses it *)

json_integer_value(j) == IF j.kind = "int" THEN j.num ELSE 0

json_real_value(j) == IF j.kind = "real" THEN j.num ELSE 0

\* Conversion of a float to an integer: towards zero.
truncate(n) == IF n >= 0 THEN n - (n % 10) ELSE n + ((-n) % 10)

json_integer_set(j, n) ==
    IF j.kind = "int" THEN [j EXCEPT !.num = truncate(n)] ELSE j

json_real_set(j, n) == IF j.kind = "real" THEN [j EXCEPT !.num = n] ELSE j

\* json_object_get(json, key) # NULL
has_member(json, key) == json # NullJson /\ key \in DOMAIN json

-----------------------------------------------------------------------------
(* The weather service *)

get_city_weather(json, key) ==
    [type        |-> "weather",
     humidity    |-> json_integer_value(json[key].humidity),
     pressure    |-> json_real_value(json[key].pressure),
     temperature |-> json_real_value(json[key].temperature)]

\* Wrong: it also sets the fields that the request leaves out.
set_city_weather_all(json, r) ==
    LET city == json[r.key] IN
    [json EXCEPT ![r.key] =
        [humidity    |-> json_integer_set(city.humidity, r.humidity),
         pressure    |-> json_real_set(city.pressure, r.pressure),
         temperature |-> json_real_set(city.temperature, r.temperature)]]

set_city_weather(json, r) ==
    LET city == json[r.key] IN
    [json EXCEPT ![r.key] =
        [humidity    |-> IF VALID(r.humidity)
                         THEN json_integer_set(city.humidity, r.humidity)
                         ELSE city.humidity,
         pressure    |-> IF VALID(r.pressure)
                         THEN json_real_set(city.pressure, r.pressure)
                         ELSE city.pressure,
         temperature |-> IF VALID(r.temperature)
                         THEN json_real_set(city.temperature, r.temperature)
                         ELSE city.temperature]]

handle_weather(json, r) ==
    IF r.type = "post_weather"
    THEN IF has_member(json, r.key)
         THEN [json |-> set_city_weather(json, r), resp |-> Result("Success")]
         ELSE [json |-> json, resp |-> Result("Failed")]
    ELSE [json |-> json,
          resp |-> IF has_member(json, r.key)
                   THEN get_city_weather(json, r.key)
                   ELSE Result("Not found")]

-----------------------------------------------------------------------------
(* The currency service *)

get_currency_exchange(json, key) ==
    [type |-> "currency", quote |-> json_real_value(json[key])]

set_currency_exchange(json, r) ==
    IF VALID(r.value)
    THEN [json EXCEPT ![r.key] = json_real_set(json[r.key], r.value)]
    ELSE json

handle_currency(json, r) ==
    IF r.type = "post_currency"
    THEN IF has_member(json, r.key)
         THEN [json |-> set_currency_exchange(json, r), resp |-> Result("Success")]
         ELSE [json |-> json, resp |-> Result("Failed")]
    ELSE [json |-> json,
          resp |-> IF has_member(json, r.key)
                   THEN get_currency_exchange(json, r.key)
                   ELSE Result("Not found")]

-----------------------------------------------------------------------------
\* The callback of service s: a request of the other service leaves the
\* response as it was initialised.
micro_handle_request(s, json, r) ==
    CASE get_base_request(r.type) # s -> [json |-> json, resp |-> ZeroResponse]
      [] get_base_request(r.type) = s /\ s = "weather"  -> handle_weather(json, r)
      [] get_base_request(r.type) = s /\ s = "currency" -> handle_currency(json, r)
=============================================================================
