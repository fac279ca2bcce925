------------------------------ MODULE Protocol ------------------------------
(***************************************************************************)
(* The messages that travel between the client, the portal and the         *)
(* microservices (libs/requests.h, generated by libs/message_decl.h), and  *)
(* the routing of a request to a microservice.                             *)
(*                                                                         *)
(* A name (of a city or a coin) is an opaque value.  A number is an        *)
(* integer count of tenths, so that the difference between a float and its *)
(* truncation to an integer is visible.                                    *)
(***************************************************************************)
EXTENDS Integers

CONSTANTS
    Names,            \* the strings that a request may carry as its target
    UnencodableNames  \* those that are not UTF-8: json_string() refuses them

ASSUME NamesAssumption == UnencodableNames \subseteq Names

-----------------------------------------------------------------------------
(* Requests *)

\* The value a client puts in the fields that a POST must leave alone.
INVALID_VALUE == -9990

VALID(n) == n # INVALID_VALUE

GetRequest == [type : {"weather", "currency"}, key : Names]

PostWeatherRequest ==
    [type : {"post_weather"}, key : Names,
     humidity : Int, pressure : Int, temperature : Int]

PostCurrencyRequest == [type : {"post_currency"}, key : Names, value : Int]

Request == GetRequest \cup PostWeatherRequest \cup PostCurrencyRequest

\* The microservices are named after the GET request they answer.
Services == {"weather", "currency"}

get_base_request(type) ==
    CASE type = "post_currency" -> "currency"
      [] type = "post_weather"  -> "weather"
      [] OTHER                  -> type

IsPost(r) == r.type \in {"post_weather", "post_currency"}

\* request_serialize() fails on a request with a string that JSON cannot hold.
Encodable(r) == r.key \notin UnencodableNames

-----------------------------------------------------------------------------
(* Responses *)

WeatherResponse ==
    [type : {"weather"}, humidity : Int, pressure : Int, temperature : Int]

CurrencyResponse == [type : {"currency"}, quote : Int]

ResultResponse ==
    [type : {"result"}, message : {"Success", "Failed", "Not found"}]

Response == WeatherResponse \cup CurrencyResponse \cup ResultResponse

Result(text) == [type |-> "result", message |-> text]

\* response_t resp = {0}: weather is the first member of the enumeration.
ZeroResponse ==
    [type |-> "weather", humidity |-> 0, pressure |-> 0, temperature |-> 0]
=============================================================================
