-------------------------------- MODULE Codec --------------------------------
(***************************************************************************)
(* How a message becomes a JSON object and a JSON object a message, field  *)
(* by field (libs/requests.c over libs/message.c), and what a program that *)
(* passes messages on makes of a document it cannot fully read.            *)
(*                                                                         *)
(* One behaviour follows one message: a program composes it, or a document *)
(* comes in from elsewhere; each hop reads the document and writes what it *)
(* has read.  A text is opaque but for being UTF-8 and for fitting in a    *)
(* string_t.  Syntax and the order of members are the JSON library's.      *)
(***************************************************************************)
EXTENDS Integers, Sequences

CONSTANTS
    Texts,      \* the strings that JSON can hold and that fit in a string_t
    LongTexts,  \* those that JSON can hold and that do not fit
    NotUtf8,    \* the strings of a string_t that JSON cannot hold
    Empty,      \* the empty string
    Reals,      \* the numbers of JSON with a decimal point, all doubles
    NotFinite,  \* the floats that JSON cannot hold: infinities, not a number
    to_float,   \* the conversion of a double to a float
    IntHalf,    \* 2^31: an integer_t is in -IntHalf .. IntHalf - 1
    Null,       \* a NULL json_t: no member, no object
    Unknown,    \* the strings that name no type of message
    Documents,  \* the JSON objects that may come in from elsewhere
    MaxHops     \* how many programs pass the message on

Floats == {r \in Reals : to_float[r] = r}

ASSUME CodecAssumption ==
    /\ Empty \in Texts
    /\ Texts \cap LongTexts = {}
    /\ 0 \in Floats
    /\ NotFinite \cap Reals = {}
    /\ to_float \in [Reals -> Floats \cup NotFinite]
    /\ IntHalf \in Nat \ {0}
    /\ MaxHops \in Nat

-----------------------------------------------------------------------------
(* Descriptions: what message_decl.h generates from the lists in requests.h *)

F(name, type) == [name |-> name, type |-> type]

REQUESTS ==
    [weather       |-> <<F("city", "string")>>,
     currency      |-> <<F("currency", "string")>>,
     post_weather  |-> <<F("city", "string"), F("humidity", "float"),
                         F("pressure", "float"), F("temperature", "float")>>,
     post_currency |-> <<F("currency", "string"), F("value", "float")>>]

RESPONSES ==
    [weather  |-> <<F("humidity", "float"), F("pressure", "float"),
                    F("temperature", "float")>>,
     currency |-> <<F("quote", "float")>>,
     result   |-> <<F("message", "string")>>]

Groups == {"request", "response"}

Types(g) ==
    IF g = "request"
    THEN {"weather", "currency", "post_weather", "post_currency"}
    ELSE {"weather", "currency", "result"}

\* Past the last type of a group there is nothing: request_last, response_last.
last == "last"

Desc(g, t) ==
    IF t = last THEN <<>>
    ELSE IF g = "request" THEN REQUESTS[t] ELSE RESPONSES[t]

Members == {"city", "currency", "humidity", "pressure", "temperature", "value",
            "quote", "message"}

-----------------------------------------------------------------------------
(* One field *)

Value(type) ==
    CASE type = "integer" -> (-IntHalf) .. (IntHalf - 1)
      [] type = "float"   -> Floats \cup NotFinite
      [] type = "string"  -> Texts \cup NotUtf8

zero(type) == IF type = "string" THEN Empty ELSE 0

\* What int32_t keeps of a JSON integer.
wrap(n) == ((n + IntHalf) % (2 * IntHalf)) - IntHalf

J(kind, value) == [kind |-> kind, value |-> value]

Json == [kind : {"integer"}, value : Int] \cup [kind : {"real"}, value : Reals]
        \cup [kind : {"string"}, value : Texts \cup LongTexts]

field_serialize(type, v) ==
    CASE type = "integer" -> J("integer", v)
      [] type = "float"   -> IF v \in NotFinite THEN Null ELSE J("real", v)
      [] type = "string"  -> IF v \in NotUtf8 THEN Null ELSE J("string", v)

\* Wrong: what str_init() returns is ignored.
readable_any_length(type, j) ==
    /\ j # Null
    /\ j.kind = IF type = "float" THEN "real" ELSE type

\* Can a field of this type be read from j?
readable(type, j) ==
    /\ j # Null
    /\ j.kind = IF type = "float" THEN "real" ELSE type
    /\ type = "string" => j.value \notin LongTexts

\* Wrong: json_integer_value() of a float, which is 0.
field_deserialize_integer(type, j) ==
    CASE type = "integer" -> wrap(j.value)
      [] type = "float"   -> 0
      [] type = "string"  -> j.value

field_deserialize(type, j) ==
    CASE type = "integer" -> wrap(j.value)
      [] type = "float"   -> to_float[j.value]
      [] type = "string"  -> j.value

-----------------------------------------------------------------------------
(* Messages and documents *)

Zeroed(g, t) ==
    [type |-> t, u |-> [k \in 1 .. Len(Desc(g, t)) |-> zero(Desc(g, t)[k].type)]]

\* tag is the member "@type", Null when it is missing or no string.
Tags == Types("request") \cup Types("response") \cup Unknown

Document == [tag : Tags \cup {Null}, members : [Members -> Json \cup {Null}]]

ASSUME DocumentAssumption == Documents \subseteq Document /\ Null \notin Tags \cup Document

json_object(t) == [tag |-> t, members |-> [name \in Members |-> Null]]

VARIABLES
    group,   \* is it a request or a response?
    origin,  \* what was composed, or Null if a document came in from elsewhere
    hops,    \* how often it was passed on
    doc,     \* the document that this program reads; Null: no JSON object
    pc,      \* where it is: load, read, caller, write, done
    msg,     \* its request_t or response_t
    i,       \* the field that message_iter() is at
    ok,      \* what the deserialization returned
    sent     \* the object it builds, and when it is done what it has sent

vars == <<group, origin, hops, doc, pc, msg, i, ok, sent>>

desc == Desc(group, msg.type)

IsMessage(g, m) ==
    /\ m.type \in Types(g)
    /\ DOMAIN m.u = 1 .. Len(Desc(g, m.type))
    /\ \A k \in DOMAIN m.u : m.u[k] \in Value(Desc(g, m.type)[k].type)

\* The messages that a program can hold.
Messages(g) ==
    LET Values(t) == UNION {Value(Desc(g, t)[k].type) : k \in 1 .. Len(Desc(g, t))}
    IN {m \in UNION {[type : {t}, u : [1 .. Len(Desc(g, t)) -> Values(t)]] : t \in Types(g)} :
           IsMessage(g, m)}

ASSUME NullAssumption == \A g \in Groups : Null \notin Messages(g)

Init ==
    /\ group \in Groups
    /\ hops = 0 /\ i = 1 /\ ok = TRUE /\ sent = Null
    /\ \/ /\ msg \in Messages(group) /\ origin = msg
          /\ doc = Null /\ pc = "caller"
       \/ /\ msg = Zeroed(group, "weather") /\ origin = Null
          /\ doc \in Documents \cup {Null} /\ pc = "load"

-----------------------------------------------------------------------------
(* request_deserialize() and response_deserialize(), on a zeroed message *)

Return(result) ==
    /\ pc' = "caller" /\ ok' = result
    /\ UNCHANGED <<group, origin, hops, doc, i, sent>>

\* No JSON object, or none that names its type: the message is untouched.
NoType ==
    /\ pc = "load"
    /\ doc # Null => doc.tag = Null
    /\ Return(FALSE) /\ UNCHANGED msg

UnknownType ==
    /\ pc = "load" /\ doc # Null
    /\ doc.tag # Null /\ doc.tag \notin Types(group)
    /\ msg' = Zeroed(group, last)
    /\ Return(FALSE)

KnownType ==
    /\ pc = "load" /\ doc # Null
    /\ doc.tag \in Types(group)
    /\ msg' = Zeroed(group, doc.tag)
    /\ pc' = "read" /\ i' = 1
    /\ UNCHANGED <<group, origin, hops, doc, ok, sent>>

member == doc.members[desc[i].name]

ReadField ==
    /\ pc = "read" /\ i <= Len(desc)
    /\ readable(desc[i].type, member)
    /\ msg' = [msg EXCEPT !.u[i] = field_deserialize(desc[i].type, member)]
    /\ i' = i + 1
    /\ UNCHANGED <<group, origin, hops, doc, pc, ok, sent>>

\* Wrong: a field that is not there is left out.
UnreadableFieldSkipped ==
    /\ pc = "read" /\ i <= Len(desc)
    /\ ~readable(desc[i].type, member)
    /\ i' = i + 1
    /\ UNCHANGED <<group, origin, hops, doc, pc, msg, ok, sent>>

\* The fields before this one have been written already.
UnreadableField ==
    /\ pc = "read" /\ i <= Len(desc)
    /\ ~readable(desc[i].type, member)
    /\ Return(FALSE) /\ UNCHANGED msg

AllRead ==
    /\ pc = "read" /\ i > Len(desc)
    /\ Return(TRUE) /\ UNCHANGED msg

-----------------------------------------------------------------------------
(* The caller: _on_request(), _handle_request() of the portal, client_send() *)

\* A request that was not read is dropped.  A response is sent on in any case.
Drop ==
    /\ pc = "caller" /\ group = "request" /\ ~ok
    /\ pc' = "done"
    /\ UNCHANGED <<group, origin, hops, doc, msg, i, ok, sent>>

-----------------------------------------------------------------------------
(* request_serialize() and response_serialize() *)

NothingToWrite ==
    /\ pc = "caller" /\ (group = "response" \/ ok)
    /\ msg.type = last
    /\ pc' = "done"
    /\ UNCHANGED <<group, origin, hops, doc, msg, i, ok, sent>>

\* Wrong: the caller does not look at what the deserialization returned.
StartWriteUnchecked ==
    /\ pc = "caller" /\ msg.type # last
    /\ pc' = "write" /\ i' = 1 /\ sent' = json_object(msg.type)
    /\ UNCHANGED <<group, origin, hops, doc, msg, ok>>

StartWrite ==
    /\ pc = "caller" /\ (group = "response" \/ ok)
    /\ msg.type # last
    /\ pc' = "write" /\ i' = 1 /\ sent' = json_object(msg.type)
    /\ UNCHANGED <<group, origin, hops, doc, msg, ok>>

written == field_serialize(desc[i].type, msg.u[i])

WriteField ==
    /\ pc = "write" /\ i <= Len(desc)
    /\ written # Null
    /\ sent' = [sent EXCEPT !.members[desc[i].name] = written]
    /\ i' = i + 1
    /\ UNCHANGED <<group, origin, hops, doc, pc, msg, ok>>

\* Wrong: what has been converted is sent.
UnwritableFieldSent ==
    /\ pc = "write" /\ i <= Len(desc)
    /\ written = Null
    /\ pc' = "done"
    /\ UNCHANGED <<group, origin, hops, doc, msg, i, ok, sent>>

\* The object is dropped, nothing has reached the socket.
UnwritableField ==
    /\ pc = "write" /\ i <= Len(desc)
    /\ written = Null
    /\ pc' = "done" /\ sent' = Null
    /\ UNCHANGED <<group, origin, hops, doc, msg, i, ok>>

AllWritten ==
    /\ pc = "write" /\ i > Len(desc)
    /\ pc' = "done"
    /\ UNCHANGED <<group, origin, hops, doc, msg, i, ok, sent>>

-----------------------------------------------------------------------------
\* The next program reads what this one has sent.
NextHop ==
    /\ pc = "done" /\ sent # Null /\ hops < MaxHops
    /\ hops' = hops + 1 /\ doc' = sent /\ sent' = Null
    /\ pc' = "load" /\ msg' = Zeroed(group, "weather")
    /\ UNCHANGED <<group, origin, i, ok>>

Next ==
    \/ NoType \/ UnknownType \/ KnownType
    \/ ReadField \/ UnreadableField \/ AllRead
    \/ Drop \/ NothingToWrite \/ StartWrite
    \/ WriteField \/ UnwritableField \/ AllWritten
    \/ NextHop

Spec == Init /\ [][Next]_vars

-----------------------------------------------------------------------------
TypeOK ==
    /\ group \in Groups
    /\ origin # Null => IsMessage(group, origin)
    /\ hops \in 0 .. MaxHops
    /\ doc \in Document \cup {Null}
    /\ pc \in {"load", "read", "caller", "write", "done"}
    /\ IsMessage(group, msg) \/ msg = Zeroed(group, last)
    /\ i \in 1 .. 5
    /\ ok \in BOOLEAN
    /\ sent \in Document \cup {Null}

HasRead == pc \in {"caller", "write", "done"} /\ (origin = Null \/ hops > 0)
HasSent == pc = "done" /\ sent # Null

\* What a document says, read at once: every field of the type it names.
Accepted(g, d) ==
    /\ d # Null /\ d.tag \in Types(g)
    /\ \A k \in 1 .. Len(Desc(g, d.tag)) :
          readable(Desc(g, d.tag)[k].type, d.members[Desc(g, d.tag)[k].name])

Meaning(g, d) ==
    [type |-> d.tag,
     u |-> [k \in 1 .. Len(Desc(g, d.tag)) |->
              field_deserialize(Desc(g, d.tag)[k].type,
                                d.members[Desc(g, d.tag)[k].name])]]

\* A document is read if and only if each field of its type is there, of the
\* right kind and not too long, and then the message is what it says: no field
\* of an earlier or a failed reading is in it (requests.c:104, 169, 226, 304).
ReadIsMeaning ==
    HasRead => /\ ok <=> Accepted(group, doc)
               /\ ok => msg = Meaning(group, doc)

\* What a program sends, the next one can read: no message leaves with a field
\* missing or of a kind that the reader refuses (requests.c:66, 144, 183).
SentIsReadable == HasSent => Accepted(group, sent)

\* A message that some program composed reaches every later one as it was, or
\* not at all, over any number of hops (requests.c:183, 226; portal between
\* client and service, main.c:30).
EndToEnd ==
    origin # Null => /\ HasRead => (ok /\ msg = origin)
                     /\ HasSent => Meaning(group, sent) = origin

\* Of a response that cannot be read, the fields before the bad one are sent
\* on, then zeros: there is no field of the document behind a missing one, and
\* the type is the document's or, if it has none, weather (requests.c:169,
\* main.c:37, server.c:70).  Nothing of a bad request is sent on.
PartialIsPrefix ==
    (HasSent /\ ~ok) =>
        /\ group = "response"
        /\ \E n \in 0 .. Len(desc) - 1 : \A k \in 1 .. Len(desc) :
              msg.u[k] = IF k <= n THEN Meaning(group, doc).u[k]
                         ELSE zero(desc[k].type)
        /\ Meaning(group, sent) = msg
=============================================================================
