----------------------------- MODULE CodecProofs -----------------------------
(***************************************************************************)
(* Messages and documents, for every set of strings and numbers, every     *)
(* conversion to floats and any number of hops.                            *)
(***************************************************************************)
EXTENDS Codec, TLAPS

-----------------------------------------------------------------------------
(* Descriptions and fields *)

FieldTypes == {"float", "string"}

LEMMA DescFacts ==
    ASSUME NEW g \in Groups, NEW t \in Types(g) \cup {last}
    PROVE  /\ Len(Desc(g, t)) \in 0 .. 4
           /\ t # last => Len(Desc(g, t)) > 0
           /\ \A k \in 1 .. Len(Desc(g, t)) :
                 Desc(g, t)[k].name \in Members /\ Desc(g, t)[k].type \in FieldTypes
           /\ \A j, k \in 1 .. Len(Desc(g, t)) :
                 Desc(g, t)[j].name = Desc(g, t)[k].name => j = k
<1> USE DEF Desc, Types, Groups, REQUESTS, RESPONSES, F, last, Members, FieldTypes
<1>1. CASE g = "request" /\ t = "weather"
  BY <1>1
<1>2. CASE g = "request" /\ t = "currency"
  BY <1>2
<1>3. CASE g = "request" /\ t = "post_weather"
  BY <1>3
<1>4. CASE g = "request" /\ t = "post_currency"
  BY <1>4
<1>5. CASE g = "response" /\ t = "weather"
  BY <1>5
<1>6. CASE g = "response" /\ t = "currency"
  BY <1>6
<1>7. CASE g = "response" /\ t = "result"
  BY <1>7
<1>8. CASE t = last
  BY <1>8
<1> QED BY <1>1, <1>2, <1>3, <1>4, <1>5, <1>6, <1>7, <1>8

LEMMA TypeNames ==
    ASSUME NEW g \in Groups
    PROVE  "weather" \in Types(g) /\ last \notin Types(g) /\ Types(g) \subseteq Tags
BY DEF Types, last, Tags, Groups

LEMMA ZeroFacts == \A type \in FieldTypes : zero(type) \in Value(type)
<1>1. zero("float") \in Value("float")
  BY CodecAssumption DEF zero, Value
<1>2. zero("string") \in Value("string")
  BY CodecAssumption DEF zero, Value
<1> QED BY <1>1, <1>2 DEF FieldTypes

\* What is read from a member is a value of the field.
LEMMA ReadFacts ==
    ASSUME NEW type \in FieldTypes, NEW j \in Json \cup {Null}, readable(type, j)
    PROVE  field_deserialize(type, j) \in Value(type)
<1>1. CASE type = "float"
  <2>1. j.value \in Reals /\ field_deserialize("float", j) = to_float[j.value]
    BY <1>1 DEF readable, Json, field_deserialize
  <2>2. to_float[j.value] \in Floats \cup NotFinite
    BY <2>1, CodecAssumption
  <2> QED BY <1>1, <2>1, <2>2 DEF Value
<1>2. CASE type = "string"
  BY <1>2 DEF readable, Json, field_deserialize, Value
<1> QED BY <1>1, <1>2 DEF FieldTypes

\* What is written for a field can be read, and reads as the field.
LEMMA WriteFacts ==
    ASSUME NEW type \in FieldTypes, NEW v \in Value(type), field_serialize(type, v) # Null
    PROVE  /\ field_serialize(type, v) \in Json
           /\ readable(type, field_serialize(type, v))
           /\ field_deserialize(type, field_serialize(type, v)) = v
<1>1. CASE type = "float"
  <2>1. v \in Floats /\ v \notin NotFinite /\ field_serialize("float", v) = J("real", v)
    BY <1>1 DEF field_serialize, Value
  <2>2. v \in Reals /\ to_float[v] = v
    BY <2>1 DEF Floats
  <2> QED BY <1>1, <2>1, <2>2 DEF J, Json, readable, field_deserialize
<1>2. CASE type = "string"
  <2>1. v \in Texts /\ field_serialize("string", v) = J("string", v)
    BY <1>2 DEF field_serialize, Value
  <2> QED BY <1>2, <2>1, CodecAssumption DEF J, Json, readable, field_deserialize
<1> QED BY <1>1, <1>2 DEF FieldTypes

-----------------------------------------------------------------------------
(* The inductive invariant *)

FieldType(k) == desc[k].type
FieldName(k) == desc[k].name

\* A record that a request_t or response_t can be.
WellFormed(g, m) ==
    /\ m.type \in Types(g) \cup {last}
    /\ m = [type |-> m.type, u |-> m.u]
    /\ m.u = [k \in 1 .. Len(Desc(g, m.type)) |-> m.u[k]]
    /\ \A k \in 1 .. Len(Desc(g, m.type)) : m.u[k] \in Value(Desc(g, m.type)[k].type)

MsgInv == group \in Groups /\ WellFormed(group, msg)

StateInv ==
    /\ pc \in {"load", "read", "caller", "write", "done"}
    /\ hops \in 0 .. MaxHops
    /\ i \in 1 .. 5 /\ (pc \in {"read", "write"} => i <= Len(desc) + 1)
    /\ ok \in BOOLEAN
    /\ doc \in Document \cup {Null} /\ sent \in Document \cup {Null}
    /\ pc \in {"load", "read"} => origin = Null \/ hops > 0
    /\ pc = "load" => msg = Zeroed(group, "weather")
    /\ pc \in {"load", "read", "caller"} => sent = Null

\* The first n fields were read from doc.
Read(n) ==
    \A k \in 1 .. n :
        /\ readable(FieldType(k), doc.members[FieldName(k)])
        /\ msg.u[k] = field_deserialize(FieldType(k), doc.members[FieldName(k)])

ReadInv ==
    pc = "read" =>
        /\ doc # Null /\ doc.tag = msg.type /\ msg.type \in Types(group)
        /\ Read(i - 1)
        /\ \A k \in i .. Len(desc) : msg.u[k] = zero(FieldType(k))

\* What is left of a message that could not be read.
Prefix ==
    \E n \in 0 .. Len(desc) - 1 :
        \A k \in 1 .. Len(desc) :
            msg.u[k] = IF k <= n THEN Meaning(group, doc).u[k] ELSE zero(FieldType(k))

CallerInv ==
    HasRead => /\ ok <=> Accepted(group, doc)
               /\ ok => msg = Meaning(group, doc)
               /\ ~ok /\ msg.type # last => Prefix

\* The first n fields were written to sent.
Written(n) ==
    /\ sent.tag = msg.type /\ msg.type \in Types(group)
    /\ ok \/ group = "response"
    /\ \A k \in 1 .. n :
          /\ field_serialize(FieldType(k), msg.u[k]) # Null
          /\ sent.members[FieldName(k)] = field_serialize(FieldType(k), msg.u[k])

WriteInv ==
    /\ pc = "write" => sent # Null /\ Written(i - 1)
    /\ HasSent => Written(Len(desc))

OriginInv ==
    origin # Null =>
        /\ IsMessage(group, origin)
        /\ hops = 0 => pc \in {"caller", "write", "done"} /\ ok /\ msg = origin
        /\ hops > 0 => Accepted(group, doc) /\ Meaning(group, doc) = origin

IInv == MsgInv /\ StateInv /\ ReadInv /\ CallerInv /\ WriteInv /\ OriginInv

-----------------------------------------------------------------------------
(* Messages *)

\* A message is its type and as many values as the description has fields.
LEMMA MessageFacts ==
    ASSUME NEW g \in Groups, NEW m \in Messages(g)
    PROVE  /\ IsMessage(g, m) /\ m # Null
           /\ m.type \in Types(g)
           /\ WellFormed(g, m)
<1>1. IsMessage(g, m) /\ m # Null
  BY NullAssumption DEF Messages
<1>2. PICK t, S :
         /\ t \in Types(g)
         /\ m \in [type : {t}, u : [1 .. Len(Desc(g, t)) -> S]]
  BY DEF Messages
<1> QED BY <1>1, <1>2 DEF IsMessage, WellFormed

LEMMA ZeroedFacts ==
    ASSUME NEW g \in Groups, NEW t \in Types(g) \cup {last}
    PROVE  /\ Zeroed(g, t).type = t
           /\ WellFormed(g, Zeroed(g, t))
           /\ \A k \in 1 .. Len(Desc(g, t)) : Zeroed(g, t).u[k] = zero(Desc(g, t)[k].type)
BY DescFacts, ZeroFacts DEF Zeroed, WellFormed

\* The description of the message in hand.
LEMMA FieldFacts ==
    ASSUME MsgInv
    PROVE  /\ desc = Desc(group, msg.type)
           /\ Len(desc) \in 0 .. 4
           /\ msg.type # last => Len(desc) > 0 /\ msg.type \in Types(group)
           /\ \A k \in 1 .. Len(desc) : FieldName(k) \in Members /\ FieldType(k) \in FieldTypes
           /\ \A j, k \in 1 .. Len(desc) : FieldName(j) = FieldName(k) => j = k
BY DescFacts DEF MsgInv, WellFormed, desc, FieldName, FieldType

\* A message read to its last field is what the document says.
LEMMA AllFieldsRead ==
    ASSUME MsgInv, doc # Null, doc.tag = msg.type, msg.type \in Types(group), Read(Len(desc))
    PROVE  Accepted(group, doc) /\ msg = Meaning(group, doc)
<1>1. Accepted(group, doc)
  BY DEF Accepted, Read, FieldType, FieldName, desc
<1>2. msg.u = [k \in 1 .. Len(desc) |->
                 field_deserialize(FieldType(k), doc.members[FieldName(k)])]
  BY DEF MsgInv, WellFormed, Read, desc
<1>3. msg = Meaning(group, doc)
  BY <1>2 DEF Meaning, MsgInv, WellFormed, FieldType, FieldName, desc
<1> QED BY <1>1, <1>3

\* A document written to the last field says what the message is.
LEMMA AllFieldsWritten ==
    ASSUME MsgInv, sent # Null, Written(Len(desc))
    PROVE  Accepted(group, sent) /\ Meaning(group, sent) = msg
<1>1. \A k \in 1 .. Len(desc) :
         /\ readable(FieldType(k), sent.members[FieldName(k)])
         /\ msg.u[k] = field_deserialize(FieldType(k), sent.members[FieldName(k)])
  BY FieldFacts, WriteFacts DEF Written, MsgInv, WellFormed, FieldType, desc
<1>2. sent.tag = msg.type /\ msg.type \in Types(group)
  BY DEF Written
<1>3. Accepted(group, sent)
  BY <1>1, <1>2 DEF Accepted, FieldType, FieldName, desc
<1>4. msg.u = [k \in 1 .. Len(desc) |->
                 field_deserialize(FieldType(k), sent.members[FieldName(k)])]
  BY <1>1 DEF MsgInv, WellFormed, desc
<1>5. Meaning(group, sent) = msg
  BY <1>2, <1>4 DEF Meaning, MsgInv, WellFormed, FieldType, FieldName, desc
<1> QED BY <1>3, <1>5

-----------------------------------------------------------------------------
(* The invariant is inductive *)

LEMMA InitInv == Init => IInv
<1> SUFFICES ASSUME Init PROVE IInv
  OBVIOUS
<1>1. CASE msg \in Messages(group) /\ origin = msg /\ doc = Null /\ pc = "caller"
  <2>1. MsgInv
    BY <1>1, MessageFacts DEF Init, MsgInv
  <2>2. IsMessage(group, origin) /\ origin # Null
    BY <1>1, MessageFacts DEF Init
  <2>3. OriginInv
    BY <1>1, <2>2 DEF Init, OriginInv
  <2>4. StateInv /\ ReadInv /\ CallerInv /\ WriteInv
    BY <1>1, <2>2, CodecAssumption
    DEF Init, StateInv, ReadInv, CallerInv, WriteInv, HasRead, HasSent
  <2> QED BY <2>1, <2>3, <2>4 DEF IInv
<1>2. CASE msg = Zeroed(group, "weather") /\ origin = Null
           /\ doc \in Documents \cup {Null} /\ pc = "load"
  <2>1. MsgInv
    BY <1>2, ZeroedFacts, TypeNames DEF Init, MsgInv
  <2>2. StateInv /\ ReadInv /\ CallerInv /\ WriteInv /\ OriginInv
    BY <1>2, CodecAssumption, DocumentAssumption
    DEF Init, StateInv, ReadInv, CallerInv, WriteInv, OriginInv, HasRead, HasSent
  <2> QED BY <2>1, <2>2 DEF IInv
<1> QED BY <1>1, <1>2 DEF Init

\* The message in hand, the document it was read from and what its reader said
\* stay the same.
LEMMA SameMessage ==
    ASSUME IInv, UNCHANGED <<group, origin, hops, doc, msg, ok>>,
           pc \in {"caller", "write", "done"}, pc' \in {"caller", "write", "done"}
    PROVE  MsgInv' /\ ReadInv' /\ CallerInv' /\ OriginInv'
<1>1. MsgInv' /\ ReadInv' /\ OriginInv'
  BY DEF IInv, MsgInv, ReadInv, OriginInv, FieldType, desc
<1>2. HasRead' => HasRead
  BY DEF HasRead
<1>3. CallerInv'
  BY <1>2 DEF IInv, CallerInv, Prefix, FieldType, desc
<1> QED BY <1>1, <1>3

LEMMA NoTypeStep == ASSUME IInv, NoType \/ UnknownType PROVE IInv'
<1>1. group \in Groups /\ pc = "load" /\ pc' = "caller" /\ ok' = FALSE
      /\ UNCHANGED <<group, origin, hops, doc, i, sent>>
  BY DEF NoType, UnknownType, Return, IInv, MsgInv
<1>2. ~Accepted(group, doc)
  BY <1>1, TypeNames, DocumentAssumption DEF NoType, UnknownType, Accepted, Tags, Groups
<1>3. \/ msg' = Zeroed(group, "weather")
      \/ msg' = Zeroed(group, last)
  BY DEF NoType, UnknownType, IInv, StateInv
<1>4. MsgInv'
  BY <1>1, <1>3, ZeroedFacts, TypeNames DEF MsgInv
<1>5. msg'.type # last => Prefix'
  <2>1. ASSUME msg'.type # last PROVE Prefix'
    <3>1. msg' = Zeroed(group, "weather")
      <4>1. Zeroed(group, last).type = last
        BY <1>1, ZeroedFacts
      <4> QED BY <1>3, <2>1, <4>1
    <3>2. desc' = Desc(group, "weather") /\ Len(Desc(group, "weather")) > 0
          /\ Len(Desc(group, "weather")) \in Nat
      BY <1>1, <3>1, ZeroedFacts, TypeNames, DescFacts DEF desc, last
    <3>3. \A k \in 1 .. Len(desc') : msg'.u[k] = zero(FieldType(k)')
      BY <1>1, <3>1, <3>2, ZeroedFacts, TypeNames DEF FieldType
    <3>4. 0 \in 0 .. Len(desc') - 1 /\ \A k \in 1 .. Len(desc') : ~(k <= 0)
      BY <3>2
    <3> QED BY <3>3, <3>4 DEF Prefix
  <2> QED BY <2>1
<1>6. CallerInv'
  BY <1>1, <1>2, <1>5 DEF CallerInv
<1>7. StateInv' /\ ReadInv' /\ WriteInv'
  BY <1>1 DEF IInv, StateInv, ReadInv, WriteInv, HasSent
<1>8. OriginInv'
  BY <1>1 DEF IInv, StateInv, OriginInv
<1> QED BY <1>4, <1>6, <1>7, <1>8 DEF IInv

LEMMA KnownTypeStep == ASSUME IInv, KnownType PROVE IInv'
<1>1. /\ group \in Groups /\ pc = "load" /\ pc' = "read" /\ i' = 1
      /\ doc # Null /\ doc.tag \in Types(group)
      /\ msg' = Zeroed(group, doc.tag)
      /\ UNCHANGED <<group, origin, hops, doc, ok, sent>>
  BY DEF KnownType, IInv, MsgInv
<1>2. msg'.type = doc.tag /\ desc' = Desc(group, doc.tag)
  BY <1>1, ZeroedFacts DEF desc
<1>3. MsgInv'
  BY <1>1, ZeroedFacts DEF MsgInv
<1>4. ReadInv'
  BY <1>1, <1>2, ZeroedFacts DEF ReadInv, Read, FieldType
<1>5. StateInv' /\ CallerInv' /\ WriteInv' /\ OriginInv'
  <2>1. Len(desc') \in Nat
    BY <1>1, <1>2, DescFacts
  <2> QED BY <1>1, <2>1
      DEF IInv, StateInv, CallerInv, WriteInv, OriginInv, HasRead, HasSent
<1> QED BY <1>3, <1>4, <1>5 DEF IInv

LEMMA ReadFieldStep == ASSUME IInv, ReadField PROVE IInv'
<1> DEFINE v == field_deserialize(FieldType(i), doc.members[FieldName(i)])
<1>1. /\ pc = "read" /\ i \in 1 .. Len(desc) /\ Len(desc) \in 0 .. 4
      /\ FieldType(i) \in FieldTypes /\ FieldName(i) \in Members
      /\ readable(FieldType(i), doc.members[FieldName(i)])
      /\ msg' = [msg EXCEPT !.u[i] = v]
      /\ i' = i + 1
      /\ UNCHANGED <<group, origin, hops, doc, pc, ok, sent>>
  BY FieldFacts DEF ReadField, IInv, StateInv, FieldType, FieldName, member
<1>2. v \in Value(FieldType(i))
  <2>1. doc.members[FieldName(i)] \in Json \cup {Null}
    BY <1>1 DEF IInv, StateInv, ReadInv, Document
  <2> QED BY <1>1, <2>1, ReadFacts
<1> HIDE DEF v
<1>3. /\ msg'.type = msg.type /\ desc' = desc
      /\ \A k \in 1 .. Len(desc) : msg'.u[k] = IF k = i THEN v ELSE msg.u[k]
      /\ msg' = [type |-> msg'.type, u |-> msg'.u]
      /\ msg'.u = [k \in 1 .. Len(desc) |-> msg'.u[k]]
  BY <1>1 DEF IInv, MsgInv, WellFormed, desc
<1>4. MsgInv'
  BY <1>1, <1>2, <1>3 DEF IInv, MsgInv, WellFormed, FieldType, desc
<1>5. ReadInv'
  BY <1>1, <1>3 DEF IInv, ReadInv, Read, FieldType, FieldName, v
<1>6. StateInv' /\ CallerInv' /\ WriteInv' /\ OriginInv'
  BY <1>1, <1>3 DEF IInv, StateInv, CallerInv, WriteInv, OriginInv, HasRead, HasSent
<1> QED BY <1>4, <1>5, <1>6 DEF IInv

\* The fields before the bad one are what the document says, the others zero.
LEMMA UnreadableFieldStep == ASSUME IInv, UnreadableField PROVE IInv'
<1>1. /\ pc = "read" /\ i \in 1 .. Len(desc) /\ Len(desc) \in 0 .. 4
      /\ ~readable(FieldType(i), doc.members[FieldName(i)])
      /\ doc.tag = msg.type
      /\ Read(i - 1) /\ \A k \in i .. Len(desc) : msg.u[k] = zero(FieldType(k))
      /\ pc' = "caller" /\ ok' = FALSE
      /\ UNCHANGED <<group, origin, hops, doc, msg, i, sent>>
  BY FieldFacts
  DEF UnreadableField, Return, IInv, StateInv, ReadInv, FieldType, FieldName, member
<1>2. ~Accepted(group, doc)
  BY <1>1 DEF Accepted, FieldType, FieldName, desc
<1>3. Prefix
  <2>1. \A k \in 1 .. i - 1 : msg.u[k] = Meaning(group, doc).u[k]
    BY <1>1 DEF Read, Meaning, FieldType, FieldName, desc
  <2>2. i - 1 \in 0 .. Len(desc) - 1
    BY <1>1
  <2>3. \A k \in 1 .. Len(desc) :
           msg.u[k] = IF k <= i - 1 THEN Meaning(group, doc).u[k] ELSE zero(FieldType(k))
    BY <1>1, <2>1
  <2> QED BY <2>2, <2>3 DEF Prefix
<1>4. Prefix'
  BY <1>1, <1>3 DEF Prefix, FieldType, desc
<1>5. CallerInv'
  BY <1>1, <1>2, <1>4 DEF CallerInv
<1>6. MsgInv' /\ StateInv' /\ ReadInv' /\ WriteInv' /\ OriginInv'
  BY <1>1 DEF IInv, MsgInv, StateInv, ReadInv, WriteInv, OriginInv, HasSent
<1> QED BY <1>5, <1>6 DEF IInv

LEMMA AllReadStep == ASSUME IInv, AllRead PROVE IInv'
<1>1. /\ pc = "read" /\ i - 1 = Len(desc)
      /\ doc # Null /\ doc.tag = msg.type /\ msg.type \in Types(group) /\ Read(i - 1)
      /\ pc' = "caller" /\ ok' = TRUE
      /\ UNCHANGED <<group, origin, hops, doc, msg, i, sent>>
  BY FieldFacts DEF AllRead, Return, IInv, StateInv, ReadInv
<1>2. Accepted(group, doc) /\ msg = Meaning(group, doc)
  BY <1>1, AllFieldsRead DEF IInv
<1>3. CallerInv'
  BY <1>1, <1>2 DEF CallerInv
<1>4. MsgInv' /\ StateInv' /\ ReadInv' /\ WriteInv' /\ OriginInv'
  BY <1>1 DEF IInv, MsgInv, StateInv, ReadInv, WriteInv, OriginInv, HasSent
<1> QED BY <1>3, <1>4 DEF IInv

LEMMA NothingSent ==
    ASSUME IInv, Drop \/ NothingToWrite \/ UnwritableField
    PROVE  IInv'
<1>1. /\ pc \in {"caller", "write"} /\ pc' = "done" /\ sent' = Null
      /\ UNCHANGED <<group, origin, hops, doc, msg, i, ok>>
  BY DEF Drop, NothingToWrite, UnwritableField, IInv, StateInv
<1>2. MsgInv' /\ ReadInv' /\ CallerInv' /\ OriginInv'
  BY <1>1, SameMessage
<1>3. StateInv' /\ WriteInv'
  BY <1>1 DEF IInv, StateInv, WriteInv, HasSent
<1> QED BY <1>2, <1>3 DEF IInv

LEMMA StartWriteStep == ASSUME IInv, StartWrite PROVE IInv'
<1>1. /\ pc = "caller" /\ pc' = "write" /\ i' = 1 /\ sent' = json_object(msg.type)
      /\ msg.type # last /\ (ok \/ group = "response")
      /\ UNCHANGED <<group, origin, hops, doc, msg, ok>>
  BY DEF StartWrite
<1>2. MsgInv' /\ ReadInv' /\ CallerInv' /\ OriginInv'
  BY <1>1, SameMessage
<1>3. msg.type \in Types(group) /\ Len(desc) \in 0 .. 4 /\ group \in Groups
  BY <1>1, FieldFacts DEF IInv, MsgInv
<1>4. sent' \in Document /\ sent' # Null /\ sent'.tag = msg.type
  BY <1>1, <1>3, TypeNames, DocumentAssumption DEF json_object, Document
<1>5. StateInv'
  BY <1>1, <1>3, <1>4 DEF IInv, StateInv, desc
<1>6. WriteInv'
  BY <1>1, <1>3, <1>4 DEF WriteInv, Written, HasSent
<1> QED BY <1>2, <1>5, <1>6 DEF IInv

LEMMA WriteFieldStep == ASSUME IInv, WriteField PROVE IInv'
<1> DEFINE j == field_serialize(FieldType(i), msg.u[i])
<1>1. /\ pc = "write" /\ i \in 1 .. Len(desc) /\ Len(desc) \in 0 .. 4
      /\ FieldType(i) \in FieldTypes /\ FieldName(i) \in Members
      /\ j # Null
      /\ sent' = [sent EXCEPT !.members[FieldName(i)] = j]
      /\ i' = i + 1
      /\ UNCHANGED <<group, origin, hops, doc, pc, msg, ok>>
  BY FieldFacts DEF WriteField, IInv, StateInv, FieldType, FieldName, written
<1>2. j \in Json
  BY <1>1, WriteFacts DEF IInv, MsgInv, WellFormed, FieldType, desc
<1>3. sent \in Document /\ sent # Null /\ Written(i - 1)
  BY <1>1 DEF IInv, StateInv, WriteInv
<1> HIDE DEF j
<1>4. /\ sent' \in Document /\ sent' # Null /\ sent'.tag = sent.tag
      /\ \A name \in Members :
            sent'.members[name] = IF name = FieldName(i) THEN j ELSE sent.members[name]
  BY <1>1, <1>2, <1>3, DocumentAssumption DEF Document
<1>5. \A k \in 1 .. i - 1 : FieldName(k) \in Members /\ FieldName(k) # FieldName(i)
  BY <1>1, FieldFacts DEF IInv
<1>6. desc' = desc
  BY <1>1 DEF desc
<1>7. \A k \in 1 .. i :
         /\ field_serialize(FieldType(k), msg.u[k]) # Null
         /\ sent'.members[FieldName(k)] = field_serialize(FieldType(k), msg.u[k])
  BY <1>1, <1>3, <1>4, <1>5 DEF Written, j
<1>8. WriteInv'
  BY <1>1, <1>3, <1>4, <1>6, <1>7
  DEF IInv, WriteInv, Written, HasSent, FieldType, FieldName
<1>9. MsgInv' /\ ReadInv' /\ CallerInv' /\ OriginInv'
  BY <1>1, SameMessage
<1>10. i' \in 1 .. 5 /\ i' <= Len(desc') + 1
  <2>1. Len(desc') = Len(desc)
    BY <1>6
  <2>2. i \in 1 .. Len(desc) /\ Len(desc) \in 0 .. 4 /\ i' = i + 1
    BY <1>1
  <2>3. \A n \in 0 .. 4 : \A k \in 1 .. n : k + 1 \in 1 .. 5 /\ k + 1 <= n + 1
    OBVIOUS
  <2>4. i + 1 \in 1 .. 5 /\ i + 1 <= Len(desc) + 1
    BY <2>2, <2>3, Zenon
  <2> QED BY <2>1, <2>2, <2>4
<1>11. /\ hops \in 0 .. MaxHops /\ ok \in BOOLEAN
       /\ doc \in Document \cup {Null} /\ sent' \in Document \cup {Null}
  BY <1>4 DEF IInv, StateInv
<1>12. StateInv'
  BY <1>1, <1>10, <1>11 DEF StateInv
<1> QED BY <1>8, <1>9, <1>12 DEF IInv

LEMMA AllWrittenStep == ASSUME IInv, AllWritten PROVE IInv'
<1>1. /\ pc = "write" /\ i - 1 = Len(desc) /\ pc' = "done"
      /\ sent # Null /\ Written(i - 1)
      /\ UNCHANGED <<group, origin, hops, doc, msg, i, ok, sent>>
  BY FieldFacts DEF AllWritten, IInv, StateInv, WriteInv
<1>2. MsgInv' /\ ReadInv' /\ CallerInv' /\ OriginInv'
  BY <1>1, SameMessage
<1>3. WriteInv'
  BY <1>1 DEF WriteInv, Written, HasSent, FieldType, FieldName, desc
<1>4. StateInv'
  BY <1>1 DEF IInv, StateInv
<1> QED BY <1>2, <1>3, <1>4 DEF IInv

\* What a program has sent says what it held, and that is what was composed.
LEMMA SentFacts ==
    ASSUME IInv, HasSent
    PROVE  /\ Accepted(group, sent)
           /\ Meaning(group, sent) = msg
           /\ origin # Null => ok /\ msg = origin
<1>1. Accepted(group, sent) /\ Meaning(group, sent) = msg
  BY AllFieldsWritten DEF IInv, WriteInv, HasSent
<1>2. origin # Null => ok /\ msg = origin
  BY DEF IInv, StateInv, CallerInv, OriginInv, HasRead, HasSent
<1> QED BY <1>1, <1>2

LEMMA NextHopStep == ASSUME IInv, NextHop PROVE IInv'
<1>1. /\ HasSent /\ hops < MaxHops /\ group \in Groups
      /\ hops' = hops + 1 /\ doc' = sent /\ sent' = Null
      /\ pc' = "load" /\ msg' = Zeroed(group, "weather")
      /\ UNCHANGED <<group, origin, i, ok>>
  BY DEF NextHop, HasSent, IInv, MsgInv
<1>2. MsgInv'
  BY <1>1, ZeroedFacts, TypeNames DEF MsgInv
<1>3. OriginInv'
  BY <1>1, SentFacts DEF IInv, StateInv, OriginInv
<1>4. StateInv' /\ ReadInv' /\ CallerInv' /\ WriteInv'
  BY <1>1, CodecAssumption
  DEF IInv, StateInv, ReadInv, CallerInv, WriteInv, HasRead, HasSent
<1> QED BY <1>2, <1>3, <1>4 DEF IInv

LEMMA IdleStep == ASSUME IInv, UNCHANGED vars PROVE IInv'
BY DEF IInv, MsgInv, StateInv, ReadInv, Read, CallerInv, Prefix, WriteInv, Written, OriginInv,
       HasRead, HasSent, FieldType, FieldName, desc, vars

THEOREM MessageInvariant == Spec => []IInv
<1>1. IInv /\ [Next]_vars => IInv'
  BY NoTypeStep, KnownTypeStep, ReadFieldStep, UnreadableFieldStep, AllReadStep, NothingSent,
     StartWriteStep, WriteFieldStep, AllWrittenStep, NextHopStep, IdleStep
  DEF Next
<1> QED BY <1>1, InitInv, PTL DEF Spec

-----------------------------------------------------------------------------
\* The message in hand always has the fields that its description lists, each in
\* the range of its type, and documents are JSON objects: see TypeOK.
THEOREM MessagesTyped == Spec => []TypeOK
<1>1. IInv => TypeOK
  <2> SUFFICES ASSUME IInv PROVE TypeOK
    OBVIOUS
  <2>1. CASE msg.type = last
    <3>1. Len(Desc(group, last)) = 0
      BY DEF Desc
    <3>2. msg.u = [k \in 1 .. 0 |-> msg.u[k]]
      BY <2>1, <3>1 DEF IInv, MsgInv, WellFormed
    <3>3. msg.u = [k \in 1 .. 0 |-> zero(Desc(group, last)[k].type)]
      BY <3>2
    <3>4. msg = Zeroed(group, last)
      BY <2>1, <3>1, <3>3 DEF IInv, MsgInv, WellFormed, Zeroed
    <3> QED BY <3>4 DEF IInv, MsgInv, StateInv, OriginInv, TypeOK
  <2>2. CASE msg.type # last
    <3>1. IsMessage(group, msg)
      BY <2>2 DEF IInv, MsgInv, WellFormed, IsMessage
    <3> QED BY <3>1 DEF IInv, MsgInv, StateInv, OriginInv, TypeOK
  <2> QED BY <2>1, <2>2
<1> QED BY <1>1, MessageInvariant, PTL

\* A document is read if and only if each field of its type can be, and the
\* message is then what the document says: see ReadIsMeaning.
THEOREM ReadsMeaning == Spec => []ReadIsMeaning
<1>1. IInv => ReadIsMeaning
  BY DEF IInv, CallerInv, ReadIsMeaning
<1> QED BY <1>1, MessageInvariant, PTL

\* The next program can read what this one sends: see SentIsReadable.
THEOREM SendsReadable == Spec => []SentIsReadable
<1>1. IInv => SentIsReadable
  BY SentFacts DEF SentIsReadable
<1> QED BY <1>1, MessageInvariant, PTL

\* A message arrives as it was composed or not at all, over any number of hops:
\* see EndToEnd.
THEOREM ArrivesWhole == Spec => []EndToEnd
<1>1. IInv => EndToEnd
  <2>1. ASSUME IInv, origin # Null, HasRead PROVE ok /\ msg = origin
    BY <2>1 DEF IInv, StateInv, CallerInv, OriginInv, HasRead
  <2> QED BY <2>1, SentFacts DEF EndToEnd
<1> QED BY <1>1, MessageInvariant, PTL

\* Of a bad response the fields before the bad one are sent on, then zeros: see
\* PartialIsPrefix.
THEOREM PassesPrefix == Spec => []PartialIsPrefix
<1>1. IInv => PartialIsPrefix
  <2> SUFFICES ASSUME IInv, HasSent, ~ok PROVE PartialIsPrefix
    BY DEF PartialIsPrefix
  <2>1. group = "response" /\ msg.type \in Types(group) /\ group \in Groups
    BY DEF IInv, WriteInv, Written, MsgInv
  <2>2. HasRead /\ msg.type # last
    BY <2>1, TypeNames DEF IInv, OriginInv, StateInv, HasRead, HasSent
  <2>3. Prefix
    BY <2>2 DEF IInv, CallerInv
  <2> QED BY <2>1, <2>3, SentFacts DEF PartialIsPrefix, Prefix, FieldType
<1> QED BY <1>1, MessageInvariant, PTL

=============================================================================
