------------------------------- MODULE MCCodec -------------------------------
(***************************************************************************)
(* An instance of Codec for TLC: numbers that survive the conversion to a  *)
(* float and one that is rounded or overflows, and the documents that name *)
(* one type and have, for each of its fields, a good member, a bad one or  *)
(* none.                                                                   *)
(***************************************************************************)
EXTENDS Codec, TLC

CONSTANTS tea, empty, long, latin1, inf

\* 7 stands for a double between floats, 9 for one that is too large.
MCReals == {0, 5, 7, 9}
MCToFloat == [r \in MCReals |-> CASE r = 7 -> 5 [] r = 9 -> inf [] OTHER -> r]

Good(type) == IF type = "string" THEN {J("string", tea)}
              ELSE {J("real", 5), J("real", 7), J("real", 9)}

Bad(type) == {Null, J("integer", 5)}
             \cup IF type = "string" THEN {J("string", long)} ELSE {}

\* A document of group g that names type t.
DocumentsOf(g, t) ==
    LET fields == Desc(g, t)
        Own == {fields[k].name : k \in 1 .. Len(fields)}
        TypeOf(name) == (CHOOSE k \in 1 .. Len(fields) : fields[k].name = name)
        Choices(name) == LET type == fields[TypeOf(name)].type IN Good(type) \cup Bad(type)
    IN {[tag |-> t,
         members |-> [name \in Members |-> IF name \in Own THEN c[name] ELSE Null]] :
            c \in {c \in [Own -> UNION {Choices(name) : name \in Own}] :
                      \A name \in Own : c[name] \in Choices(name)}}

MCDocuments ==
    UNION {DocumentsOf(g, t) : <<g, t>> \in
              {gt \in Groups \X (Types("request") \cup Types("response")) :
                  gt[2] \in Types(gt[1])}}
    \cup {json_object("gossip"), json_object(Null)}
=============================================================================
