----------------------------- MODULE MCClientArgs -----------------------------
(***************************************************************************)
(* An instance of ClientArgs for TLC.  The number 33 is 1 to an int of 5   *)
(* bits: it stands for 4294967297.                                         *)
(***************************************************************************)
EXTENDS ClientArgs, TLC

Types == {"1", "3", "4", "33", "5"}
Values == {"21", "-5", "-999", "", "nan", "tea", SECRET_PASSWORD}
Names == {"--pass", "--p", "--t", "--c"}

MCArgs == Types \cup Values \cup Names \cup {"long"}

MCStrtol ==
    [a \in MCArgs |-> CASE a = "1" -> 1 [] a = "3" -> 3 [] a = "4" -> 4 [] a = "5" -> 5
                        [] a = "33" -> 33 [] a = "21" -> 21 [] a = "-5" -> -5 [] a = "-999" -> -999
                        [] a = "" -> 0 [] OTHER -> None]

MCStrtod == [a \in MCArgs |-> IF a = "nan" THEN nan ELSE MCStrtol[a]]

Pairs == {<<o, v>> : o \in Names \cup {"tea"}, v \in Values}
Heads == {<<t, n>> : t \in Types \cup {"tea"}, n \in {"tea", "long"}}

\* Too few arguments, a type and a target, and then up to two options and
\* values; an option without a value; three options for a weather report.
MCCommandLines ==
    {<<>>, <<"--p">>} \cup Heads
    \cup {h \o p : h \in Heads, p \in Pairs}
    \cup {h \o p \o q : h \in Heads, p \in Pairs, q \in Pairs}
    \cup {h \o p \o <<"--p">> : h \in Heads, p \in Pairs}
    \cup {<<"3", "tea">> \o p \o q \o r : p \in Pairs, q \in Pairs,
              r \in {<<"--p", "21">>, <<"--pass", SECRET_PASSWORD>>}}
=============================================================================
