------------------------------- MODULE Strings -------------------------------
(***************************************************************************)
(* The string_t of libs/str.c, a buffer with a length, under any sequence  *)
(* of its two ways of being set, and the conversion of a field to a        *)
(* C string by libs/types.c, which the client prints responses with.       *)
(*                                                                         *)
(* A C string is a sequence of characters without its NUL.  The digits of  *)
(* a number are snprintf()'s: only how many there are matters here.        *)
(***************************************************************************)
EXTENDS Integers, Sequences

CONSTANTS
    Capacity,  \* sizeof(buffer): 1024
    Chars,     \* the characters, as numbers
    Ids        \* the strings that the program holds

ASSUME StringsAssumption ==
    /\ Capacity \in Nat \ {0}
    /\ Chars \subseteq Nat \ {0}

NUL == 0
Overrun == <<-1>>   \* a C string without an end in its buffer

\* C strings, some of them too long.
CStrings == UNION {[1 .. n -> Chars] : n \in 0 .. Capacity + 1}

VARIABLES
    str,    \* the strings: buffer and length
    value,  \* history: the C string that each was last set to
    closed  \* history: whether that was by str_init(), which writes a NUL

vars == <<str, value, closed>>

StringT == [buffer : [0 .. Capacity - 1 -> Chars \cup {NUL}], length : 0 .. Capacity]

Init ==
    /\ str = [s \in Ids |-> [buffer |-> [a \in 0 .. Capacity - 1 |-> NUL], length |-> 0]]
    /\ value = [s \in Ids |-> <<>>]
    /\ closed = [s \in Ids |-> TRUE]

\* memcpy(buffer, bytes, Len(bytes))
memcpy(buffer, bytes) ==
    [a \in DOMAIN buffer |-> IF a < Len(bytes) THEN bytes[a + 1] ELSE buffer[a]]

\* Wrong: the NUL of the C string is not copied.
str_init_open(s, cstr) ==
    /\ Len(cstr) < Capacity
    /\ str' = [str EXCEPT ![s] = [buffer |-> memcpy(@.buffer, cstr), length |-> Len(cstr)]]
    /\ value' = [value EXCEPT ![s] = cstr]
    /\ closed' = [closed EXCEPT ![s] = TRUE]

\* str_init(): a string without room for its NUL is refused.
str_init(s, cstr) ==
    /\ Len(cstr) < Capacity
    /\ str' = [str EXCEPT ![s] = [buffer |-> memcpy(@.buffer, Append(cstr, NUL)),
                                  length |-> Len(cstr)]]
    /\ value' = [value EXCEPT ![s] = cstr]
    /\ closed' = [closed EXCEPT ![s] = TRUE]

\* Wrong: the length is not looked at.
string_from_cstr_unchecked(s, cstr) ==
    /\ str' = [str EXCEPT ![s] = [buffer |-> memcpy(@.buffer, cstr), length |-> Len(cstr)]]
    /\ value' = [value EXCEPT ![s] = cstr]
    /\ closed' = [closed EXCEPT ![s] = FALSE]

\* Wrong: the length is the larger of the two.
string_from_cstr_grows(s, cstr) ==
    /\ Len(cstr) <= Capacity
    /\ str' = [str EXCEPT ![s] = [buffer |-> memcpy(@.buffer, cstr),
                                  length |-> IF @.length > Len(cstr) THEN @.length
                                             ELSE Len(cstr)]]
    /\ value' = [value EXCEPT ![s] = cstr]
    /\ closed' = [closed EXCEPT ![s] = FALSE]

\* string_from_cstr(): one of Capacity characters is taken, and no NUL written.
string_from_cstr(s, cstr) ==
    /\ Len(cstr) <= Capacity
    /\ str' = [str EXCEPT ![s] = [buffer |-> memcpy(@.buffer, cstr), length |-> Len(cstr)]]
    /\ value' = [value EXCEPT ![s] = cstr]
    /\ closed' = [closed EXCEPT ![s] = FALSE]

Next == \E s \in Ids, cstr \in CStrings : str_init(s, cstr) \/ string_from_cstr(s, cstr)

Spec == Init /\ [][Next]_vars

-----------------------------------------------------------------------------
(* What is read from a string *)

memcmp(b1, b2, n) ==
    LET Differ == {a \in 0 .. n - 1 : b1[a] # b2[a]} IN
    IF Differ = {} THEN 0
    ELSE LET a == CHOOSE a \in Differ : \A b \in Differ : a <= b IN b1[a] - b2[a]

\* Wrong: the whole buffers are compared.
str_cmp_buffers(s1, s2) ==
    IF s1.length # s2.length THEN s1.length - s2.length
    ELSE memcmp(s1.buffer, s2.buffer, Capacity)

str_cmp(s1, s2) ==
    IF s1.length # s2.length THEN s1.length - s2.length
    ELSE memcmp(s1.buffer, s2.buffer, s1.length)

cstr_cmp(s, cstr) ==
    IF s.length # Len(cstr) THEN s.length - Len(cstr)
    ELSE memcmp(s.buffer, [a \in 0 .. Len(cstr) - 1 |-> cstr[a + 1]], Len(cstr))

\* The characters from the start of an array to its first NUL.
CString(array) ==
    LET Ends == {a \in DOMAIN array : array[a] = NUL} IN
    IF Ends = {} THEN Overrun
    ELSE [k \in 1 .. (CHOOSE a \in Ends : \A b \in Ends : a <= b) |-> array[k - 1]]

\* str_to_cstr() hands out the buffer itself.
str_to_cstr(s) == CString(s.buffer)

-----------------------------------------------------------------------------
(* field_to_cstr(): what it returns, and what it leaves in len bytes *)

Returns(bytes, out) == [bytes |-> bytes, out |-> out]

\* The bytes of a C string, in an array.
array_of(cstr) == [a \in 0 .. Len(cstr) |-> IF a = Len(cstr) THEN NUL ELSE cstr[a + 1]]

string_to_cstr(len, s) ==
    IF len = 0 THEN Returns(s.length + 1, <<>>)
    ELSE IF len <= s.length THEN Returns(0, <<>>)
    ELSE Returns(s.length + 1, array_of([k \in 1 .. s.length |-> s.buffer[k - 1]]))

\* snprintf() cuts what does not fit.
float_to_cstr(len, digits) ==
    IF len = 0 THEN Returns(Len(digits) + 1, <<>>)
    ELSE Returns(IF Len(digits) < len THEN 1 ELSE 0,
                 array_of(SubSeq(digits, 1, IF Len(digits) < len THEN Len(digits) ELSE len - 1)))

\* The same, in another format.
integer_to_cstr(len, digits) == float_to_cstr(len, digits)

\* _field_print() of the client: ask for the size, then convert.
printed_string(s) == string_to_cstr(string_to_cstr(0, s).bytes, s)
printed_float(digits) == float_to_cstr(float_to_cstr(0, digits).bytes, digits)
printed_integer(digits) == integer_to_cstr(integer_to_cstr(0, digits).bytes, digits)

-----------------------------------------------------------------------------
TypeOK ==
    /\ str \in [Ids -> StringT] /\ value \in [Ids -> Seq(Chars)]
    /\ closed \in [Ids -> BOOLEAN]

\* A string has the length of what it was set to and begins with its characters,
\* whatever comes after them, but for the NUL of str_init(): the inductive
\* invariant (str.c:12, types.c:125).
StrInv ==
    /\ TypeOK
    /\ \A s \in Ids :
          /\ str[s].length = Len(value[s])
          /\ \A k \in 1 .. Len(value[s]) : str[s].buffer[k - 1] = value[s][k]
          /\ closed[s] => Len(value[s]) < Capacity /\ str[s].buffer[Len(value[s])] = NUL

\* A name or message set by str_init() is the same to those that look it up in a
\* document or put it into one, who are given the buffer without the length, even
\* where a longer one was before, of either setter (str.c:18, 71; requests.c:78,
\* microservices.c:87).  What string_from_cstr() sets has no such
\* NUL.
ReadsBack == \A s \in Ids : closed[s] => str_to_cstr(str[s]) = value[s]

Sign(n) == IF n > 0 THEN 1 ELSE IF n < 0 THEN -1 ELSE 0

\* The two comparisons agree with each other and with what the strings were set
\* to, whatever earlier, longer contents have left behind in the buffers, and
\* they order strings (str.c:41, 57).
ComparisonsAgree ==
    \A s, t \in Ids :
        LET order == str_cmp(str[s], str[t]) IN
        /\ order = 0 <=> value[s] = value[t]
        /\ Sign(str_cmp(str[t], str[s])) = -Sign(order)
        /\ Sign(cstr_cmp(str[s], value[t])) = Sign(order)

\* A buffer of the size that the conversion asks for takes the whole field, in
\* the text of a string no earlier content shows (client/main.c:23, types.c:144).
PrintsWhole ==
    /\ \A s \in Ids :
          /\ printed_string(str[s]).bytes > 0
          /\ CString(printed_string(str[s]).out) = value[s]
    /\ \A digits \in CStrings : \A printed \in {printed_float(digits), printed_integer(digits)} :
          /\ printed.bytes > 0
          /\ CString(printed.out) = digits
=============================================================================
