--------------------------- MODULE LibrariesProofs ---------------------------
(***************************************************************************)
(* The two libraries without processes, for every instance: strings of any *)
(* capacity under any calls, and a log of any number of lines.             *)
(***************************************************************************)
EXTENDS MCLibraries, FiniteSetTheorems, SequenceTheorems, TLAPS

-----------------------------------------------------------------------------
(* Numbers: a set of them has a least one *)

\* What holds 0 and, with every number, the next holds them all: a number that
\* it leaves out would make of the numbers below it a finite set as large as
\* what remains of it without 0.
LEMMA AllNumbers ==
    ASSUME NEW T \in SUBSET Nat, 0 \in T, \A x \in T : x + 1 \in T
    PROVE  T = Nat
<1> SUFFICES ASSUME NEW n \in Nat, n \notin T PROVE FALSE
  OBVIOUS
<1> DEFINE U == {x \in T : x < n}
<1>1. IsFiniteSet(U) /\ 0 \in U
  <2>1. \A x \in U : x \in Nat
    OBVIOUS
  <2>3. 0 \in U
    <3>1. n # 0
      OBVIOUS
    <3> QED BY <3>1
  <2>2. \A x \in U : x <= n
    OBVIOUS
  <2> HIDE DEF U
  <2> QED BY <2>1, <2>2, <2>3, FS_BoundedSetOfNaturals
<1>2. \A x \in U : x + 1 \in U \ {0}
  <2> SUFFICES ASSUME NEW x \in U PROVE x + 1 \in U \ {0}
    OBVIOUS
  <2>1. x + 1 \in T /\ x + 1 # n
    OBVIOUS
  <2> QED BY <2>1
<1> DEFINE f == [x \in U |-> x + 1]
<1>3. f \in Injection(U, U \ {0})
  <2>1. f \in [U -> U \ {0}]
    BY <1>2
  <2>2. \A x, y \in U : f[x] = f[y] => x = y
    OBVIOUS
  <2> HIDE DEF f
  <2> QED BY <2>1, <2>2 DEF Injection, IsInjective
<1>4. IsFiniteSet(U \ {0}) /\ Cardinality(U \ {0}) = Cardinality(U) - 1
  BY <1>1, FS_RemoveElement
<1> HIDE DEF f, U
<1>5. Cardinality(U) <= Cardinality(U \ {0})
  BY <1>1, <1>3, <1>4, FS_Injection
<1> QED BY <1>1, <1>4, <1>5, FS_CardinalityType

LEMMA Least ==
    ASSUME NEW S \in SUBSET Nat, S # {}
    PROVE  \E a \in S : \A b \in S : a <= b
<1> SUFFICES ASSUME \A a \in S : \E b \in S : ~(a <= b) PROVE FALSE
  OBVIOUS
<1> DEFINE T == {x \in Nat : \A b \in S : x < b}
<1>1. 0 \in T
  <2>1. 0 \notin S
    OBVIOUS
  <2> QED BY <2>1
<1>2. \A x \in T : x + 1 \in T
  <2> SUFFICES ASSUME NEW x \in T PROVE x + 1 \in T
    OBVIOUS
  <2>1. \A b \in S : x + 1 <= b
    OBVIOUS
  <2>2. x + 1 \notin S
    BY <2>1
  <2> QED BY <2>1, <2>2
<1>3. T = Nat
  <2> HIDE DEF T
  <2>1. T \in SUBSET Nat
    BY DEF T
  <2> QED BY <1>1, <1>2, <2>1, AllNumbers
<1>4. PICK b \in S : TRUE
  OBVIOUS
<1> QED BY <1>3, <1>4

-----------------------------------------------------------------------------
(* Strings: the invariant *)

\* What a setter leaves holds the value, if the length fits and the bytes begin
\* with the characters.
LEMMA Set ==
    ASSUME StrInv, NEW s \in Ids, NEW cstr \in CStrings, Len(cstr) <= Capacity,
           NEW bytes \in Seq(Chars \cup {NUL}), Len(cstr) <= Len(bytes),
           \A k \in 1 .. Len(cstr) : bytes[k] = cstr[k],
           str' = [str EXCEPT ![s] = [buffer |-> memcpy(@.buffer, bytes), length |-> Len(cstr)]],
           value' = [value EXCEPT ![s] = cstr],
           NEW ends \in BOOLEAN, closed' = [closed EXCEPT ![s] = ends],
           ends => Len(cstr) < Capacity /\ Len(bytes) = Len(cstr) + 1 /\ bytes[Len(bytes)] = NUL
    PROVE  StrInv'
<1> USE StringsAssumption
<1> DEFINE new == [buffer |-> memcpy(str[s].buffer, bytes), length |-> Len(cstr)]
<1>1. cstr \in Seq(Chars) /\ Len(cstr) \in Nat
  BY DEF CStrings
<1>2. str[s].buffer \in [0 .. Capacity - 1 -> Chars \cup {NUL}]
  BY DEF StrInv, TypeOK, StringT
<1>3. /\ new.buffer \in [0 .. Capacity - 1 -> Chars \cup {NUL}]
      /\ \A k \in 1 .. Len(cstr) : new.buffer[k - 1] = cstr[k]
      /\ ends => new.buffer[Len(cstr)] = NUL
  <2>1. new.buffer = [a \in 0 .. Capacity - 1 |->
                         IF a < Len(bytes) THEN bytes[a + 1] ELSE str[s].buffer[a]]
    BY <1>2 DEF memcpy
  <2>2. \A a \in 0 .. Capacity - 1 : a < Len(bytes) => bytes[a + 1] \in Chars \cup {NUL}
    BY ElementOfSeq
  <2>3. \A k \in 1 .. Len(cstr) :
           k - 1 \in 0 .. Capacity - 1 /\ k - 1 < Len(bytes) /\ (k - 1) + 1 = k
    BY <1>1
  <2>4. ends => /\ Len(cstr) \in 0 .. Capacity - 1 /\ Len(cstr) < Len(bytes)
                /\ bytes[Len(cstr) + 1] = NUL
    BY <1>1
  <2>5. Len(bytes) \in Nat
    OBVIOUS
  <2> HIDE DEF new
  <2>6. \A k \in 1 .. Len(cstr) : new.buffer[k - 1] = cstr[k]
    BY <1>2, <2>1, <2>2, <2>3
  <2>7. new.buffer \in [0 .. Capacity - 1 -> Chars \cup {NUL}]
    BY <1>2, <2>1, <2>2
  <2>8. ends => new.buffer[Len(cstr)] = NUL
    BY <2>1, <2>4
  <2> QED BY <2>6, <2>7, <2>8
<1>4. new \in StringT
  BY <1>1, <1>3 DEF StringT
<1>5. TypeOK'
  BY <1>1, <1>4 DEF StrInv, TypeOK
<1>6. ASSUME NEW t \in Ids
      PROVE  /\ str'[t].length = Len(value'[t])
             /\ \A k \in 1 .. Len(value'[t]) : str'[t].buffer[k - 1] = value'[t][k]
             /\ closed'[t] => Len(value'[t]) < Capacity /\ str'[t].buffer[Len(value'[t])] = NUL
  <2>1. CASE t = s
    <3>1. str'[t] = new /\ value'[t] = cstr /\ closed'[t] = ends
      BY <2>1 DEF StrInv, TypeOK
    <3> QED BY <1>3, <3>1
  <2>2. CASE t # s
    <3>1. str'[t] = str[t] /\ value'[t] = value[t] /\ closed'[t] = closed[t]
      BY <2>2 DEF StrInv, TypeOK
    <3> QED BY <3>1 DEF StrInv
  <2> QED BY <2>1, <2>2
<1> QED BY <1>5, <1>6 DEF StrInv

LEMMA StrStep == StrInv /\ [Next]_vars => StrInv'
<1> SUFFICES ASSUME StrInv, [Next]_vars PROVE StrInv'
  OBVIOUS
<1>1. ASSUME NEW s \in Ids, NEW cstr \in CStrings, str_init(s, cstr) PROVE StrInv'
  <2> DEFINE bytes == Append(cstr, NUL)
  <2>1. cstr \in Seq(Chars) /\ Len(cstr) \in Nat
    BY DEF CStrings
  <2>2. /\ bytes \in Seq(Chars \cup {NUL})
        /\ Len(bytes) = Len(cstr) + 1
        /\ \A k \in 1 .. Len(cstr) : bytes[k] = cstr[k]
        /\ bytes[Len(bytes)] = NUL
    BY <2>1 DEF NUL
  <2>3. Len(cstr) < Capacity
    BY <1>1 DEF str_init
  <2>4. /\ str' = [str EXCEPT ![s] = [buffer |-> memcpy(@.buffer, bytes), length |-> Len(cstr)]]
        /\ value' = [value EXCEPT ![s] = cstr]
        /\ closed' = [closed EXCEPT ![s] = TRUE]
    BY <1>1 DEF str_init
  <2> HIDE DEF bytes
  <2>5. Len(cstr) <= Capacity /\ Len(cstr) <= Len(bytes)
    BY <2>1, <2>2, <2>3, StringsAssumption
  <2> QED BY <2>2, <2>3, <2>4, <2>5, Set
<1>2. ASSUME NEW s \in Ids, NEW cstr \in CStrings, string_from_cstr(s, cstr) PROVE StrInv'
  <2>1. cstr \in Seq(Chars \cup {NUL}) /\ Len(cstr) \in Nat
    BY DEF CStrings
  <2>2. Len(cstr) <= Len(cstr) /\ \A k \in 1 .. Len(cstr) : cstr[k] = cstr[k]
    BY <2>1
  <2> QED BY <1>2, <2>1, <2>2, Set DEF string_from_cstr
<1>3. CASE UNCHANGED vars
  BY <1>3 DEF vars, StrInv, TypeOK
<1> QED BY <1>1, <1>2, <1>3 DEF Next

\* Every string holds what it was last set to, whatever it held before: see
\* StrInv.
THEOREM StringsHold == Spec => []StrInv
<1>1. Init => StrInv
  <2> SUFFICES ASSUME Init PROVE StrInv
    OBVIOUS
  <2>1. \A s \in Ids : str[s] \in StringT /\ str[s].length = 0
    BY StringsAssumption DEF Init, StringT, NUL
  <2>2. \A s \in Ids : value[s] \in Seq(Chars) /\ Len(value[s]) = 0
    BY DEF Init
  <2>3. TypeOK
    BY <2>1, <2>2 DEF TypeOK, Init
  <2>4. \A s \in Ids : str[s].buffer[0] = NUL
    BY StringsAssumption DEF Init
  <2>5. \A s \in Ids : Len(value[s]) = 0 /\ 0 < Capacity
    BY <2>2, StringsAssumption
  <2> QED BY <2>1, <2>2, <2>3, <2>4, <2>5 DEF StrInv
<1> QED BY <1>1, StrStep, PTL DEF Spec

-----------------------------------------------------------------------------
(* Strings: comparisons *)

\* memcmp() is the difference of the first two bytes that differ, 0 without any.
LEMMA FirstDifference ==
    ASSUME NEW n \in Nat, NEW b1, NEW b2
    PROVE  \/ /\ \A a \in 0 .. n - 1 : b1[a] = b2[a]
              /\ memcmp(b1, b2, n) = 0
           \/ \E a \in 0 .. n - 1 :
                 /\ b1[a] # b2[a]
                 /\ \A b \in 0 .. n - 1 : b < a => b1[b] = b2[b]
                 /\ memcmp(b1, b2, n) = b1[a] - b2[a]
<1> DEFINE Differ == {a \in 0 .. n - 1 : b1[a] # b2[a]}
           first == CHOOSE a \in Differ : \A b \in Differ : a <= b
<1>1. CASE Differ = {}
  BY <1>1 DEF memcmp
<1>2. CASE Differ # {}
  <2>1. Differ \in SUBSET Nat
    OBVIOUS
  <2>2. \E a \in Differ : \A b \in Differ : a <= b
    <3> HIDE DEF Differ
    <3> QED BY <1>2, <2>1, Least
  <2>3. first \in Differ /\ \A b \in Differ : first <= b
    <3> HIDE DEF Differ
    <3> QED BY <2>2
  <2>4. memcmp(b1, b2, n) = b1[first] - b2[first]
    BY <1>2 DEF memcmp
  <2> HIDE DEF first
  <2>5. \A b \in 0 .. n - 1 : b < first => b1[b] = b2[b]
    BY <2>1, <2>3
  <2> QED BY <2>3, <2>4, <2>5
<1> QED BY <1>1, <1>2

\* Of two strings, in terms of what they were set to.
LEMMA CompareStrings ==
    ASSUME StrInv, NEW s \in Ids, NEW t \in Ids
    PROVE  LET order == str_cmp(str[s], str[t]) IN
           /\ order \in Int
           /\ order = 0 <=> value[s] = value[t]
           /\ str_cmp(str[t], str[s]) = -order
           /\ cstr_cmp(str[s], value[t]) = order
<1> DEFINE v == value[s]
           w == value[t]
           n == Len(v)
           b == str[s].buffer
           c == str[t].buffer
           d == [a \in 0 .. Len(w) - 1 |-> w[a + 1]]
<1>1. v \in Seq(Chars) /\ w \in Seq(Chars) /\ n \in Nat /\ Len(w) \in Nat
  BY DEF StrInv, TypeOK
<1>2. /\ str[s].length = n /\ \A k \in 1 .. n : b[k - 1] = v[k]
      /\ str[t].length = Len(w) /\ \A k \in 1 .. Len(w) : c[k - 1] = w[k]
  BY DEF StrInv
<1>3. CASE n # Len(w)
  <2>1. v # w
    BY <1>3
  <2>2. /\ str_cmp(str[s], str[t]) = n - Len(w)
        /\ str_cmp(str[t], str[s]) = Len(w) - n
        /\ cstr_cmp(str[s], w) = n - Len(w)
    BY <1>2, <1>3 DEF str_cmp, cstr_cmp
  <2> HIDE DEF n
  <2> QED BY <1>1, <1>3, <2>1, <2>2
<1>4. CASE n = Len(w)
  <2>1. /\ str_cmp(str[s], str[t]) = memcmp(b, c, n)
        /\ str_cmp(str[t], str[s]) = memcmp(c, b, n)
        /\ cstr_cmp(str[s], w) = memcmp(b, d, n)
    BY <1>2, <1>4 DEF str_cmp, cstr_cmp
  <2>2. \A a \in 0 .. n - 1 : b[a] = v[a + 1] /\ c[a] = w[a + 1] /\ d[a] = w[a + 1]
    <3>1. \A a \in 0 .. n - 1 : a + 1 \in 1 .. n /\ (a + 1) - 1 = a
      BY <1>1
    <3> QED BY <1>2, <1>4, <3>1
  <2>3. \A a \in 0 .. n - 1 : b[a] \in Int /\ c[a] \in Int
    <3>1. \A a \in 0 .. n - 1 : v[a + 1] \in Chars /\ w[a + 1] \in Chars
      BY <1>1, <1>4
    <3>2. \A x \in Chars : x \in Int
      BY StringsAssumption
    <3> HIDE DEF b, c, v, w, n
    <3> QED BY <2>2, <3>1, <3>2
  <2>4. (\A a \in 0 .. n - 1 : b[a] = c[a]) <=> v = w
    <3>1. (\A a \in 0 .. n - 1 : v[a + 1] = w[a + 1]) => \A k \in 1 .. n : v[k] = w[k]
      <4> SUFFICES ASSUME \A a \in 0 .. n - 1 : v[a + 1] = w[a + 1], NEW k \in 1 .. n
                   PROVE  v[k] = w[k]
        OBVIOUS
      <4>1. k - 1 \in 0 .. n - 1 /\ (k - 1) + 1 = k
        BY <1>1
      <4> QED BY <4>1
    <3>2. (\A k \in 1 .. n : v[k] = w[k]) => v = w
      BY <1>1, <1>4, SeqEqual
    <3> QED BY <2>2, <3>1, <3>2
  <2> HIDE DEF b, c, d, v, w, n
  <2>5. \/ (\A a \in 0 .. n - 1 : b[a] = c[a]) /\ memcmp(b, c, n) = 0
        \/ \E a \in 0 .. n - 1 : /\ b[a] # c[a]
                                 /\ \A e \in 0 .. n - 1 : e < a => b[e] = c[e]
                                 /\ memcmp(b, c, n) = b[a] - c[a]
    BY <1>1, FirstDifference
  <2>6. \/ (\A a \in 0 .. n - 1 : c[a] = b[a]) /\ memcmp(c, b, n) = 0
        \/ \E a \in 0 .. n - 1 : /\ c[a] # b[a]
                                 /\ \A e \in 0 .. n - 1 : e < a => c[e] = b[e]
                                 /\ memcmp(c, b, n) = c[a] - b[a]
    BY <1>1, FirstDifference
  <2>7. \/ (\A a \in 0 .. n - 1 : b[a] = d[a]) /\ memcmp(b, d, n) = 0
        \/ \E a \in 0 .. n - 1 : /\ b[a] # d[a]
                                 /\ \A e \in 0 .. n - 1 : e < a => b[e] = d[e]
                                 /\ memcmp(b, d, n) = b[a] - d[a]
    BY <1>1, FirstDifference
  <2>8. memcmp(b, c, n) \in Int /\ (memcmp(b, c, n) = 0 <=> v = w)
    BY <1>1, <2>3, <2>4, <2>5
  <2>9. memcmp(c, b, n) = -memcmp(b, c, n)
    BY <1>1, <2>3, <2>5, <2>6
  <2>10. memcmp(b, d, n) = memcmp(b, c, n)
    BY <1>1, <2>2, <2>3, <2>5, <2>7
  <2> QED BY <2>1, <2>8, <2>9, <2>10 DEF v, w
<1> QED BY <1>3, <1>4

\* Whatever a buffer has held before, comparisons see only what was set last:
\* see ComparisonsAgree.
THEOREM StringsCompare == Spec => []ComparisonsAgree
<1>1. StrInv => ComparisonsAgree
  BY CompareStrings DEF ComparisonsAgree, Sign
<1> QED BY <1>1, StringsHold, PTL

-----------------------------------------------------------------------------
(* Strings: conversions *)

\* The bytes of a C string are read back as that string.
LEMMA ReadBack ==
    ASSUME NEW v \in Seq(Chars) PROVE CString(array_of(v)) = v
<1> DEFINE n == Len(v)
           array == array_of(v)
           Ends == {a \in DOMAIN array : array[a] = NUL}
<1>1. n \in Nat
  OBVIOUS
<1>2. /\ DOMAIN array = 0 .. n
      /\ array[n] = NUL
      /\ \A k \in 1 .. n : array[k - 1] = v[k]
  BY DEF array_of
<1>3. \A k \in 1 .. n : v[k] # NUL
  BY StringsAssumption DEF NUL
<1>4. Ends = {n}
  <2>1. \A a \in 0 .. n : a # n => a + 1 \in 1 .. n /\ (a + 1) - 1 = a
    BY <1>1
  <2> HIDE DEF array, n
  <2> QED BY <1>1, <1>2, <1>3, <2>1
<1>5. (CHOOSE a \in Ends : \A b \in Ends : a <= b) = n
  BY <1>1, <1>4
<1>6. CString(array) = [k \in 1 .. n |-> array[k - 1]]
  BY <1>4, <1>5 DEF CString
<1>7. [k \in 1 .. n |-> array[k - 1]] = [k \in 1 .. n |-> v[k]]
  BY <1>2
<1> QED BY <1>6, <1>7

LEMMA PrintsString ==
    ASSUME StrInv, NEW s \in Ids
    PROVE  /\ printed_string(str[s]).bytes > 0
           /\ CString(printed_string(str[s]).out) = value[s]
<1> DEFINE v == value[s]
           n == Len(v)
<1>1. v \in Seq(Chars) /\ n \in Nat
  BY DEF StrInv, TypeOK
<1>2. str[s].length = n /\ \A k \in 1 .. n : str[s].buffer[k - 1] = v[k]
  BY DEF StrInv
<1>3. [k \in 1 .. str[s].length |-> str[s].buffer[k - 1]] = v
  <2>1. [k \in 1 .. n |-> str[s].buffer[k - 1]] = [k \in 1 .. n |-> v[k]]
    BY <1>2
  <2>2. [k \in 1 .. n |-> v[k]] = v
    BY <1>1
  <2> HIDE DEF v
  <2> QED BY <1>2, <2>1, <2>2
<1>4. string_to_cstr(0, str[s]).bytes = n + 1
  BY <1>2 DEF string_to_cstr, Returns
<1>5. string_to_cstr(n + 1, str[s]) = Returns(n + 1, array_of(v))
  BY <1>1, <1>2, <1>3 DEF string_to_cstr
<1> QED BY <1>1, <1>4, <1>5, ReadBack DEF printed_string, Returns

LEMMA PrintsNumber ==
    ASSUME NEW digits \in CStrings
    PROVE  /\ printed_float(digits) = Returns(1, array_of(digits))
           /\ printed_integer(digits) = Returns(1, array_of(digits))
<1> DEFINE n == Len(digits)
<1>1. digits \in Seq(Chars) /\ n \in Nat
  BY DEF CStrings
<1>2. float_to_cstr(0, digits).bytes = n + 1
  BY DEF float_to_cstr, Returns
<1>3. SubSeq(digits, 1, n) = digits
  BY <1>1, SubSeqFull
<1>4. float_to_cstr(n + 1, digits) = Returns(1, array_of(digits))
  <2>1. n < n + 1 /\ n + 1 # 0
    BY <1>1
  <2> HIDE DEF n
  <2> QED BY <1>3, <2>1 DEF float_to_cstr, n
<1> QED BY <1>2, <1>4 DEF printed_float, printed_integer, integer_to_cstr

\* What str_init() has set is read back whole without its length, and nothing
\* else with it: see ReadsBack.
THEOREM StringsReadBack == Spec => []ReadsBack
<1>1. ASSUME StrInv, NEW s \in Ids, closed[s] PROVE str_to_cstr(str[s]) = value[s]
  <2> DEFINE v == value[s]
             n == Len(v)
             array == str[s].buffer
             Ends == {a \in DOMAIN array : array[a] = NUL}
  <2>1. /\ v \in Seq(Chars) /\ n \in Nat /\ n < Capacity
        /\ DOMAIN array = 0 .. Capacity - 1
        /\ array[n] = NUL
        /\ \A k \in 1 .. n : array[k - 1] = v[k]
    BY <1>1 DEF StrInv, TypeOK, StringT
  <2>2. \A k \in 1 .. n : v[k] # NUL
    BY <2>1, StringsAssumption DEF NUL
  <2>3. n \in Ends /\ \A a \in Ends : n <= a
    <3>1. \A a \in 0 .. Capacity - 1 : a < n => a + 1 \in 1 .. n /\ (a + 1) - 1 = a
      BY <2>1
    <3> HIDE DEF array, v, n
    <3>2. n \in 0 .. Capacity - 1
      BY <2>1, StringsAssumption
    <3>3. n \in Ends
      BY <2>1, <3>2
    <3>4. ASSUME NEW a \in Ends PROVE n <= a
      <4>1. a \in 0 .. Capacity - 1 /\ array[a] = NUL
        BY <2>1
      <4>2. ~(a < n)
        <5> SUFFICES ASSUME a < n PROVE FALSE
          OBVIOUS
        <5>1. a + 1 \in 1 .. n /\ (a + 1) - 1 = a
          BY <3>1, <4>1
        <5> QED BY <2>1, <2>2, <4>1, <5>1
      <4>3. a \in Int /\ n \in Int
        BY <2>1, <4>1, StringsAssumption
      <4> QED BY <4>2, <4>3
    <3> QED BY <3>3, <3>4
  <2>4. (CHOOSE a \in Ends : \A b \in Ends : a <= b) = n
    <3>1. Ends \in SUBSET Int
      BY <2>1
    <3> HIDE DEF Ends, n
    <3>2. \A a \in Ends : (\A b \in Ends : a <= b) => a = n
      BY <2>3, <3>1
    <3> QED BY <2>3, <3>2
  <2>5. CString(array) = [k \in 1 .. n |-> array[k - 1]]
    BY <2>3, <2>4 DEF CString
  <2>6. [k \in 1 .. n |-> array[k - 1]] = [k \in 1 .. n |-> v[k]]
    BY <2>1
  <2>7. [k \in 1 .. n |-> v[k]] = v
    BY <2>1
  <2> QED BY <2>5, <2>6, <2>7 DEF str_to_cstr
<1>2. StrInv => ReadsBack
  BY <1>1 DEF ReadsBack
<1> QED BY <1>2, StringsHold, PTL

\* The size that a conversion asks for is enough for the whole field: see
\* PrintsWhole.
THEOREM StringsPrint == Spec => []PrintsWhole
<1>1. StrInv => PrintsWhole
  <2>1. ASSUME NEW digits \in CStrings
        PROVE  CString(array_of(digits)) = digits
    BY ReadBack DEF CStrings
  <2> QED BY <2>1, PrintsString, PrintsNumber DEF PrintsWhole, Returns
<1> QED BY <1>1, StringsHold, PTL

-----------------------------------------------------------------------------
(* The log *)

\* An instance that a call gets is the one that was there, or a new one with an
\* empty file; without one there is nothing accepted yet.
LEMMA InstanceFacts ==
    ASSUME L!LogInv, log # "freed", NEW got \in L!log_get_instance
    PROVE  /\ got.log \in {"NULL", "open"}
           /\ got.debug \in BOOLEAN
           /\ got.file = accepted
           /\ got.log = "NULL" => accepted = <<>>
<1>1. CASE log = "open"
  BY <1>1 DEF L!LogInv, L!TypeOK, L!TakenIsKept, L!log_get_instance
<1>2. CASE log = "NULL"
  <2>1. CASE got = [log |-> "NULL", debug |-> debug, file |-> file]
    BY <1>2, <2>1 DEF L!LogInv, L!TypeOK, L!TakenIsKept
  <2>2. CASE got = [log |-> "open", debug |-> TRUE, file |-> <<>>]
    BY <1>2, <2>2 DEF L!LogInv, L!TypeOK, L!TakenIsKept
  <2> QED BY <1>2, <2>1, <2>2 DEF L!log_get_instance
<1> QED BY <1>1, <1>2 DEF L!LogInv, L!TypeOK

LEMMA LogStep == L!LogInv /\ [L!Next]_(L!vars) => L!LogInv'
<1> SUFFICES ASSUME L!LogInv, [L!Next]_(L!vars) PROVE L!LogInv'
  OBVIOUS
<1>1. ASSUME log # "freed", NEW b \in BOOLEAN, L!log_set_debug_mode(b) PROVE L!LogInv'
  BY <1>1, InstanceFacts DEF L!log_set_debug_mode, L!LogInv, L!TypeOK, L!TakenIsKept
<1>2. ASSUME log # "freed", NEW lvl \in L!Levels, L!log_write(lvl) PROVE L!LogInv'
  <2>1. PICK got \in L!log_get_instance, line \in {l \in L!Line : l.level = lvl} :
           /\ log' = got.log /\ debug' = got.debug
           /\ file' = IF L!Refuses(got, lvl) THEN got.file ELSE Append(got.file, line)
           /\ accepted' = IF L!Refuses(got, lvl) THEN accepted ELSE Append(accepted, line)
    BY <1>2 DEF L!log_write
  <2>2. /\ got.log \in {"NULL", "open"} /\ got.debug \in BOOLEAN
        /\ got.file = accepted
        /\ got.log = "NULL" => accepted = <<>>
    BY <1>2, InstanceFacts
  <2>3. CASE L!Refuses(got, lvl)
    BY <2>1, <2>2, <2>3 DEF L!LogInv, L!TypeOK, L!TakenIsKept
  <2>4. CASE ~L!Refuses(got, lvl)
    BY <2>1, <2>2, <2>4 DEF L!Refuses, L!LogInv, L!TypeOK, L!TakenIsKept
  <2> QED BY <2>3, <2>4
<1>3. ASSUME log # "freed", L!log_close PROVE L!LogInv'
  BY <1>3, InstanceFacts DEF L!log_close, L!LogInv, L!TypeOK, L!TakenIsKept
<1>4. CASE UNCHANGED L!vars
  BY <1>4 DEF L!vars, L!LogInv, L!TypeOK, L!TakenIsKept
<1> QED BY <1>1, <1>2, <1>3, <1>4 DEF L!Next, L!Call, L!vars

\* What the disk took of the lines for which log_write() returned 0 stays in the
\* file, in order: see TakenIsKept.
THEOREM LogKeeps == L!Spec => []TakenIsKept
<1>1. L!Init => L!LogInv
  <2> SUFFICES ASSUME L!Init PROVE L!LogInv
    OBVIOUS
  <2>1. debug \in BOOLEAN
    BY Zenon DEF L!Init
  <2>2. file \in Seq(L!Line) /\ accepted \in Seq(L!Line)
    BY DEF L!Init
  <2> QED BY <2>1, <2>2 DEF L!Init, L!LogInv, L!TypeOK, L!TakenIsKept
<1>2. L!LogInv => TakenIsKept
  BY DEF L!LogInv, TakenIsKept
<1> QED BY <1>1, <1>2, LogStep, PTL DEF L!Spec

\* A behaviour of the two together, of which TLC checks an instance, is one of
\* each, so that the theorems above are about it.
LEMMA LibrariesApart == LibrariesSpec => Spec /\ L!Spec
<1>1. LibrariesInit => Init /\ L!Init
  BY DEF LibrariesInit
<1>2. [LibrariesNext]_<<vars, logVars>> => [Next]_vars
  BY DEF LibrariesNext
<1>3. [LibrariesNext]_<<vars, logVars>> => [L!Next]_(L!vars)
  BY DEF LibrariesNext, logVars, L!vars
<1> QED BY <1>1, <1>2, <1>3, PTL DEF LibrariesSpec, Spec, L!Spec
=============================================================================
