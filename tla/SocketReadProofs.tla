--------------------------- MODULE SocketReadProofs ---------------------------
(***************************************************************************)
(* The loop around recv(), for messages and buffers of every size.         *)
(***************************************************************************)
EXTENDS SocketRead, TLAPS

-----------------------------------------------------------------------------
(* The inductive invariant *)

\* A reset comes before the other side has sent anything.
ResetInv ==
    /\ peer = "reset" => wire = 0
    /\ errno = "ECONNRESET" => peer = "reset"

\* Before the first error the count is right: the buffer holds what follows the
\* text that the parser has, and a count of 0 means that there is no more.
CleanInv ==
    errno = "none" =>
        /\ pc = "recv" => read = 0
        /\ pc \in {"recv", "test", "parse"} =>
              /\ read \in 0 .. size /\ taken = Len(text) + read
              /\ \A k \in 1 .. read : output[k - 1] = Len(text) + k
        /\ pc \in {"test", "parse"} =>
              /\ read = 0 => peer = "closed" /\ wire = taken
              /\ waitall => read = size \/ peer # "open" \/ ~armed

\* After an interruption the loop does not end, and the count is one too small.
SpinInv ==
    errno = "EINTR" =>
        /\ pc \in {"recv", "test"} /\ ~armed
        /\ read \in -1 .. size /\ read = taken - Len(text) - 1

\* With the connection reset nothing has been read, and the loop ends.
FailInv ==
    errno = "ECONNRESET" =>
        /\ pc \in {"test", "parse", "error"}
        /\ pc # "error" => read \in {-1, -2} /\ text = <<>> /\ output[0] = 0

\* Nothing is in the buffer before the other side sends.
EmptyInv == wire = 0 => \A a \in -1 .. size - 1 : output[a] = 0

TextInv ==
    /\ pc # "error" => IsPrefix(text)
    /\ pc \in {"recv", "test", "parse"} => Len(text) < Bytes /\ Len(text) <= taken
    /\ pc = "message" => Len(text) = Bytes /\ wire = Bytes

IInv ==
    /\ TypeOK /\ ResetInv /\ CleanInv /\ SpinInv /\ FailInv /\ EmptyInv /\ TextInv
    /\ TextInPlace /\ WaitsForClose

-----------------------------------------------------------------------------
(* What the parser is given *)

LEMMA GivenFacts ==
    ASSUME NEW s \in Seq(0 .. Bytes), NEW n \in Nat, NEW f,
           \A k \in 1 .. n : f[k - 1] \in 0 .. Bytes
    PROVE  LET given == s \o [k \in 1 .. n |-> f[k - 1]] IN
           /\ given \in Seq(0 .. Bytes) /\ Len(given) = Len(s) + n
           /\ \A k \in 1 .. Len(s) : given[k] = s[k]
           /\ \A k \in 1 .. n : given[Len(s) + k] = f[k - 1]
<1> DEFINE t == [k \in 1 .. n |-> f[k - 1]]
<1>1. t \in Seq(0 .. Bytes) /\ Len(t) = n /\ \A k \in 1 .. n : t[k] = f[k - 1]
  OBVIOUS
<1> HIDE DEF t
<1>2. /\ s \o t \in Seq(0 .. Bytes) /\ Len(s \o t) = Len(s) + n
      /\ \A k \in 1 .. Len(s) : (s \o t)[k] = s[k]
      /\ \A k \in 1 .. n : (s \o t)[Len(s) + k] = t[k]
  BY <1>1
<1> QED BY <1>1, <1>2 DEF t

LEMMA InitInv == Init => IInv
BY SocketReadAssumption
   DEF Init, IInv, TypeOK, ResetInv, CleanInv, SpinInv, FailInv, EmptyInv, TextInv,
       IsPrefix, TextInPlace, WaitsForClose

-----------------------------------------------------------------------------
(* The other side *)

LEMMA PeerStep == ASSUME IInv, PeerSends \/ PeerCloses \/ PeerResets PROVE IInv'
<1>1. UNCHANGED <<size, waitall, armed, pc, taken, read, errno, output, text>>
  BY DEF PeerSends, PeerCloses, PeerResets, reader
<1>2. /\ wire' \in wire .. Bytes /\ wire \in 0 .. Bytes
      /\ peer = "open" /\ peer' \in {"open", "closed", "reset"}
      /\ peer' = "reset" => wire' = 0
  BY SocketReadAssumption DEF PeerSends, PeerCloses, PeerResets, IInv, TypeOK
<1>3. TypeOK'
  BY <1>1, <1>2 DEF IInv, TypeOK
<1>4. ResetInv' /\ SpinInv' /\ FailInv' /\ EmptyInv' /\ TextInPlace' /\ WaitsForClose'
  BY <1>1, <1>2
  DEF IInv, ResetInv, SpinInv, FailInv, EmptyInv, TextInPlace, WaitsForClose
<1>5. CleanInv'
  BY <1>1, <1>2 DEF IInv, CleanInv
<1>6. TextInv'
  BY <1>1, <1>2 DEF IInv, TextInv, IsPrefix
<1> QED BY <1>3, <1>4, <1>5, <1>6 DEF IInv

-----------------------------------------------------------------------------
(* recv() *)

\* n bytes are copied, in an uninterrupted call or in one cut short by a signal.
LEMMA CopyStep ==
    ASSUME IInv, pc = "recv", NEW n \in Nat, n <= available, n <= room, Copy(n),
           n = 0 => room = 0,
           UNCHANGED <<size, waitall, wire, peer, errno, text>>,
           armed' \in BOOLEAN, armed' => armed,
           waitall => n = room \/ peer # "open" \/ ~armed'
    PROVE  IInv'
<1> USE DEF available, room
<1>1. /\ size \in Nat \ {0} /\ wire \in 0 .. Bytes /\ taken \in 0 .. wire /\ Bytes \in Nat
      /\ read \in -1 .. size /\ errno \in {"none", "EINTR"}
      /\ Len(text) \in Nat /\ Len(text) < Bytes /\ Len(text) <= taken
  BY SocketReadAssumption DEF IInv, TypeOK, CleanInv, SpinInv, FailInv, TextInv
<1>2. taken' = taken + n /\ read' = read + n /\ pc' = "test"
  BY DEF Copy
<1>3. output' \in [-1 .. size - 1 -> 0 .. Bytes]
  <2>1. output \in [-1 .. size - 1 -> 0 .. Bytes]
    BY DEF IInv, TypeOK
  <2>2. \A a \in -1 .. size - 1 :
           a \in read .. read + n - 1 => taken + a - read + 1 \in 0 .. Bytes
    BY <1>1
  <2> QED BY <2>1, <2>2 DEF Copy
<1>4. TypeOK'
  BY <1>1, <1>2, <1>3 DEF IInv, TypeOK
<1>5. ResetInv' /\ FailInv' /\ SpinInv' /\ TextInPlace' /\ WaitsForClose'
  BY <1>1, <1>2 DEF IInv, ResetInv, FailInv, SpinInv, TextInPlace, WaitsForClose
<1>6. EmptyInv'
  <2> SUFFICES ASSUME wire = 0 PROVE \A a \in -1 .. size - 1 : output'[a] = 0
    BY DEF EmptyInv
  <2>1. n = 0
    BY <1>1
  <2>2. \A a \in Int : a \notin read .. read + n - 1
    BY <1>1, <2>1
  <2>3. output \in [-1 .. size - 1 -> 0 .. Bytes]
    BY DEF IInv, TypeOK
  <2>4. \A a \in -1 .. size - 1 : output'[a] = output[a]
    BY <2>2, <2>3 DEF Copy
  <2> QED BY <2>4 DEF IInv, EmptyInv
<1>7. TextInv'
  BY <1>1, <1>2 DEF IInv, TextInv, IsPrefix
<1>8. CleanInv'
  <2> SUFFICES ASSUME errno = "none" PROVE CleanInv'
    BY DEF CleanInv
  <2>1. read = 0 /\ taken = Len(text) /\ n > 0
    BY <1>1 DEF IInv, CleanInv
  <2>2. output \in [-1 .. size - 1 -> 0 .. Bytes]
    BY DEF IInv, TypeOK
  <2>3. \A k \in 1 .. n : k - 1 \in -1 .. size - 1 /\ k - 1 \in read .. read + n - 1
    BY <1>1, <2>1
  <2>4. \A k \in 1 .. n : output'[k - 1] = Len(text) + k
    BY <1>1, <2>1, <2>2, <2>3 DEF Copy
  <2> QED BY <1>1, <1>2, <2>1, <2>4 DEF CleanInv
<1> QED BY <1>4, <1>5, <1>6, <1>7, <1>8 DEF IInv

LEMMA RecvStep == ASSUME IInv, Recv PROVE IInv'
<1> DEFINE n == Lower(available, room)
<1>1. /\ wire \in 0 .. Bytes /\ taken \in 0 .. wire /\ Bytes \in Nat
      /\ size \in Nat /\ read \in -1 .. size /\ armed \in BOOLEAN
  BY SocketReadAssumption DEF Recv, IInv, TypeOK, CleanInv, SpinInv, FailInv
<1>2. n \in Nat /\ n <= available /\ n <= room /\ (n = 0 => room = 0)
  BY <1>1 DEF Lower, available, room, Recv
<1>3. waitall => n = room \/ peer # "open"
  BY <1>1 DEF Lower, available, room, Recv
<1>4. pc = "recv" /\ Copy(n) /\ UNCHANGED <<size, waitall, wire, peer, errno, text, armed>>
  BY DEF Recv, env
<1> HIDE DEF n
<1> QED BY <1>1, <1>2, <1>3, <1>4, CopyStep

LEMMA RecvNothingStep == ASSUME IInv, RecvNothing PROVE IInv'
<1>1. /\ pc = "recv" /\ pc' = "test"
      /\ room = 0 \/ (available = 0 /\ peer = "closed")
      /\ UNCHANGED <<size, waitall, wire, peer, armed, taken, read, errno, output, text>>
  BY DEF RecvNothing, env
<1>2. TypeOK' /\ ResetInv' /\ FailInv' /\ SpinInv' /\ EmptyInv' /\ TextInPlace' /\ WaitsForClose'
  BY <1>1
  DEF IInv, TypeOK, ResetInv, FailInv, SpinInv, EmptyInv, TextInPlace, WaitsForClose
<1>3. TextInv'
  BY <1>1 DEF IInv, TextInv, IsPrefix
<1>4. /\ size \in Nat \ {0} /\ wire \in 0 .. Bytes /\ taken \in 0 .. wire /\ Bytes \in Nat
  BY SocketReadAssumption DEF IInv, TypeOK
<1>5. ASSUME errno = "none" PROVE read = 0 /\ available = 0 /\ peer = "closed"
  BY <1>1, <1>4, <1>5 DEF IInv, CleanInv, room
<1>6. CleanInv'
  BY <1>1, <1>4, <1>5 DEF IInv, CleanInv, available
<1> QED BY <1>2, <1>3, <1>6 DEF IInv

LEMMA RecvResetStep == ASSUME IInv, RecvReset PROVE IInv'
<1>1. /\ pc = "recv" /\ pc' = "test" /\ peer = "reset"
      /\ errno' = "ECONNRESET" /\ read' = read - 1
      /\ UNCHANGED <<size, waitall, wire, peer, armed, taken, output, text>>
  BY DEF RecvReset, env
<1>2. /\ size \in Nat \ {0} /\ wire = 0 /\ taken = 0
      /\ text \in Seq(0 .. Bytes) /\ Len(text) = 0 /\ output[0] = 0
  BY <1>1, SocketReadAssumption DEF IInv, TypeOK, ResetInv, TextInv, EmptyInv
<1>3. read \in {0, -1}
  BY <1>1, <1>2 DEF IInv, CleanInv, SpinInv, FailInv, TypeOK
<1>4. TypeOK'
  BY <1>1, <1>2, <1>3 DEF IInv, TypeOK
<1>5. text = <<>>
  BY <1>2
<1>6. ResetInv' /\ CleanInv' /\ SpinInv' /\ EmptyInv' /\ TextInPlace' /\ WaitsForClose'
  BY <1>1 DEF IInv, ResetInv, CleanInv, SpinInv, EmptyInv, TextInPlace, WaitsForClose
<1>7. FailInv'
  BY <1>1, <1>2, <1>3, <1>5 DEF FailInv
<1>8. TextInv'
  BY <1>1 DEF IInv, TextInv, IsPrefix
<1> QED BY <1>4, <1>6, <1>7, <1>8 DEF IInv

LEMMA RecvInterruptedStep == ASSUME IInv, RecvInterrupted PROVE IInv'
<1>1. /\ pc = "recv" /\ peer = "open" /\ armed /\ room > 0 /\ armed' = FALSE
      /\ UNCHANGED <<size, waitall, wire, peer, text>>
  BY DEF RecvInterrupted
<1>2. errno = "none" /\ read = 0
  BY <1>1 DEF IInv, TypeOK, CleanInv, SpinInv, FailInv
<1>3. CASE /\ available = 0 /\ read' = read - 1 /\ errno' = "EINTR" /\ pc' = "test"
           /\ UNCHANGED <<taken, output>>
  <2>1. taken = Len(text) /\ Len(text) \in Nat /\ size \in Nat \ {0}
    BY <1>1, <1>2, SocketReadAssumption DEF IInv, TypeOK, CleanInv
  <2>2. read' = -1
    BY <1>2, <1>3
  <2>3. armed' \in BOOLEAN /\ ~armed'
    BY <1>1
  <2>4. TypeOK'
    BY <1>1, <1>3, <2>1, <2>2, <2>3 DEF IInv, TypeOK
  <2>5. SpinInv'
    <3>1. read' \in -1 .. size /\ read' = taken - Len(text) - 1
      BY <2>1, <2>2
    <3> QED BY <1>1, <1>3, <2>3, <3>1 DEF SpinInv
  <2>6. /\ ResetInv' /\ CleanInv' /\ FailInv' /\ EmptyInv' /\ TextInPlace'
        /\ WaitsForClose'
    BY <1>1, <1>2, <1>3
    DEF IInv, ResetInv, CleanInv, FailInv, EmptyInv, TextInPlace, WaitsForClose
  <2>7. TextInv'
    BY <1>1, <1>3 DEF IInv, TextInv, IsPrefix
  <2> QED BY <2>4, <2>5, <2>6, <2>7 DEF IInv
<1>4. CASE waitall /\ available \in 1 .. room - 1 /\ Copy(available) /\ UNCHANGED errno
  <2>1. available \in Nat /\ available <= room /\ available # 0
    BY <1>1, <1>2, <1>4, SocketReadAssumption DEF IInv, TypeOK, room
  <2>2. armed' \in BOOLEAN /\ ~armed'
    BY <1>1
  <2> QED BY <1>1, <1>4, <2>1, <2>2, CopyStep
<1> QED BY <1>3, <1>4 DEF RecvInterrupted

-----------------------------------------------------------------------------
(* The loop and the parser *)

LEMMA LoopStep == ASSUME IInv, Loop PROVE IInv'
<1>1. /\ pc = "test" /\ pc' = IF errno = "EINTR" THEN "recv" ELSE "parse"
      /\ UNCHANGED <<size, waitall, wire, peer, armed, taken, read, errno, output, text>>
  BY DEF Loop, env
<1>2. /\ TypeOK' /\ ResetInv' /\ SpinInv' /\ FailInv' /\ EmptyInv' /\ TextInPlace'
      /\ WaitsForClose'
  BY <1>1
  DEF IInv, TypeOK, ResetInv, SpinInv, FailInv, EmptyInv, TextInPlace, WaitsForClose
<1>3. CleanInv'
  BY <1>1 DEF IInv, CleanInv
<1>4. TextInv'
  BY <1>1 DEF IInv, TextInv, IsPrefix
<1> QED BY <1>2, <1>3, <1>4 DEF IInv

\* The parser is told that there is no more.
LEMMA ParseEnd == ASSUME IInv, Parse, read \in {0, -1} PROVE IInv' /\ pc' = "error"
<1>1. /\ pc = "parse" /\ pc' = "error" /\ read' = 0
      /\ UNCHANGED <<size, waitall, wire, peer, armed, taken, errno, output, text>>
  BY DEF Parse, env
<1>2. /\ TypeOK' /\ ResetInv' /\ CleanInv' /\ SpinInv' /\ FailInv' /\ EmptyInv'
      /\ TextInPlace' /\ WaitsForClose' /\ TextInv'
  BY <1>1, SocketReadAssumption
  DEF IInv, TypeOK, ResetInv, CleanInv, SpinInv, FailInv, EmptyInv, TextInPlace,
      WaitsForClose, TextInv
<1> QED BY <1>1, <1>2 DEF IInv

\* The count is -2: the connection was reset while the loop was going on.
LEMMA ParseHuge == ASSUME IInv, Parse, read = -2 PROVE IInv' /\ pc' = "error"
<1>1. /\ pc = "parse" /\ errno = "ECONNRESET" /\ text = <<>> /\ output[0] = 0
  BY DEF Parse, IInv, TypeOK, CleanInv, SpinInv, FailInv
<1>2. text' = <<0>>
  <2>1. text' = <<>> \o <<0>>
    BY <1>1 DEF Parse
  <2>2. <<>> \o <<0>> = <<0>>
    OBVIOUS
  <2> QED BY <2>1, <2>2
<1>3. /\ text' \in Seq(0 .. Bytes) /\ Len(text') = 1 /\ text'[1] = 0
  BY <1>2, SocketReadAssumption
<1>4. ~IsPrefix(text')
  BY <1>3 DEF IsPrefix
<1>5. /\ pc' = "error" /\ read' = 0
      /\ UNCHANGED <<size, waitall, wire, peer, armed, taken, errno, output>>
  BY <1>4 DEF Parse, env
<1>6. TypeOK' /\ TextInPlace'
  BY <1>3, <1>5, SocketReadAssumption DEF IInv, TypeOK, TextInPlace
<1>7. /\ ResetInv' /\ CleanInv' /\ SpinInv' /\ FailInv' /\ EmptyInv' /\ WaitsForClose'
      /\ TextInv'
  BY <1>1, <1>5
  DEF IInv, ResetInv, CleanInv, SpinInv, FailInv, EmptyInv, WaitsForClose, TextInv
<1> QED BY <1>5, <1>6, <1>7 DEF IInv

\* The parser gets the next bytes.
LEMMA ParseMore ==
    ASSUME IInv, Parse, read > 0
    PROVE  /\ IInv' /\ errno = "none"
           /\ pc' = IF wire = Bytes /\ taken = Bytes THEN "message" ELSE "recv"
<1>1. /\ pc = "parse" /\ read \in 1 .. size /\ errno = "none"
      /\ text \in Seq(0 .. Bytes) /\ Len(text) \in Nat /\ Len(text) < Bytes
      /\ taken = Len(text) + read /\ taken \in 0 .. wire /\ wire \in 0 .. Bytes
      /\ size \in Nat /\ Bytes \in Nat
  BY SocketReadAssumption DEF Parse, IInv, TypeOK, CleanInv, SpinInv, FailInv, TextInv
<1>2. \A k \in 1 .. read : output[k - 1] = Len(text) + k /\ output[k - 1] \in 0 .. Bytes
  BY <1>1 DEF IInv, CleanInv
<1>3. text' = text \o [k \in 1 .. read |-> output[k - 1]]
  BY <1>1 DEF Parse
<1>4. /\ text' \in Seq(0 .. Bytes) /\ Len(text') = taken
      /\ \A k \in 1 .. Len(text) : text'[k] = text[k]
      /\ \A k \in 1 .. read : text'[Len(text) + k] = Len(text) + k
  BY <1>1, <1>2, <1>3, GivenFacts
<1>5. IsPrefix(text')
  <2> SUFFICES ASSUME NEW k \in 1 .. taken PROVE text'[k] = k
    BY <1>4 DEF IsPrefix
  <2>1. CASE k <= Len(text)
    BY <1>1, <1>4, <2>1 DEF IInv, TextInv, IsPrefix
  <2>2. CASE k > Len(text)
    <3>1. k - Len(text) \in 1 .. read /\ Len(text) + (k - Len(text)) = k
      BY <1>1, <2>2
    <3> QED BY <1>4, <3>1
  <2> QED BY <1>1, <2>1, <2>2
<1>6. /\ pc' = IF taken = Bytes THEN "message" ELSE "recv"
      /\ read' = 0
      /\ UNCHANGED <<size, waitall, wire, peer, armed, taken, errno, output>>
  BY <1>1, <1>4, <1>5 DEF Parse, env
<1>7. TypeOK' /\ TextInPlace'
  BY <1>1, <1>4, <1>5, <1>6 DEF IInv, TypeOK, TextInPlace, IsPrefix
<1>8. ResetInv' /\ CleanInv' /\ SpinInv' /\ FailInv' /\ EmptyInv' /\ TextInv'
  BY <1>1, <1>4, <1>5, <1>6
  DEF IInv, ResetInv, CleanInv, SpinInv, FailInv, EmptyInv, TextInv
<1>9. WaitsForClose'
  BY <1>1, <1>6 DEF IInv, CleanInv, WaitsForClose
<1> QED BY <1>1, <1>6, <1>7, <1>8, <1>9 DEF IInv

LEMMA ParseCases == ASSUME IInv, Parse PROVE read \in {0, -1} \/ read = -2 \/ read > 0
BY DEF Parse, IInv, TypeOK

-----------------------------------------------------------------------------
(* The theorems *)

LEMMA NextInv == ASSUME IInv, [Next]_vars PROVE IInv'
<1>1. CASE PeerSends \/ PeerCloses \/ PeerResets
  BY <1>1, PeerStep
<1>2. CASE Recv
  BY <1>2, RecvStep
<1>3. CASE RecvNothing
  BY <1>3, RecvNothingStep
<1>4. CASE RecvReset
  BY <1>4, RecvResetStep
<1>5. CASE RecvInterrupted
  BY <1>5, RecvInterruptedStep
<1>6. CASE Loop
  BY <1>6, LoopStep
<1>7. CASE Parse
  BY <1>7, ParseCases, ParseEnd, ParseHuge, ParseMore
<1>8. CASE UNCHANGED vars
  <2>1. TypeOK' /\ ResetInv' /\ SpinInv' /\ FailInv' /\ EmptyInv'
    BY <1>8 DEF vars, IInv, TypeOK, ResetInv, SpinInv, FailInv, EmptyInv
  <2>2. CleanInv' /\ TextInv' /\ TextInPlace' /\ WaitsForClose'
    BY <1>8 DEF vars, IInv, CleanInv, TextInv, IsPrefix, TextInPlace, WaitsForClose
  <2> QED BY <2>1, <2>2 DEF IInv
<1> QED BY <1>1, <1>2, <1>3, <1>4, <1>5, <1>6, <1>7, <1>8 DEF Next, Reader

LEMMA Invariant == Spec => []IInv
BY InitInv, NextInv, PTL DEF Spec

\* The types hold: in particular bytes_read stays between -2 and the size of the
\* buffer, and the copy within the buffer and the byte before it (server.c:22).
THEOREM ReadTyped == Spec => []TypeOK
<1>1. IInv => TypeOK
  BY DEF IInv
<1> QED BY Invariant, <1>1, PTL

\* Every byte that the parser takes from the buffer is the one that belongs
\* there, or one that nobody wrote and no message has (server.c:22, client.c:20).
THEOREM BytesInPlace == Spec => []TextInPlace
<1>1. IInv => TextInPlace
  BY DEF IInv
<1> QED BY Invariant, <1>1, PTL

\* A caller whose buffer is larger than the answer gets it only when the server
\* has closed, unless a signal cuts the wait short (client.c:20).
THEOREM CallerWaits == Spec => []WaitsForClose
<1>1. IInv => WaitsForClose
  BY DEF IInv
<1> QED BY Invariant, <1>1, PTL

-----------------------------------------------------------------------------
(* The refinement *)

Result == IF pc = "message" THEN "message"
          ELSE IF pc = "error" \/ errno = "ECONNRESET" THEN "failed"
          ELSE IF errno = "EINTR" THEN "spin" ELSE "reading"

LEMMA InitMaps == Init => Whole!Init
BY SocketReadAssumption DEF Init, Whole!Init

LEMMA Stutter ==
    ASSUME UNCHANGED <<wire, peer>>, Result' = Result
    PROVE  [Whole!Next]_Whole!vars
BY DEF Whole!vars, Result

LEMMA PeerMaps ==
    ASSUME IInv, PeerSends \/ PeerCloses \/ PeerResets PROVE [Whole!Next]_Whole!vars
<1>1. wire \in 0 .. Bytes /\ Bytes \in Nat \ {0}
  BY SocketReadAssumption DEF IInv, TypeOK
<1>2. UNCHANGED <<pc, errno>>
  BY DEF PeerSends, PeerCloses, PeerResets, reader
<1>3. CASE PeerSends
  <2>1. wire < Bytes /\ wire' \in wire + 1 .. Bytes /\ peer = "open" /\ peer' = peer
    BY <1>1, <1>3 DEF PeerSends
  <2>2. CASE wire' = Bytes
    <3>1. (wire' = Bytes) = TRUE
      BY <2>2
    <3> QED BY <1>2, <2>1, <3>1 DEF Whole!Next, Whole!PeerSends
  <2>3. CASE wire' # Bytes
    <3>1. (wire' = Bytes) = (wire = Bytes)
      BY <1>1, <2>1, <2>3
    <3> QED BY <1>2, <2>1, <3>1 DEF Whole!vars
  <2> QED BY <2>2, <2>3
<1>4. CASE PeerCloses
  BY <1>2, <1>4 DEF PeerCloses, Whole!Next, Whole!PeerEnds
<1>5. CASE PeerResets
  <2>1. wire # Bytes
    BY <1>1, <1>5 DEF PeerResets
  <2> QED BY <1>2, <1>5, <2>1 DEF PeerResets, Whole!Next, Whole!PeerEnds
<1> QED BY <1>3, <1>4, <1>5

LEMMA RecvMaps ==
    ASSUME IInv, Recv \/ RecvNothing \/ Loop PROVE [Whole!Next]_Whole!vars
<1>1. /\ pc \in {"recv", "test"} /\ pc' \in {"recv", "test", "parse"}
      /\ UNCHANGED <<wire, peer, errno>>
  BY DEF Recv, RecvNothing, Loop, Copy, env
<1>2. Result' = Result
  BY <1>1 DEF Result
<1> QED BY <1>1, <1>2, Stutter

LEMMA ResetMaps == ASSUME IInv, RecvReset PROVE [Whole!Next]_Whole!vars
<1>1. /\ pc = "recv" /\ pc' = "test" /\ peer = "reset"
      /\ errno \in {"none", "EINTR"} /\ errno' = "ECONNRESET"
      /\ UNCHANGED <<wire, peer>>
  BY DEF RecvReset, env, IInv, TypeOK, FailInv
<1>2. wire # Bytes
  BY <1>1, SocketReadAssumption DEF IInv, ResetInv
<1>3. CASE errno = "none"
  BY <1>1, <1>2, <1>3 DEF Whole!Next, Whole!Fail
<1>4. CASE errno = "EINTR"
  BY <1>1, <1>4 DEF Whole!Next, Whole!SpinEnds
<1> QED BY <1>1, <1>3, <1>4

LEMMA InterruptedMaps == ASSUME IInv, RecvInterrupted PROVE [Whole!Next]_Whole!vars
<1>1. /\ pc = "recv" /\ pc' = "test" /\ peer = "open" /\ UNCHANGED <<wire, peer>>
  BY DEF RecvInterrupted, Copy
<1>2. errno = "none" /\ read = 0 /\ taken = Len(text) /\ Len(text) < Bytes
      /\ wire \in Nat /\ taken \in Nat
  <2>1. errno = "none"
    BY <1>1 DEF RecvInterrupted, IInv, TypeOK, SpinInv, FailInv
  <2> QED BY <1>1, <2>1, SocketReadAssumption DEF IInv, TypeOK, CleanInv, TextInv
<1>3. CASE errno' = errno
  BY <1>1, <1>3, Stutter DEF Result
<1>4. CASE available = 0 /\ errno' = "EINTR"
  <2>1. wire # Bytes
    BY <1>2, <1>4 DEF available
  <2> QED BY <1>1, <1>2, <1>4, <2>1 DEF Whole!Next, Whole!Interrupt
<1> QED BY <1>3, <1>4 DEF RecvInterrupted

LEMMA ParseMaps == ASSUME IInv, Parse PROVE [Whole!Next]_Whole!vars
<1>1. pc = "parse" /\ UNCHANGED <<wire, peer, errno>>
  BY DEF Parse, env
<1>2. errno \in {"none", "ECONNRESET"}
  BY <1>1 DEF IInv, TypeOK, SpinInv
<1>3. CASE errno = "ECONNRESET"
  <2>1. pc' = "error"
    BY <1>1, <1>3, ParseEnd, ParseHuge DEF IInv, FailInv
  <2> QED BY <1>1, <1>3, <2>1, Stutter DEF Result
<1>4. CASE errno = "none" /\ read \in {0, -1}
  <2>1. /\ read = 0 /\ peer = "closed" /\ wire = taken /\ taken = Len(text) + read
        /\ Len(text) < Bytes /\ taken \in Nat
    BY <1>1, <1>4, SocketReadAssumption DEF IInv, TypeOK, CleanInv, TextInv
  <2>2. wire # Bytes
    BY <2>1
  <2>3. pc' = "error"
    BY <1>4, ParseEnd
  <2> QED BY <1>1, <1>4, <2>1, <2>2, <2>3 DEF Whole!Next, Whole!Fail
<1>5. CASE errno = "none" /\ read > 0
  <2>1. pc' = IF wire = Bytes /\ taken = Bytes THEN "message" ELSE "recv"
    BY <1>5, ParseMore
  <2>2. CASE wire = Bytes /\ taken = Bytes
    BY <1>1, <1>5, <2>1, <2>2 DEF Whole!Next, Whole!Succeed
  <2>3. CASE ~(wire = Bytes /\ taken = Bytes)
    BY <1>1, <1>5, <2>1, <2>3, Stutter DEF Result
  <2> QED BY <2>2, <2>3
<1>6. errno = "none" => read # -2
  BY <1>1 DEF IInv, CleanInv
<1> QED BY <1>2, <1>3, <1>4, <1>5, <1>6, ParseCases

LEMMA NextMaps == ASSUME IInv, [Next]_vars PROVE [Whole!Next]_Whole!vars
<1>1. CASE UNCHANGED vars
  BY <1>1, Stutter DEF vars, Result
<1> QED BY <1>1, PeerMaps, RecvMaps, ResetMaps, InterruptedMaps, ParseMaps DEF Next, Reader

\* The loop implements the reading of a message in one piece, for every size of
\* the message and of the buffer: what NewsPortal takes for granted when it reads
\* a request or a response in one step (server.c:17, client.c:15).
THEOREM ReadsWhole == Spec => ImplementsMessageRead
<1>1. Spec => []IInv
  BY Invariant
<1> QED BY <1>1, InitMaps, NextMaps, PTL DEF Spec, ImplementsMessageRead, Whole!Spec
=============================================================================
