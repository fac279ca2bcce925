------------------------------ MODULE SocketRead ------------------------------
(***************************************************************************)
(* The loop of _socket_read() (libs/server.c:17, libs/client.c:15) under   *)
(* the JSON parser that calls it, byte by byte:                            *)
(*                                                                         *)
(*     ssize_t bytes_read = 0;                                             *)
(*     do bytes_read += recv(fd, output + bytes_read, bytes - bytes_read); *)
(*     while (errno == EINTR);                                             *)
(*                                                                         *)
(* A recv() that succeeds leaves errno as it is and one that fails counts  *)
(* as -1.  The bytes of the message are numbered from 1; 0 is a byte that  *)
(* nobody wrote.  The parser takes the count 0 and the count -1 for the    *)
(* end of the text, and starts with a buffer of zeros.                     *)
(***************************************************************************)
EXTENDS Integers, Sequences

CONSTANTS
    Bytes,  \* the length of the message
    Sizes   \* the sizes of buffer to consider: the parser's is 1024

ASSUME SocketReadAssumption ==
    /\ Bytes \in Nat \ {0}
    /\ Sizes \subseteq Nat \ {0}

VARIABLES
    size,     \* the size of the parser's buffer
    waitall,  \* recv() is called with MSG_WAITALL (client.c) or not (server.c)
    wire,     \* how many bytes the other side has sent
    peer,     \* the other side: open, closed, reset
    armed,    \* SIGINT has not come yet (a second one would kill)
    pc,       \* recv, test (the loop's condition), parse, message, error
    taken,    \* how many bytes recv() has copied
    read,     \* bytes_read
    errno,
    output,   \* the buffer, with the byte before it
    text      \* what the parser was given so far

env == <<size, waitall, wire, peer, armed>>
reader == <<pc, taken, read, errno, output, text>>
vars == <<size, waitall, wire, peer, armed, pc, taken, read, errno, output, text>>

TypeOK ==
    /\ size \in Sizes /\ waitall \in BOOLEAN /\ armed \in BOOLEAN
    /\ wire \in 0 .. Bytes
    /\ peer \in {"open", "closed", "reset"}
    /\ pc \in {"recv", "test", "parse", "message", "error"}
    /\ taken \in 0 .. wire
    /\ read \in -2 .. size
    /\ errno \in {"none", "EINTR", "ECONNRESET"}
    /\ output \in [-1 .. size - 1 -> 0 .. Bytes]
    /\ text \in Seq(0 .. Bytes) /\ Len(text) <= Bytes

Init ==
    /\ size \in Sizes /\ waitall \in BOOLEAN /\ armed = TRUE
    /\ wire = 0 /\ peer = "open"
    /\ pc = "recv" /\ taken = 0 /\ read = 0 /\ errno = "none"
    /\ output = [a \in -1 .. size - 1 |-> 0]
    /\ text = <<>>

-----------------------------------------------------------------------------
(* The other side *)

PeerSends ==
    /\ peer = "open"
    /\ wire' \in wire + 1 .. Bytes
    /\ UNCHANGED <<size, waitall, peer, armed, reader>>

PeerCloses ==
    /\ peer = "open"
    /\ peer' = "closed"
    /\ UNCHANGED <<size, waitall, wire, armed, reader>>

\* It ends with a request unread: it has not sent any response then.
PeerResets ==
    /\ peer = "open" /\ wire = 0
    /\ peer' = "reset"
    /\ UNCHANGED <<size, waitall, wire, armed, reader>>

-----------------------------------------------------------------------------
(* recv(), which copies to output + bytes_read what fits *)

available == wire - taken
room == size - read

Lower(a, b) == IF a < b THEN a ELSE b

Copy(n) ==
    /\ output' = [a \in DOMAIN output |->
                     IF a \in read .. read + n - 1 THEN taken + a - read + 1
                     ELSE output[a]]
    /\ taken' = taken + n
    /\ read' = read + n
    /\ pc' = "test"

\* Wrong: it asks for the size of the buffer each time.
RecvFullSize ==
    /\ pc = "recv" /\ available > 0
    /\ waitall => available >= size \/ peer # "open"
    /\ Copy(Lower(available, size))
    /\ UNCHANGED <<env, errno, text>>

\* Wrong: without MSG_WAITALL.
RecvAtOnce ==
    /\ pc = "recv" /\ available > 0
    /\ Copy(Lower(available, room))
    /\ UNCHANGED <<env, errno, text>>

\* Wrong: errno is cleared before the call.
RecvClears ==
    /\ pc = "recv" /\ available > 0
    /\ waitall => available >= room \/ peer # "open"
    /\ Copy(Lower(available, room))
    /\ errno' = "none"
    /\ UNCHANGED <<env, text>>

\* With MSG_WAITALL it returns when the buffer is full or the peer has ended.
Recv ==
    /\ pc = "recv" /\ available > 0
    /\ waitall => available >= room \/ peer # "open"
    /\ Copy(Lower(available, room))
    /\ UNCHANGED <<env, errno, text>>

\* Nothing to read any more, or no room for it: 0.
RecvNothing ==
    /\ pc = "recv"
    /\ room = 0 \/ (available = 0 /\ peer = "closed")
    /\ pc' = "test"
    /\ UNCHANGED <<env, taken, read, errno, output, text>>

\* The other error there is: it replaces EINTR in errno.
RecvReset ==
    /\ pc = "recv" /\ available = 0 /\ peer = "reset" /\ room > 0
    /\ errno' = "ECONNRESET"
    /\ read' = read - 1
    /\ pc' = "test"
    /\ UNCHANGED <<env, taken, output, text>>

\* A signal while it is blocked: EINTR, or what MSG_WAITALL has copied so far.
RecvInterrupted ==
    /\ pc = "recv" /\ peer = "open" /\ armed /\ room > 0
    /\ armed' = FALSE
    /\ \/ /\ available = 0
          /\ read' = read - 1 /\ errno' = "EINTR" /\ pc' = "test"
          /\ UNCHANGED <<taken, output>>
       \/ /\ waitall /\ available \in 1 .. room - 1
          /\ Copy(available)
          /\ UNCHANGED errno
    /\ UNCHANGED <<size, waitall, wire, peer, text>>

-----------------------------------------------------------------------------
\* Wrong: an interrupted call returns.
LoopReturns ==
    /\ pc = "test"
    /\ pc' = "parse"
    /\ UNCHANGED <<env, taken, read, errno, output, text>>

\* while (errno == EINTR)
Loop ==
    /\ pc = "test"
    /\ pc' = IF errno = "EINTR" THEN "recv" ELSE "parse"
    /\ UNCHANGED <<env, taken, read, errno, output, text>>

IsPrefix(s) == \A k \in 1 .. Len(s) : s[k] = k

\* Wrong: the parser is only asked once.
ParseOnce ==
    LET given == text \o [k \in 1 .. read |-> output[k - 1]]
    IN /\ pc = "parse"
       /\ text' = IF read > 0 THEN given ELSE text
       /\ pc' = IF Len(text') = Bytes THEN "message" ELSE "error"
       /\ read' = 0
       /\ UNCHANGED <<env, taken, errno, output>>

\* The parser goes through the buffer and asks for more until the object is
\* complete.  A count of -2 is a huge length to it: it starts with the buffer
\* and refuses the first byte that is not the message's.
Parse ==
    LET given == IF read = -2 THEN text \o <<output[0]>>
                 ELSE text \o [k \in 1 .. read |-> output[k - 1]]
    IN /\ pc = "parse"
       /\ text' = IF read \in {0, -1} THEN text ELSE given
       /\ pc' = IF read \in {0, -1} \/ ~IsPrefix(text') THEN "error"
                ELSE IF Len(text') = Bytes THEN "message" ELSE "recv"
       /\ read' = 0
       /\ UNCHANGED <<env, taken, errno, output>>

Reader == Recv \/ RecvNothing \/ RecvReset \/ Loop \/ Parse

Next == PeerSends \/ PeerCloses \/ PeerResets \/ Reader \/ RecvInterrupted

Spec == Init /\ [][Next]_vars

\* The reader runs when it is not blocked.
FairSpec == Spec /\ WF_vars(Reader)

-----------------------------------------------------------------------------
\* No byte of the message reaches the parser out of its place, in spite of the
\* -1 that an interrupted recv() adds to the count: the next call writes to the
\* byte before the buffer, but the loop does not end then with that data
\* (server.c:22, client.c:20).
TextInPlace == \A k \in 1 .. Len(text) : text[k] \in {k, 0}

\* With MSG_WAITALL and a message shorter than the buffer, the message is only
\* taken when the other side has closed, unless a signal cut the wait short:
\* what NewsPortal says of a caller that waits for its answer (client.c:20).
WaitsForClose ==
    pc = "message" /\ waitall /\ Bytes < size => peer # "open" \/ ~armed

\* The loop implements the reading of a message in one piece: see MessageRead.
Whole == INSTANCE MessageRead WITH
    whole <- (wire = Bytes),
    result <- IF pc = "message" THEN "message"
              ELSE IF pc = "error" \/ errno = "ECONNRESET" THEN "failed"
              ELSE IF errno = "EINTR" THEN "spin" ELSE "reading"

ImplementsMessageRead == Whole!Spec

\* A message that was sent is read, whatever pieces it comes in, unless a signal
\* has come (request_deserialize(), response_deserialize()).
WholeIsRead ==
    (wire = Bytes /\ (waitall => peer = "closed")) ~> (pc = "message" \/ ~armed)
=============================================================================
