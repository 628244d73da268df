--------------------------- MODULE SocketChannel ---------------------------
(***************************************************************************)
(* Messages over a socket: nova_socket_send writes the length in decimal,  *)
(* a space and the text in one write; nova_socket_receive reads bufSize    *)
(* bytes at a time, takes the length and the offset of the text from the   *)
(* first read, and goes on while the buffer came back full and the text is *)
(* not complete.                                                           *)
(*                                                                         *)
(* A socket is a byte stream: a read may return any part of what is on the *)
(* way, less than a frame or more than one.  The function does not keep    *)
(* what it read too much and does not ask for what is missing after a      *)
(* short read, so it depends on the reads being intact: each returns a     *)
(* full buffer of the current frame or the rest of it.  intact records     *)
(* whether that was so.  One direction of one connection; bytes are named  *)
(* by their message and place in it.                                       *)
(***************************************************************************)
EXTENDS Integers, Sequences, FiniteSets

CONSTANTS
  bufSize,       \* bytes per read
  Lengths,       \* lengths of the messages
  MaxMessages    \* bound: messages sent

VARIABLES
  sent,       \* lengths of the messages sent
  open,       \* the sender has not closed the socket
  wire,       \* bytes sent and not read
  receiver,   \* "idle", "reading", "closed" after an empty answer, "undefined"
  got,        \* bytes in the buffer of the running nova_socket_receive
  offset,     \* where the text starts in the buffer
  total,      \* the length in the header
  results,    \* the texts nova_socket_receive has returned
  intact      \* history: no write and no read has split or joined frames

vars == <<sent, open, wire, receiver, got, offset, total, results, intact>>

-----------------------------------------------------------------------------
(* numDigits(), for a number that is an int: it has at most ten.           *)
numDigits(number) == 1 + Cardinality({k \in 1..9 : number >= 10^k})

(* A length is an int; a full buffer has room for it and the space.        *)
ASSUME SocketChannelAssumption ==
  /\ bufSize \in Nat /\ MaxMessages \in Nat
  /\ Lengths \subseteq Nat
  /\ \A len \in Lengths : numDigits(len) < bufSize

Header(m) == numDigits(sent[m]) + 1

Text(m) == [i \in 1..sent[m] |-> <<m, Header(m) + i>>]

FrameLength(m) == Header(m) + sent[m]

(* What the byte is: the d-th digit of the length, the space, or text.     *)
IsSpace(byte) == byte[2] = Header(byte[1])
IsDigit(byte) == byte[2] < Header(byte[1])

(* atoi(message): the digits from the first byte on; text is no number.    *)
Atoi(bytes) ==
  LET m == bytes[1][1]
  IN  IF ~IsDigit(bytes[1]) THEN 0
      ELSE IF bytes[1][2] = 1 THEN sent[m]
      ELSE sent[m] % 10^(Header(m) - bytes[1][2])

Init ==
  /\ sent = << >> /\ open = TRUE /\ wire = << >>
  /\ receiver = "idle" /\ got = << >> /\ offset = 0 /\ total = 0
  /\ results = << >> /\ intact = TRUE

-----------------------------------------------------------------------------
(* nova_socket_send: write may take a part of the frame only, which is not *)
(* an error for the function.                                              *)
Send(len) ==
  /\ open /\ Len(sent) < MaxMessages
  /\ sent' = Append(sent, len)
  /\ LET m == Len(sent) + 1
         frame == numDigits(len) + 1 + len
     IN  \E n \in 1..frame :
           /\ wire' = wire \o [i \in 1..n |-> <<m, i>>]
           /\ intact' = (intact /\ n = frame)
  /\ UNCHANGED <<open, receiver, got, offset, total, results>>

(* nova_socket_close on the sender's side.                                 *)
Close ==
  /\ open
  /\ open' = FALSE
  /\ UNCHANGED <<sent, wire, receiver, got, offset, total, results, intact>>

Receive ==
  /\ receiver = "idle"
  /\ receiver' = "reading"
  /\ got' = << >> /\ offset' = 0 /\ total' = 0
  /\ UNCHANGED <<sent, open, wire, results, intact>>

(* length <= 0: return 0, with whatever was read before.                   *)
ReadNothing ==
  /\ receiver = "reading" /\ wire = << >> /\ ~open
  /\ receiver' = "closed"
  /\ got' = << >> /\ offset' = 0 /\ total' = 0
  /\ UNCHANGED <<sent, open, wire, results, intact>>

(* What is left of the frame that the stream is at.                        *)
FrameRest == FrameLength(wire[1][1]) - wire[1][2] + 1

Spaces(bytes) == {i \in 1..Len(bytes) : IsSpace(bytes[i])}

(* Mutant: the offset is that of the space.                                *)
FirstSpace_Before(bytes) ==
  (CHOOSE i \in Spaces(bytes) : \A j \in Spaces(bytes) : i <= j) - 1

(* for (offset = 1; message[offset - 1] != ' '; offset++);                 *)
FirstSpace(bytes) == CHOOSE i \in Spaces(bytes) : \A j \in Spaces(bytes) : i <= j

(* The buffer goes back to the caller.                                     *)
Answer(bytes, start) ==
  /\ receiver' = "idle"
  /\ results' = Append(results, SubSeq(bytes, start + 1, Len(bytes)))
  /\ got' = << >> /\ offset' = 0 /\ total' = 0

(* Mutant: a full buffer is always followed by another read.               *)
MoreToRead_WhileFull(n, bytes, start, number) == n >= bufSize

(* Mutant: the terminating NUL is counted as text.                         *)
MoreToRead_OffByOne(n, bytes, start, number) ==
  n >= bufSize /\ Len(bytes) + 1 - start # number

(* while (length >= bufSize && messageLength - offset - 1 != total)        *)
MoreToRead(n, bytes, start, number) == n >= bufSize /\ Len(bytes) - start # number

Continue(n, bytes, start, number) ==
  IF MoreToRead(n, bytes, start, number)
  THEN /\ got' = bytes /\ offset' = start /\ total' = number
       /\ UNCHANGED <<receiver, results>>
  ELSE Answer(bytes, start)

(* One read.  The first one gives total and offset; without a space in it  *)
(* the search for one runs out of the bytes read: undefined.               *)
Read ==
  /\ receiver = "reading" /\ wire # << >>
  /\ \E n \in 1..bufSize :
       /\ n <= Len(wire)
       /\ LET bytes == got \o SubSeq(wire, 1, n)
              first == got = << >>
          IN  IF first /\ Spaces(bytes) = {}
              THEN receiver' = "undefined" /\ UNCHANGED <<got, offset, total, results>>
              ELSE Continue(n, bytes, IF first THEN FirstSpace(bytes) ELSE offset,
                                      IF first THEN Atoi(bytes) ELSE total)
       /\ wire' = SubSeq(wire, n + 1, Len(wire))
       /\ intact' = (intact /\ (n = FrameRest \/ (n = bufSize /\ n < FrameRest)))
  /\ UNCHANGED <<sent, open>>

(* The receiver stops when the connection is closed or broken.             *)
Stopped == receiver \in {"closed", "undefined"} /\ UNCHANGED vars

-----------------------------------------------------------------------------
(* As long as the reads are intact, every message comes out as it went in, *)
(* once and in order, whatever its length is compared with bufSize, and the*)
(* search for the space stays within what was read.                        *)
MessagesIntact ==
  intact =>
    /\ receiver # "undefined"
    /\ \A m \in 1..Len(results) : m <= Len(sent) /\ results[m] = Text(m)

(* A message that ends with a full buffer is returned: the function does   *)
(* not wait for a byte that belongs to the next message or never comes.    *)
NeverWaitsForMore ==
  intact /\ receiver = "reading" /\ got # << >> => Len(got) < FrameLength(got[1][1])

=============================================================================
