------------------------------- MODULE GetStr -------------------------------
(***************************************************************************)
(* nova_getstr of NativeFile.c, which nova_getline and nova_read call:     *)
(* read a stream up to and including a terminator into the caller's buffer,*)
(* from an offset on, and grow the buffer when there is no room for another*)
(* character and the NUL.  The caller keeps the buffer for its next call.  *)
(*                                                                         *)
(* The buffer is a function from indices, so that what is written past its *)
(* end would be lost; malloc and realloc may fail, and the stream may      *)
(* break.  A realloc that fails takes the old buffer out of reach.  Sizes  *)
(* stay far below the range of an int, the bound of this model.            *)
(***************************************************************************)
EXTENDS Integers, Sequences

CONSTANTS
  Chars,         \* characters that streams hold
  Terminators,   \* the terminators of nova_getline and nova_read
  Nul,           \* '\0'
  Junk,          \* memory nobody has written
  MinChunk,      \* MIN_CHUNK
  MaxStream      \* bound: characters in the stream

ASSUME GetStrAssumption ==
  /\ MinChunk \in Nat /\ MinChunk >= 2
  /\ MaxStream \in Nat

VARIABLES
  stream,       \* what getc has not returned yet
  broken,       \* ferror(stream)
  line,         \* *lineptr, empty when it is NULL
  space,        \* *n, 0 when *lineptr is NULL
  strOffset,    \* the argument offset of the running call
  terminator,   \* its argument terminator
  pos,          \* read_pos - *lineptr
  avail,        \* nchars_avail
  reading,      \* the call is in its loop
  result,       \* what the last call returned
  before,       \* history: the buffer when the call began
  text          \* history: what getc has returned to the running call

file == <<stream, broken>>
buffer == <<line, space>>
args == <<strOffset, terminator, before>>
getStrVars == <<file, buffer, args, pos, avail, reading, result, text>>

Byte == Chars \cup {Nul, Junk}

Memory(n) == [0..(n - 1) -> Byte]

TypeOK ==
  /\ stream \in Seq(Chars)
  /\ broken \in BOOLEAN
  /\ space \in Nat
  /\ line \in Memory(space)
  /\ strOffset \in Nat
  /\ terminator \in Terminators
  /\ pos \in Nat
  /\ avail \in Nat
  /\ reading \in BOOLEAN
  /\ result \in Nat \cup {-1}
  /\ text \in Seq(Chars)

Empty == [i \in {} |-> Junk]

GetStrInit ==
  /\ \E length \in 0..MaxStream : stream \in [1..length -> Chars]
  /\ broken = FALSE
  /\ line = Empty /\ space = 0
  /\ strOffset = 0 /\ terminator \in Terminators
  /\ pos = 0 /\ avail = 0
  /\ reading = FALSE
  /\ result = -1
  /\ before = Empty /\ text = << >>

-----------------------------------------------------------------------------
(* Mutant: a new buffer is allocated and nothing copied to it.             *)
Resized_Fresh(n) ==
  [i \in 0..(n - 1) |-> IF n = space THEN line[i] ELSE Junk]

(* Memory of n bytes with the contents of the buffer.                      *)
Resized(n) == [i \in 0..(n - 1) |-> IF i < space THEN line[i] ELSE Junk]

(* The call: a buffer if there is none, and the place to read to.          *)
Begin(t, o) ==
  /\ ~reading
  /\ o <= space
  /\ space' = IF space = 0 THEN MinChunk ELSE space
  /\ line' = Resized(space')
  /\ strOffset' = o /\ pos' = o /\ avail' = space' - o
  /\ terminator' = t
  /\ before' = line' /\ text' = << >>
  /\ reading' = TRUE
  /\ UNCHANGED <<file, result>>

MallocFails ==
  /\ ~reading /\ space = 0
  /\ result' = -1
  /\ UNCHANGED <<file, buffer, args, pos, avail, reading, text>>

(* The buffer's size after if (nchars_avail < 2): room for one character   *)
(* and the NUL.                                                            *)
Grown ==
  IF avail >= 2 THEN space
  ELSE IF space > MinChunk THEN 2 * space ELSE space + MinChunk

Return(r) ==
  /\ reading' = FALSE
  /\ result' = r

(* Mutant: nchars_avail is not computed again when the buffer grows.       *)
GetChar_StaleAvail ==
  LET c     == Head(stream)
      grown == [Resized(Grown) EXCEPT ![pos] = c]
  IN  /\ reading /\ ~broken /\ stream # << >>
      /\ stream' = Tail(stream)
      /\ text' = Append(text, c)
      /\ space' = Grown
      /\ pos' = pos + 1
      /\ avail' = IF avail > 0 THEN avail - 1 ELSE 0
      /\ IF c = terminator
         THEN line' = [grown EXCEPT ![pos + 1] = Nul] /\ Return(pos + 1 - strOffset)
         ELSE line' = grown /\ UNCHANGED <<reading, result>>
      /\ UNCHANGED <<broken, args>>

(* One pass of the loop in which getc returns a character.                 *)
GetChar ==
  LET c     == Head(stream)
      grown == [Resized(Grown) EXCEPT ![pos] = c]
  IN  /\ reading /\ ~broken /\ stream # << >>
      /\ stream' = Tail(stream)
      /\ text' = Append(text, c)
      /\ space' = Grown
      /\ pos' = pos + 1
      /\ avail' = (IF avail >= 2 THEN avail ELSE Grown - pos) - 1
      /\ IF c = terminator
         THEN line' = [grown EXCEPT ![pos + 1] = Nul] /\ Return(pos + 1 - strOffset)
         ELSE line' = grown /\ UNCHANGED <<reading, result>>
      /\ UNCHANGED <<broken, args>>

(* Mutant: end of file before the terminator gives up the text.            *)
GetEof_NoNul ==
  /\ reading /\ ~broken /\ stream = << >>
  /\ space' = Grown
  /\ avail' = IF avail >= 2 THEN avail ELSE Grown - pos
  /\ line' = Resized(Grown)
  /\ Return(IF pos = 0 THEN -1 ELSE pos - strOffset)
  /\ UNCHANGED <<file, args, pos, text>>

(* End of file: the partial line, if there is any.                         *)
GetEof ==
  /\ reading /\ ~broken /\ stream = << >>
  /\ space' = Grown
  /\ avail' = IF avail >= 2 THEN avail ELSE Grown - pos
  /\ IF pos = 0
     THEN line' = Resized(Grown) /\ Return(-1)
     ELSE line' = [Resized(Grown) EXCEPT ![pos] = Nul] /\ Return(pos - strOffset)
  /\ UNCHANGED <<file, args, pos, text>>

(* ferror(stream) after getc, in this pass or since an earlier call.       *)
GetError ==
  /\ reading
  /\ broken' = TRUE
  /\ space' = Grown
  /\ avail' = IF avail >= 2 THEN avail ELSE Grown - pos
  /\ line' = Resized(Grown)
  /\ Return(-1)
  /\ UNCHANGED <<stream, args, pos, text>>

(* The buffer cannot grow: it is lost, and so is the character just read.  *)
ReallocFails ==
  /\ reading /\ avail < 2
  /\ stream' = IF stream = << >> \/ broken THEN stream ELSE Tail(stream)
  /\ line' = Empty /\ space' = 0
  /\ Return(-1)
  /\ UNCHANGED <<broken, args, pos, avail, text>>

Iteration == GetChar \/ GetEof \/ GetError \/ ReallocFails

(* A caller starts its buffer over or goes on where the last call ended.   *)
GetStrNext ==
  \/ \E t \in Terminators, o \in {0, pos} : Begin(t, o)
  \/ MallocFails
  \/ Iteration

GetStrSpec == GetStrInit /\ [][GetStrNext]_getStrVars

-----------------------------------------------------------------------------
(* The assertions of NativeFile.c:85 and 103: nchars_avail is what is left *)
(* of the buffer, and once a character is stored there is room for the NUL.*)
RoomForNul ==
  reading => pos + avail = space /\ (pos > strOffset => avail >= 1)

(* What was read is in the buffer, behind what was there before the        *)
(* offset, however often the buffer has moved and grown.                   *)
TextInPlace ==
  (reading \/ result >= 0) =>
    /\ \A i \in 1..Len(text) : strOffset + i - 1 < space /\ line[strOffset + i - 1] = text[i]
    /\ \A i \in 0..(strOffset - 1) : line[i] = before[i]

(* A call that returns a length returns that of a line: up to and with the *)
(* first terminator or the end of the stream, followed by a NUL inside the *)
(* buffer.                                                                 *)
LineComplete ==
  ~reading /\ result >= 0 =>
    /\ result = Len(text)
    /\ strOffset + result < space /\ line[strOffset + result] = Nul
    /\ \A i \in 1..(Len(text) - 1) : text[i] # terminator
    /\ stream = << >> \/ (text # << >> /\ text[Len(text)] = terminator)

=============================================================================
