------------------------- MODULE InputOutputProofs -------------------------
(***************************************************************************)
(* Proofs about what the runtime reads and writes: the text that           *)
(* nova_getstr reads into its growing buffer, the output of a command that *)
(* getPipe waits for, and the messages and the descriptors of sockets.     *)
(* For every size of a buffer and of a pipe, every stream, output and      *)
(* message, and every way in which the system cuts or refuses them.        *)
(***************************************************************************)
EXTENDS GetStr, GetPipe, Sockets, SequenceTheorems, FiniteSetTheorems,
        WellFoundedInduction, TLAPS

-----------------------------------------------------------------------------
(***************************************************************************)
(* nova_getstr, for every MIN_CHUNK of at least two.                       *)
(***************************************************************************)
(* A buffer is large enough for a character and the NUL.                   *)
SizeOK == space = 0 \/ space >= 2

(* While the loop runs, the place to write to is behind the text, and the  *)
(* text goes on: it has no terminator yet.                                 *)
LoopOK ==
  reading =>
    /\ space >= 2 /\ strOffset <= space
    /\ pos = strOffset + Len(text)
    /\ \A i \in 1..Len(text) : text[i] # terminator

(* The inductive invariant.                                                *)
GetStrInv == TypeOK /\ SizeOK /\ LoopOK /\ RoomForNul /\ TextInPlace /\ LineComplete

-----------------------------------------------------------------------------
LEMMA EmptyMemory == Empty \in Memory(0)
<1>1. 0..(0 - 1) = {}
  OBVIOUS
<1> QED BY <1>1 DEF Empty, Memory

(* Growing makes room and keeps what is in the buffer.                     *)
LEMMA GrownRoom ==
  ASSUME GetStrInv, reading
  PROVE  /\ Grown \in Nat /\ Grown >= 2 /\ Grown >= space
         /\ Grown - pos >= 2
         /\ avail >= 2 => Grown - pos = avail
<1>1. /\ space \in Nat /\ pos \in Nat /\ avail \in Nat /\ space >= 2
      /\ pos + avail = space
  BY DEF GetStrInv, TypeOK, LoopOK, RoomForNul
<1>2. MinChunk \in Nat /\ MinChunk >= 2
  BY GetStrAssumption
<1> QED BY <1>1, <1>2 DEF Grown

LEMMA ResizedMemory ==
  ASSUME TypeOK, NEW n \in Nat
  PROVE  /\ Resized(n) \in Memory(n)
         /\ \A i \in 0..(space - 1) : i < n => Resized(n)[i] = line[i]
BY DEF TypeOK, Resized, Memory, Byte

(* What the next pass of the loop finds in the buffer.                     *)
LEMMA ResizedText ==
  ASSUME GetStrInv, reading
  PROVE  /\ Resized(Grown) \in Memory(Grown)
         /\ \A i \in 1..Len(text) : Resized(Grown)[strOffset + i - 1] = text[i]
         /\ \A i \in 0..(strOffset - 1) : Resized(Grown)[i] = before[i]
<1>1. Grown \in Nat /\ Grown >= space
  BY GrownRoom
<1>2. /\ Resized(Grown) \in Memory(Grown)
      /\ \A i \in 0..(space - 1) : Resized(Grown)[i] = line[i]
  BY <1>1, ResizedMemory DEF GetStrInv, TypeOK
<1>3. /\ space \in Nat /\ strOffset \in Nat /\ strOffset <= space /\ Len(text) \in Nat
  BY DEF GetStrInv, TypeOK, LoopOK
<1>4. \A i \in 1..Len(text) : strOffset + i - 1 \in 0..(space - 1)
  BY <1>3 DEF GetStrInv, TextInPlace
<1>5. \A i \in 0..(strOffset - 1) : i \in 0..(space - 1)
  BY <1>3
<1> QED BY <1>2, <1>4, <1>5 DEF GetStrInv, TextInPlace

-----------------------------------------------------------------------------
LEMMA GetStrInitInv == GetStrInit => GetStrInv
<1> SUFFICES ASSUME GetStrInit PROVE GetStrInv
  OBVIOUS
<1>1. stream \in Seq(Chars)
  BY DEF GetStrInit
<1>2. text \in Seq(Chars) /\ line \in Memory(space)
  BY EmptyMemory DEF GetStrInit
<1>3. TypeOK
  BY <1>1, <1>2 DEF GetStrInit, TypeOK
<1> QED BY <1>3 DEF GetStrInit, GetStrInv, SizeOK, LoopOK, RoomForNul, TextInPlace, LineComplete

LEMMA BeginInv ==
  ASSUME GetStrInv, NEW t \in Terminators, NEW o \in {0, pos}, Begin(t, o)
  PROVE  GetStrInv'
<1>1. MinChunk \in Nat /\ MinChunk >= 2
  BY GetStrAssumption
<1>2. /\ space \in Nat /\ o \in Nat /\ o <= space
      /\ space' = IF space = 0 THEN MinChunk ELSE space
  BY DEF GetStrInv, TypeOK, Begin
<1>3. space' \in Nat /\ space' >= 2 /\ o <= space'
  BY <1>1, <1>2 DEF GetStrInv, SizeOK
<1>4. line' \in Memory(space')
  BY <1>3, ResizedMemory DEF GetStrInv, Begin
<1>5. /\ text' = << >> /\ Len(text') = 0 /\ reading' = TRUE
      /\ strOffset' = o /\ pos' = o /\ avail' = space' - o
      /\ before' = line' /\ terminator' = t
      /\ UNCHANGED <<stream, broken, result>>
  BY DEF Begin, file
<1>6. TypeOK'
  BY <1>2, <1>3, <1>4, <1>5 DEF GetStrInv, TypeOK
<1>7. SizeOK' /\ LoopOK' /\ RoomForNul' /\ TextInPlace' /\ LineComplete'
  BY <1>2, <1>3, <1>5 DEF SizeOK, LoopOK, RoomForNul, TextInPlace, LineComplete
<1> QED BY <1>6, <1>7 DEF GetStrInv

(* The loop's passes that end the call without a line.                     *)
LEMMA FailInv ==
  ASSUME GetStrInv,
         /\ reading' = FALSE /\ result' = -1
         /\ space' \in Nat /\ (space' = 0 \/ space' >= 2) /\ line' \in Memory(space')
         /\ avail' \in Nat
         /\ stream' \in Seq(Chars) /\ broken' \in BOOLEAN
         /\ UNCHANGED <<args, pos, text>>
  PROVE  GetStrInv'
<1>1. TypeOK'
  BY DEF GetStrInv, TypeOK, args
<1>2. SizeOK' /\ LoopOK' /\ RoomForNul' /\ TextInPlace' /\ LineComplete'
  BY DEF SizeOK, LoopOK, RoomForNul, TextInPlace, LineComplete
<1> QED BY <1>1, <1>2 DEF GetStrInv

LEMMA MallocFailsInv ==
  ASSUME GetStrInv, MallocFails
  PROVE  GetStrInv'
BY FailInv DEF MallocFails, GetStrInv, TypeOK, SizeOK, file, buffer

LEMMA GetErrorInv ==
  ASSUME GetStrInv, GetError
  PROVE  GetStrInv'
<1>1. reading
  BY DEF GetError
<1>2. Grown \in Nat /\ Grown >= 2 /\ Grown - pos >= 2 /\ Resized(Grown) \in Memory(Grown)
  BY <1>1, GrownRoom, ResizedText
<1>3. avail' \in Nat
  BY <1>2 DEF GetError, GetStrInv, TypeOK
<1> QED BY <1>2, <1>3, FailInv DEF GetError, Return, GetStrInv, TypeOK

LEMMA ReallocFailsInv ==
  ASSUME GetStrInv, ReallocFails
  PROVE  GetStrInv'
<1>1. stream' \in Seq(Chars)
  <2>1. CASE stream = << >> \/ broken
    BY <2>1 DEF ReallocFails, GetStrInv, TypeOK
  <2>2. CASE ~(stream = << >> \/ broken)
    BY <2>2, HeadTailProperties DEF ReallocFails, GetStrInv, TypeOK
  <2> QED BY <2>1, <2>2
<1> QED BY <1>1, EmptyMemory, FailInv DEF ReallocFails, Return, GetStrInv, TypeOK

LEMMA GetEofInv ==
  ASSUME GetStrInv, GetEof
  PROVE  GetStrInv'
<1>1. reading /\ stream = << >>
  BY DEF GetEof
<1>2. /\ Grown \in Nat /\ Grown >= 2 /\ Grown >= space /\ Grown - pos >= 2
  BY <1>1, GrownRoom
<1>3. /\ Resized(Grown) \in Memory(Grown)
      /\ \A i \in 1..Len(text) : Resized(Grown)[strOffset + i - 1] = text[i]
      /\ \A i \in 0..(strOffset - 1) : Resized(Grown)[i] = before[i]
  BY <1>1, ResizedText
<1>4. /\ pos \in Nat /\ strOffset \in Nat /\ Len(text) \in Nat
      /\ pos = strOffset + Len(text) /\ text \in Seq(Chars)
      /\ \A i \in 1..Len(text) : text[i] # terminator
  BY <1>1 DEF GetStrInv, TypeOK, LoopOK
<1>5. avail' \in Nat
  BY <1>2 DEF GetEof, GetStrInv, TypeOK
<1>6. CASE pos = 0
  BY <1>2, <1>3, <1>5, <1>6, FailInv DEF GetEof, Return, GetStrInv, TypeOK, file
<1>7. CASE pos # 0
  <2>1. /\ space' = Grown
        /\ line' = [Resized(Grown) EXCEPT ![pos] = Nul]
        /\ reading' = FALSE /\ result' = pos - strOffset
        /\ UNCHANGED <<stream, broken, strOffset, terminator, before, pos, text>>
    BY <1>7 DEF GetEof, Return, file, args
  <2>2. pos \in 0..(Grown - 1)
    BY <1>2, <1>4
  <2>3. line' \in Memory(Grown)
    BY <1>3, <2>1 DEF Memory, Byte
  <2>4. /\ line'[pos] = Nul
        /\ \A i \in 0..(Grown - 1) : i # pos => line'[i] = Resized(Grown)[i]
    BY <1>3, <2>1, <2>2 DEF Memory
  <2>5. TypeOK'
    <3>1. result' \in Nat
      BY <1>4, <2>1
    <3>2. line' \in Memory(space') /\ space' \in Nat
      BY <1>2, <2>1, <2>3
    <3> QED BY <1>5, <2>1, <3>1, <3>2 DEF GetStrInv, TypeOK
  <2>6. TextInPlace'
    <3>1. \A i \in 1..Len(text) :
            strOffset + i - 1 < Grown /\ line'[strOffset + i - 1] = text[i]
      <4> SUFFICES ASSUME NEW i \in 1..Len(text)
                   PROVE  strOffset + i - 1 < Grown /\ line'[strOffset + i - 1] = text[i]
        OBVIOUS
      <4>1. strOffset + i - 1 \in 0..(Grown - 1) /\ strOffset + i - 1 # pos
        BY <1>2, <1>4
      <4> QED BY <1>2, <1>3, <2>4, <4>1
    <3>2. \A i \in 0..(strOffset - 1) : line'[i] = before[i]
      <4> SUFFICES ASSUME NEW i \in 0..(strOffset - 1)
                   PROVE  line'[i] = before[i]
        OBVIOUS
      <4>1. i \in 0..(Grown - 1) /\ i # pos
        BY <1>2, <1>4
      <4> QED BY <1>3, <2>4, <4>1
    <3> QED BY <2>1, <3>1, <3>2 DEF TextInPlace
  <2>7. LineComplete'
    BY <1>1, <1>2, <1>4, <2>1, <2>4 DEF LineComplete
  <2>8. SizeOK' /\ LoopOK' /\ RoomForNul'
    BY <1>2, <2>1 DEF SizeOK, LoopOK, RoomForNul
  <2> QED BY <2>5, <2>6, <2>7, <2>8 DEF GetStrInv
<1> QED BY <1>6, <1>7

LEMMA GetCharInv ==
  ASSUME GetStrInv, GetChar
  PROVE  GetStrInv'
<1> DEFINE c == Head(stream)
           b == [Resized(Grown) EXCEPT ![pos] = c]
           k == Len(text)
<1>1. reading /\ stream # << >>
  BY DEF GetChar
<1>2. /\ Grown \in Nat /\ Grown >= 2 /\ Grown >= space /\ Grown - pos >= 2
      /\ avail >= 2 => Grown - pos = avail
  BY <1>1, GrownRoom
<1>3. /\ Resized(Grown) \in Memory(Grown)
      /\ \A i \in 1..k : Resized(Grown)[strOffset + i - 1] = text[i]
      /\ \A i \in 0..(strOffset - 1) : Resized(Grown)[i] = before[i]
  BY <1>1, ResizedText
<1>4. /\ pos \in Nat /\ strOffset \in Nat /\ k \in Nat
      /\ pos = strOffset + k /\ text \in Seq(Chars) /\ strOffset <= space
      /\ \A i \in 1..k : text[i] # terminator
  BY <1>1 DEF GetStrInv, TypeOK, LoopOK
<1>5. c \in Chars /\ Tail(stream) \in Seq(Chars)
  BY <1>1, HeadTailProperties DEF GetStrInv, TypeOK
<1>6. /\ stream' = Tail(stream) /\ text' = Append(text, c) /\ space' = Grown
      /\ pos' = pos + 1
      /\ avail' = (IF avail >= 2 THEN avail ELSE Grown - pos) - 1
      /\ UNCHANGED <<broken, strOffset, terminator, before>>
  BY DEF GetChar, args
<1>7. /\ c = terminator => /\ line' = [b EXCEPT ![pos + 1] = Nul]
                           /\ reading' = FALSE /\ result' = pos + 1 - strOffset
      /\ c # terminator => line' = b /\ UNCHANGED <<reading, result>>
  BY DEF GetChar, Return
<1> HIDE DEF c
<1>8. /\ text' \in Seq(Chars) /\ Len(text') = k + 1
      /\ \A i \in 1..k : text'[i] = text[i]
      /\ text'[k + 1] = c
  BY <1>4, <1>5, <1>6, AppendProperties
<1>9. pos \in 0..(Grown - 1) /\ pos + 1 \in 0..(Grown - 1)
  BY <1>2, <1>4
<1>10. /\ b \in Memory(Grown) /\ b[pos] = c
       /\ \A i \in 0..(Grown - 1) : i # pos => b[i] = Resized(Grown)[i]
  BY <1>3, <1>5, <1>9 DEF Memory, Byte
<1> HIDE DEF b
<1>11. /\ line' \in Memory(Grown)
       /\ \A i \in 0..(Grown - 1) : i # pos + 1 => line'[i] = b[i]
       /\ c = terminator => line'[pos + 1] = Nul
  <2>1. CASE c = terminator
    BY <1>7, <1>9, <1>10, <2>1 DEF Memory, Byte
  <2>2. CASE c # terminator
    BY <1>7, <1>10, <2>2
  <2> QED BY <2>1, <2>2
<1>12. avail' = Grown - pos - 1 /\ avail' >= 1 /\ avail' \in Nat
  BY <1>2, <1>4, <1>6 DEF GetStrInv, TypeOK
<1>13. TypeOK'
  <2>1. reading' \in BOOLEAN /\ result' \in Nat \cup {-1}
    <3>1. CASE c = terminator
      <4>1. pos + 1 - strOffset \in Nat
        BY <1>4
      <4> QED BY <1>7, <3>1, <4>1
    <3>2. CASE c # terminator
      BY <1>7, <3>2 DEF GetStrInv, TypeOK
    <3> QED BY <3>1, <3>2
  <2>2. line' \in Memory(space') /\ space' \in Nat /\ pos' \in Nat
    BY <1>2, <1>4, <1>6, <1>11
  <2> QED
    BY <1>5, <1>6, <1>8, <1>12, <2>1, <2>2 DEF GetStrInv, TypeOK
<1>14. TextInPlace'
  <2>1. \A i \in 1..(k + 1) : strOffset + i - 1 < Grown /\ line'[strOffset + i - 1] = text'[i]
    <3> SUFFICES ASSUME NEW i \in 1..(k + 1)
                 PROVE  strOffset + i - 1 < Grown /\ line'[strOffset + i - 1] = text'[i]
      OBVIOUS
    <3>1. strOffset + i - 1 \in 0..(Grown - 1) /\ strOffset + i - 1 # pos + 1
      BY <1>2, <1>4, <1>9
    <3>2. CASE i = k + 1
      <4>1. strOffset + i - 1 = pos
        BY <1>4, <3>2
      <4> QED BY <1>2, <1>8, <1>10, <1>11, <3>1, <3>2, <4>1
    <3>3. CASE i # k + 1
      <4>1. i \in 1..k /\ strOffset + i - 1 # pos
        BY <1>4, <3>3
      <4> QED BY <1>2, <1>3, <1>8, <1>10, <1>11, <3>1, <4>1
    <3> QED BY <3>2, <3>3
  <2>2. \A i \in 0..(strOffset - 1) : line'[i] = before[i]
    <3> SUFFICES ASSUME NEW i \in 0..(strOffset - 1)
                 PROVE  line'[i] = before[i]
      OBVIOUS
    <3>1. i \in 0..(Grown - 1) /\ i # pos /\ i # pos + 1
      BY <1>2, <1>4, <1>9
    <3> QED BY <1>3, <1>10, <1>11, <3>1
  <2> QED BY <1>6, <1>8, <2>1, <2>2 DEF TextInPlace
<1>15. CASE c = terminator
  <2>1. reading' = FALSE /\ result' = k + 1
    BY <1>4, <1>7, <1>15
  <2>2. SizeOK' /\ LoopOK' /\ RoomForNul'
    BY <1>2, <1>6, <2>1 DEF SizeOK, LoopOK, RoomForNul
  <2>3. \A i \in 1..(Len(text') - 1) : text'[i] # terminator
    <3> SUFFICES ASSUME NEW i \in 1..(Len(text') - 1)
                 PROVE  text'[i] # terminator
      OBVIOUS
    <3>1. i \in 1..k
      BY <1>4, <1>8
    <3> QED BY <1>4, <1>8, <3>1
  <2>4. strOffset + (k + 1) < Grown /\ line'[strOffset + (k + 1)] = Nul
    <3>1. strOffset + (k + 1) = pos + 1
      BY <1>4
    <3> QED BY <1>2, <1>9, <1>11, <1>15, <3>1
  <2>5. text' # << >> /\ text'[Len(text')] = terminator
    BY <1>4, <1>8, <1>15
  <2>6. LineComplete'
    BY <1>6, <1>8, <2>1, <2>3, <2>4, <2>5 DEF LineComplete
  <2> QED BY <1>13, <1>14, <2>2, <2>6 DEF GetStrInv
<1>16. CASE c # terminator
  <2>1. reading' /\ UNCHANGED result
    BY <1>1, <1>7, <1>16
  <2>2. LineComplete'
    BY <2>1 DEF LineComplete
  <2>3. \A i \in 1..Len(text') : text'[i] # terminator
    <3> SUFFICES ASSUME NEW i \in 1..Len(text')
                 PROVE  text'[i] # terminator
      OBVIOUS
    <3>1. i \in 1..k \/ i = k + 1
      BY <1>4, <1>8
    <3> QED BY <1>4, <1>8, <1>16, <3>1
  <2>4. SizeOK' /\ LoopOK'
    BY <1>2, <1>4, <1>6, <1>8, <2>1, <2>3 DEF SizeOK, LoopOK, GetStrInv, TypeOK
  <2>5. RoomForNul'
    BY <1>2, <1>4, <1>6, <1>12 DEF RoomForNul
  <2> QED BY <1>13, <1>14, <2>2, <2>4, <2>5 DEF GetStrInv
<1> QED BY <1>15, <1>16

LEMMA GetStrStepInv == GetStrInv /\ [GetStrNext]_getStrVars => GetStrInv'
<1> SUFFICES ASSUME GetStrInv, [GetStrNext]_getStrVars PROVE GetStrInv'
  OBVIOUS
<1>1. CASE UNCHANGED getStrVars
  BY <1>1 DEF GetStrInv, TypeOK, SizeOK, LoopOK, RoomForNul, TextInPlace, LineComplete,
              getStrVars, file, buffer, args
<1>2. CASE GetStrNext
  BY <1>2, BeginInv, MallocFailsInv, GetCharInv, GetEofInv, GetErrorInv, ReallocFailsInv
     DEF GetStrNext, Iteration
<1> QED BY <1>1, <1>2

-----------------------------------------------------------------------------
(* The invariant holds of every sequence of calls.                         *)
THEOREM GetStrInvariance == GetStrSpec => []GetStrInv
BY GetStrInitInv, GetStrStepInv, PTL DEF GetStrSpec

(* The buffer holds exactly *n characters and the cursor never leaves it.  *)
THEOREM BufferTyped == GetStrSpec => []TypeOK
BY GetStrInvariance, PTL DEF GetStrInv

(* The assertions in nova_getstr never fail, and there is always room for  *)
(* the NUL.                                                                *)
THEOREM AssertionsHold == GetStrSpec => []RoomForNul
BY GetStrInvariance, PTL DEF GetStrInv

(* Growing the buffer loses nothing.                                       *)
THEOREM GrowthKeepsText == GetStrSpec => []TextInPlace
BY GetStrInvariance, PTL DEF GetStrInv

(* A length that is returned is that of a whole line with its NUL.         *)
THEOREM LinesComplete == GetStrSpec => []LineComplete
BY GetStrInvariance, PTL DEF GetStrInv

-----------------------------------------------------------------------------
(***************************************************************************)
(* getPipe.  While no wait was interrupted, no byte is read before the     *)
(* child has ended, so what it has written when it ends is in the pipe.    *)
(***************************************************************************)
PipeTypeOK ==
  /\ output \in Nat /\ left \in Nat /\ pipe \in 0..Capacity /\ received \in Nat
  /\ parent \in {"pipe", "fork", "wait", "close", "read", "returned"}
  /\ child \in {"none", "forked", "running", "ended", "reaped"}
  /\ other \in {"none", "running", "ended", "reaped"}
  /\ readEnd \in {"pipe", "none", "other"}

Before == {"pipe", "fork", "wait"}

PipeInv ==
  /\ PipeTypeOK
  /\ "pipe" \in failed => pipe = 0 /\ received = 0
  /\ "pipe" \notin failed => left + pipe + received = output
  /\ parent = "pipe" => failed = {} /\ readEnd # "pipe"
  /\ parent # "pipe" => (readEnd = "pipe" <=> "pipe" \notin failed)
  /\ parent \in {"pipe", "fork"} => child = "none" /\ left = output
  /\ parent \in Before => received = 0
  /\ child = "none" =>
       parent \in {"pipe", "fork"} \/ "create" \in errors
  /\ parent \notin Before /\ child # "reaped" => errors # {}
  /\ parent \notin Before /\ "wait" \notin failed => child \in {"none", "reaped"}
  /\ child \in {"none", "forked"} => left = output
  /\ child \in {"ended", "reaped"} => left \in {0, output}
  /\ parent \notin Before /\ left < output /\ failed \cap {"pipe", "wait"} = {} =>
       output <= Capacity
  /\ other = "reaped" => "create" \in errors
  /\ parent = "returned" =>
       /\ "pipe" \notin failed => pipe = 0 /\ child \notin {"forked", "running"}
       /\ "pipe" \in failed => readEnd = "other"

LEMMA PipeInvariance == PipeSpec => []PipeInv
<1>1. PipeInit => PipeInv
  BY GetPipeAssumption DEF PipeInit, PipeInv, PipeTypeOK, Before, GetPipeAssumption
<1>2. PipeInv /\ [PipeNext]_pipeVars => PipeInv'
  <2> SUFFICES ASSUME PipeInv, [PipeNext]_pipeVars PROVE PipeInv'
    OBVIOUS
  <2> USE DEF PipeTypeOK, Before
  <2>1. CASE Pipe
    BY <2>1 DEF Pipe, Fails, PipeInv
  <2>2. CASE Fork
    BY <2>2 DEF Fork, Fails, PipeInv
  <2>3. CASE Wait
    <3>1. /\ parent = "wait" /\ parent' = "close" /\ received = 0
          /\ UNCHANGED <<output, left, pipe, readEnd, received>>
      BY <2>3 DEF Wait, PipeInv
    <3>2. /\ pipe <= Capacity /\ Capacity \in Nat /\ output \in Nat /\ pipe \in Nat
          /\ left \in Nat /\ "pipe" \notin failed => left + pipe = output
      BY <3>1, GetPipeAssumption DEF PipeInv, GetPipeAssumption
    <3>3. CASE child = "ended" /\ child' = "reaped" /\ UNCHANGED <<errors, failed, other>>
      BY <3>1, <3>2, <3>3 DEF PipeInv
    <3>4. CASE /\ child \notin {"none", "ended"} /\ Fails("wait") /\ UNCHANGED <<child, other>>
               /\ errors' = errors \cup {"wait"}
      BY <3>1, <3>2, <3>4 DEF Fails, PipeInv
    <3>5. CASE /\ child = "none" /\ UNCHANGED <<child, failed>>
               /\ errors \subseteq errors' /\ other' \in {other, "reaped"}
      <4>1. "create" \in errors
        BY <3>1, <3>5 DEF PipeInv
      <4> QED
        BY <3>1, <3>2, <3>5, <4>1 DEF PipeInv
    <3>6. CASE child = "none" /\ Fails("wait") /\ UNCHANGED <<child, other, errors>>
      <4>1. "create" \in errors
        BY <3>1, <3>6 DEF PipeInv
      <4> QED
        BY <3>1, <3>2, <3>6, <4>1 DEF Fails, PipeInv
    <3> QED
      BY <2>3, <3>3, <3>4, <3>5, <3>6 DEF Wait, WaitChild, WaitAny
  <2>4. CASE CloseWriteEnd
    BY <2>4 DEF CloseWriteEnd, PipeInv
  <2>5. CASE ReadPipe
    <3>1. CASE ReadSome /\ readEnd = "pipe"
      <4>1. PICK n \in 1..BufSize : n <= pipe /\ pipe' = pipe - n /\ received' = received + n
        BY <3>1 DEF ReadSome
      <4> QED
        BY <2>5, <3>1, <4>1, GetPipeAssumption
           DEF ReadSome, ReadPipe, PipeInv, GetPipeAssumption
    <3>2. CASE EndOfFile /\ parent' = "returned" /\ readEnd = "pipe"
               /\ UNCHANGED <<pipe, received, failed>>
      BY <2>5, <3>2 DEF ReadPipe, EndOfFile, PipeInv
    <3>3. CASE Fails("read") /\ UNCHANGED <<parent, pipe, received>>
      BY <2>5, <3>3 DEF ReadPipe, Fails, PipeInv
    <3>4. CASE readEnd # "pipe" /\ UNCHANGED <<pipe, received, failed>>
      BY <2>5, <3>4 DEF ReadPipe, PipeInv
    <3> QED
      BY <2>5, <3>1, <3>2, <3>3, <3>4 DEF ReadPipe
  <2>6. CASE Exec
    BY <2>6 DEF Exec, PipeInv
  <2>7. CASE Write
    BY <2>7, GetPipeAssumption DEF Write, PipeInv, GetPipeAssumption
  <2>8. CASE Exit
    BY <2>8 DEF Exit, PipeInv
  <2>9. CASE OtherEnds
    BY <2>9 DEF OtherEnds, PipeInv
  <2>10. CASE UNCHANGED pipeVars
    BY <2>10 DEF pipeVars, PipeInv
  <2> QED
    BY <2>1, <2>2, <2>3, <2>4, <2>5, <2>6, <2>7, <2>8, <2>9, <2>10 DEF PipeNext, Parent, Child
<1> QED
  BY <1>1, <1>2, PTL DEF PipeSpec

(* getPipe comes back from a command that has written something only if    *)
(* all that the command writes fits into the pipe, or the wait was         *)
(* interrupted, or there is no pipe.                                       *)
THEOREM OnlyWhatFits == PipeSpec => []OverflowNeverReturns
<1>1. PipeInv => OverflowNeverReturns
  BY DEF PipeInv, Before, OverflowNeverReturns
<1> QED
  BY <1>1, PipeInvariance, PTL

(* When getPipe comes back, whatever was interrupted, it has read all that *)
(* the command wrote to the pipe; it has reaped the command, or reported   *)
(* an error; and it has reaped no other child without having reported that *)
(* there is no command.                                                    *)
THEOREM ReadToTheEnd == PipeSpec => []AllReceived
<1>1. PipeInv => AllReceived
  BY DEF PipeInv, PipeTypeOK, Before, AllReceived
<1> QED
  BY <1>1, PipeInvariance, PTL

-----------------------------------------------------------------------------
(***************************************************************************)
(* The messages.  While reads and writes are intact, the stream is made of *)
(* whole frames: after a byte of a frame comes the rest of the frame, and  *)
(* then the next frame, up to the last message sent.                       *)
(***************************************************************************)
Octet == Nat \X Nat

(* At k in w is byte i of frame m, whose last byte is at e.                *)
FrameAt(w, k, m, i, e) ==
  /\ 1 <= i /\ k <= e /\ e <= Len(w) /\ e + i = k + FrameLength(m)
  /\ \A j \in k..e : w[j] = <<m, i + (j - k)>>
  /\ e = Len(w) => m = Len(sent)
  /\ e < Len(w) => w[e + 1] = <<m + 1, 1>>

Frames(w) ==
  \A k \in 1..Len(w) :
    \E m \in 1..Len(sent) : \E i, e \in Nat : FrameAt(w, k, m, i, e)

(* What is read is the start of a frame, without the end but with the whole*)
(* header, and the stream goes on where it stopped.                        *)
Reading(m, bytes) ==
  /\ m \in 1..Len(sent)
  /\ Header(m) <= Len(bytes) /\ Len(bytes) < FrameLength(m)
  /\ \A i \in 1..Len(bytes) : bytes[i] = <<m, i>>

Intact ==
  /\ wire \in Seq(Octet) /\ got \in Seq(Octet) /\ results \in Seq(Seq(Octet))
  /\ receiver \in {"idle", "reading", "closed"}
  /\ receiver # "reading" => got = << >>
  /\ Len(results) <= Len(sent)
  /\ \A m \in 1..Len(results) : results[m] = Text(m)
  /\ Frames(wire)
  /\ wire = << >> => Len(results) = Len(sent) /\ got = << >>
  /\ wire # << >> => wire[1] = <<Len(results) + 1, Len(got) + 1>>
  /\ got # << >> => /\ Reading(Len(results) + 1, got)
                    /\ offset = Header(Len(results) + 1)
                    /\ total = sent[Len(results) + 1]

ChannelInv ==
  /\ sent \in Seq(Lengths)
  /\ intact \in BOOLEAN
  /\ intact => Intact

-----------------------------------------------------------------------------
LEMMA LengthNat ==
  \A len \in Lengths : len \in Nat /\ numDigits(len) \in Nat \ {0} /\ numDigits(len) < bufSize
<1> SUFFICES ASSUME NEW len \in Lengths
             PROVE  len \in Nat /\ numDigits(len) \in Nat \ {0} /\ numDigits(len) < bufSize
  OBVIOUS
<1>1. len \in Nat /\ numDigits(len) < bufSize
  BY SocketChannelAssumption DEF SocketChannelAssumption
<1>2. PICK T : T = {k \in 1..9 : len >= 10^k}
  OBVIOUS
<1>3. IsFiniteSet(T)
  <2>1. PICK D : D = 1..9
    OBVIOUS
  <2>2. IsFiniteSet(D)
    <3>1. 1 \in Int /\ 9 \in Int
      OBVIOUS
    <3> QED
      BY <2>1, <3>1, FS_Interval
  <2>3. T \subseteq D
    BY <1>2, <2>1
  <2> QED
    BY <2>2, <2>3, FS_Subset
<1>4. Cardinality(T) \in Nat
  BY <1>3, FS_CardinalityType
<1>5. numDigits(len) = 1 + Cardinality(T)
  BY <1>2 DEF numDigits
<1> QED
  BY <1>1, <1>4, <1>5

LEMMA FrameNat ==
  ASSUME sent \in Seq(Lengths), NEW m \in 1..Len(sent)
  PROVE  /\ sent[m] \in Lengths
         /\ Header(m) \in Nat /\ 2 <= Header(m) /\ Header(m) <= bufSize
         /\ FrameLength(m) \in Nat /\ FrameLength(m) = Header(m) + sent[m]
<1>1. sent[m] \in Lengths
  OBVIOUS
<1>2. PICK d : d = numDigits(sent[m])
  OBVIOUS
<1>3. d \in Nat \ {0} /\ d < bufSize /\ sent[m] \in Nat /\ bufSize \in Nat
  BY <1>1, <1>2, LengthNat, SocketChannelAssumption DEF SocketChannelAssumption
<1>4. Header(m) = d + 1
  BY <1>2 DEF Header
<1>5. Header(m) \in Nat /\ 2 <= Header(m) /\ Header(m) <= bufSize
  BY <1>3, <1>4
<1>6. FrameLength(m) = Header(m) + sent[m]
  BY DEF FrameLength
<1>7. FrameLength(m) \in Nat
  BY <1>3, <1>5, <1>6
<1> QED
  BY <1>1, <1>5, <1>6, <1>7

(* The frames of the messages sent so far do not change.                   *)
LEMMA FrameKept ==
  ASSUME sent \in Seq(Lengths), NEW len, sent' = Append(sent, len)
  PROVE  /\ Len(sent') = Len(sent) + 1
         /\ \A m \in 1..Len(sent) : /\ Header(m)' = Header(m)
                                    /\ FrameLength(m)' = FrameLength(m)
                                    /\ Text(m)' = Text(m)
<1>1. Len(sent') = Len(sent) + 1 /\ \A m \in 1..Len(sent) : sent'[m] = sent[m]
  OBVIOUS
<1> QED
  BY <1>1 DEF Header, FrameLength, Text

(* A read takes the start of the stream away.                              *)
LEMMA FramesRead ==
  ASSUME sent \in Seq(Lengths), NEW w \in Seq(Octet), Frames(w), NEW n \in 1..Len(w)
  PROVE  Frames(SubSeq(w, n + 1, Len(w)))
<1>1. PICK r : r = SubSeq(w, n + 1, Len(w))
  OBVIOUS
<1>2. Len(r) = Len(w) - n /\ Len(w) \in Nat /\ Len(r) \in Nat /\ n \in Nat
  BY <1>1
<1>3. \A k \in 1..Len(r) : r[k] = w[k + n]
  BY <1>1
<1>4. SUFFICES ASSUME NEW k \in 1..Len(r)
      PROVE  \E m \in 1..Len(sent) : \E i, e \in Nat : FrameAt(r, k, m, i, e)
  BY <1>1 DEF Frames
<1>5. PICK m \in 1..Len(sent), i \in Nat, e \in Nat : FrameAt(w, k + n, m, i, e)
  <2>1. k + n \in 1..Len(w)
    BY <1>2
  <2> QED
    BY <2>1 DEF Frames
<1>6. PICK f \in Nat : f = FrameLength(m)
  BY FrameNat
<1>7. /\ 1 <= i /\ k + n <= e /\ e <= Len(w) /\ e + i = k + n + f
      /\ e = Len(w) => m = Len(sent)
  BY <1>5, <1>6 DEF FrameAt
<1>8. \A j \in (k + n)..e : w[j] = <<m, i + (j - (k + n))>>
  BY <1>5 DEF FrameAt
<1>9. e < Len(w) => w[e + 1] = <<m + 1, 1>>
  BY <1>5 DEF FrameAt
<1>10. PICK d \in Nat : d = e - n
  BY <1>2, <1>7
<1>11. /\ 1 <= i /\ k <= d /\ d <= Len(r) /\ d + i = k + f
       /\ d = Len(r) => m = Len(sent)
  BY <1>2, <1>7, <1>10
<1>12. \A j \in k..d : r[j] = <<m, i + (j - k)>>
  <2> SUFFICES ASSUME NEW j \in k..d PROVE r[j] = <<m, i + (j - k)>>
    OBVIOUS
  <2>1. j \in 1..Len(r) /\ j + n \in (k + n)..e /\ j + n - (k + n) = j - k
    BY <1>2, <1>7, <1>10, <1>11
  <2>2. r[j] = w[j + n]
    BY <1>3, <2>1
  <2>3. PICK q : q = j + n
    OBVIOUS
  <2>4. q \in (k + n)..e /\ q - (k + n) = j - k
    BY <2>1, <2>3
  <2>5. w[q] = <<m, i + (q - (k + n))>>
    BY <1>8, <2>4, Zenon
  <2> QED
    BY <2>2, <2>3, <2>4, <2>5, Zenon
<1>13. d < Len(r) => r[d + 1] = <<m + 1, 1>>
  <2> SUFFICES ASSUME d < Len(r) PROVE r[d + 1] = <<m + 1, 1>>
    OBVIOUS
  <2>1. d + 1 \in 1..Len(r) /\ d + 1 + n = e + 1 /\ e < Len(w)
    BY <1>2, <1>10
  <2>2. r[d + 1] = w[d + 1 + n]
    BY <1>3, <2>1
  <2> QED
    BY <1>9, <2>1, <2>2, Zenon
<1>14. FrameAt(r, k, m, i, d)
  BY <1>6, <1>11, <1>12, <1>13 DEF FrameAt
<1> QED
  BY <1>14

(* The bytes of a frame.                                                   *)
LEMMA FrameBytes ==
  ASSUME NEW m \in Nat, NEW n \in Nat, NEW add, add = [i \in 1..n |-> <<m, i>>]
  PROVE  add \in Seq(Octet) /\ Len(add) = n /\ \A k \in 1..n : add[k] = <<m, k>>
<1>1. \A i \in 1..n : <<m, i>> \in Octet
  BY DEF Octet
<1> QED
  BY <1>1

LEMMA Joined ==
  ASSUME NEW S, NEW w \in Seq(S), NEW add \in Seq(S), NEW r, r = w \o add
  PROVE  /\ r \in Seq(S) /\ Len(r) = Len(w) + Len(add)
         /\ \A k \in 1..Len(r) : r[k] = IF k <= Len(w) THEN w[k] ELSE add[k - Len(w)]
OBVIOUS

(* A whole frame is added at the end, after l bytes.                       *)
LEMMA FramesSent ==
  ASSUME NEW w, NEW l \in Nat, l = Len(w), Frames(w),
         NEW new \in Nat, Len(sent) + 1 = new, Len(sent') = new, Len(sent) \in Nat,
         \A m \in 1..Len(sent) : FrameLength(m) \in Nat /\ FrameLength(m)' = FrameLength(m),
         NEW n \in Nat, n >= 2, FrameLength(new)' = n,
         NEW r, Len(r) = l + n,
         \A k \in 1..l : r[k] = w[k],
         \A k \in (l + 1)..(l + n) : r[k] = <<new, k - l>>
  PROVE  Frames(r)'
<1>1. SUFFICES ASSUME NEW k \in 1..(l + n)
      PROVE  \E m \in 1..new : \E i, e \in Nat : FrameAt(r, k, m, i, e)'
  BY DEF Frames
<1>2. CASE k <= l
  <2>1. k \in 1..l
    BY <1>2
  <2>2. PICK m \in 1..Len(sent), i \in Nat, e \in Nat : FrameAt(w, k, m, i, e)
    BY <2>1 DEF Frames
  <2>3. PICK f \in Nat : f = FrameLength(m) /\ f = FrameLength(m)'
    OBVIOUS
  <2>4. /\ 1 <= i /\ k <= e /\ e <= l /\ e + i = k + f
        /\ e = l => m = Len(sent)
    BY <2>2, <2>3 DEF FrameAt
  <2>5. /\ \A j \in k..e : w[j] = <<m, i + (j - k)>>
        /\ e < l => w[e + 1] = <<m + 1, 1>>
    BY <2>2 DEF FrameAt
  <2>6. m \in 1..new /\ e < l + n
    BY <2>4
  <2>7. \A j \in k..e : r[j] = <<m, i + (j - k)>>
    <3> SUFFICES ASSUME NEW j \in k..e PROVE r[j] = <<m, i + (j - k)>>
      OBVIOUS
    <3>1. j \in 1..l
      BY <2>4
    <3> QED
      BY <2>5, <3>1, Zenon
  <2>8. r[e + 1] = <<m + 1, 1>>
    <3>1. CASE e = l
      <4>1. PICK q : q = e + 1
        OBVIOUS
      <4>2. q \in (l + 1)..(l + n) /\ q - l = 1 /\ m + 1 = new
        BY <2>4, <3>1, <4>1
      <4>3. r[q] = <<new, q - l>>
        BY <4>2, Zenon
      <4> QED
        BY <4>1, <4>2, <4>3, Zenon
    <3>2. CASE e < l
      <4>1. e + 1 \in 1..l
        BY <3>2
      <4> QED
        BY <2>5, <3>2, <4>1, Zenon
    <3> QED
      BY <2>4, <3>1, <3>2
  <2>9. FrameAt(r, k, m, i, e)'
    <3>1. e <= Len(r) /\ e # Len(r)
      BY <2>6
    <3> QED
      BY <2>3, <2>4, <2>7, <2>8, <3>1 DEF FrameAt
  <2> QED
    BY <2>6, <2>9
<1>3. CASE k > l
  <2>1. PICK i \in Nat : i = k - l
    <3>1. k - l \in Nat
      BY <1>3
    <3> QED
      BY <3>1, Zenon
  <2>2. PICK e \in Nat : e = l + n
    OBVIOUS
  <2>3. 1 <= i /\ k <= e /\ e + i = k + n
    BY <1>3, <2>1, <2>2
  <2>4. \A j \in k..e : r[j] = <<new, i + (j - k)>>
    <3> SUFFICES ASSUME NEW j \in k..e PROVE r[j] = <<new, i + (j - k)>>
      OBVIOUS
    <3>1. j \in (l + 1)..(l + n) /\ j - l = i + (j - k)
      BY <1>3, <2>1, <2>2
    <3>2. r[j] = <<new, j - l>>
      BY <3>1, Zenon
    <3> QED
      BY <3>1, <3>2, Zenon
  <2>5. FrameAt(r, k, new, i, e)'
    <3>1. Len(r) = e /\ e <= Len(r) /\ ~(e < Len(r))
      BY <2>2
    <3> QED
      BY <2>3, <2>4, <3>1 DEF FrameAt
  <2>6. new \in 1..new
    OBVIOUS
  <2> QED
    BY <2>5, <2>6
<1> QED
  BY <1>2, <1>3
-----------------------------------------------------------------------------
(* The stream starts with the rest of the frame it is at.                  *)
LEMMA StreamStart ==
  ASSUME sent \in Seq(Lengths), NEW w \in Seq(Octet), Frames(w), w # << >>,
         NEW c, NEW g \in Nat, w[1] = <<c, g + 1>>
  PROVE  /\ c \in 1..Len(sent)
         /\ \E e \in Nat : /\ 1 <= e /\ e <= Len(w) /\ e + g = FrameLength(c)
                           /\ \A j \in 1..e : w[j] = <<c, g + j>>
                           /\ e = Len(w) => c = Len(sent)
                           /\ e < Len(w) => w[e + 1] = <<c + 1, 1>>
<1>1. 1 \in 1..Len(w)
  <2>1. Len(w) \in Nat /\ Len(w) # 0
    OBVIOUS
  <2> QED
    BY <2>1
<1>2. PICK m \in 1..Len(sent), i \in Nat, e \in Nat : FrameAt(w, 1, m, i, e)
  BY <1>1 DEF Frames
<1>3. /\ 1 <= i /\ 1 <= e /\ e <= Len(w) /\ e + i = 1 + FrameLength(m)
      /\ e = Len(w) => m = Len(sent)
  BY <1>2 DEF FrameAt
<1>4. \A j \in 1..e : w[j] = <<m, i + (j - 1)>>
  BY <1>2 DEF FrameAt
<1>5. e < Len(w) => w[e + 1] = <<m + 1, 1>>
  BY <1>2 DEF FrameAt
<1>6. m = c /\ i = g + 1
  <2>1. 1 \in 1..e
    BY <1>3
  <2>2. w[1] = <<m, i + (1 - 1)>>
    BY <1>4, <2>1
  <2>3. m = c /\ i + (1 - 1) = g + 1
    BY <2>2
  <2> QED
    BY <2>3
<1>7. FrameLength(m) \in Nat
  BY FrameNat
<1>8. e + g = FrameLength(c)
  <2>1. PICK f \in Nat : f = FrameLength(m)
    BY <1>7
  <2>2. e + i = 1 + f
    BY <1>3, <2>1
  <2>3. e + g = f
    BY <1>6, <2>2
  <2> QED
    BY <1>6, <2>1, <2>3
<1>9. \A j \in 1..e : w[j] = <<c, g + j>>
  <2> SUFFICES ASSUME NEW j \in 1..e PROVE w[j] = <<c, g + j>>
    OBVIOUS
  <2>1. w[j] = <<m, i + (j - 1)>>
    BY <1>4
  <2>2. i + (j - 1) = g + j
    BY <1>6
  <2> QED
    BY <1>6, <2>1, <2>2
<1> QED
  BY <1>3, <1>5, <1>6, <1>8, <1>9

(* The buffer after a read within a frame.                                 *)
LEMMA Buffered ==
  ASSUME NEW c, NEW g \in Seq(Octet), NEW w \in Seq(Octet), NEW n \in 1..Len(w),
         \A i \in 1..Len(g) : g[i] = <<c, i>>,
         \A j \in 1..n : w[j] = <<c, Len(g) + j>>,
         NEW bytes, bytes = g \o SubSeq(w, 1, n)
  PROVE  /\ bytes \in Seq(Octet) /\ Len(bytes) = Len(g) + n
         /\ \A i \in 1..Len(bytes) : bytes[i] = <<c, i>>
<1>1. PICK add : add = SubSeq(w, 1, n)
  OBVIOUS
<1>2. add \in Seq(Octet) /\ Len(add) = n /\ \A j \in 1..n : add[j] = w[j]
  BY <1>1
<1>3. /\ bytes \in Seq(Octet) /\ Len(bytes) = Len(g) + Len(add)
      /\ \A k \in 1..Len(bytes) : bytes[k] = IF k <= Len(g) THEN g[k] ELSE add[k - Len(g)]
  BY <1>1, <1>2, Joined
<1>4. Len(g) \in Nat /\ n \in Nat /\ Len(add) = n
  BY <1>2
<1>5. ASSUME NEW i \in 1..Len(bytes) PROVE bytes[i] = <<c, i>>
  <2>1. CASE i <= Len(g)
    <3>1. i \in 1..Len(g)
      BY <1>4, <2>1
    <3> QED
      BY <1>3, <2>1, <3>1
  <2>2. CASE ~(i <= Len(g))
    <3>1. PICK j : j = i - Len(g)
      OBVIOUS
    <3>2. j \in 1..n /\ Len(g) + j = i
      BY <1>3, <1>4, <2>2, <3>1
    <3>3. bytes[i] = add[j]
      BY <1>3, <2>2, <3>1
    <3>4. add[j] = w[j]
      BY <1>2, <3>2
    <3>5. w[j] = <<c, Len(g) + j>>
      BY <3>2, Zenon
    <3> QED
      BY <3>2, <3>3, <3>4, <3>5, Zenon
  <2> QED
    BY <2>1, <2>2
<1> QED
  BY <1>2, <1>3, <1>5

(* The length and the offset of the text that are taken from the buffer.   *)
LEMMA HeaderFound ==
  ASSUME sent \in Seq(Lengths), NEW c \in 1..Len(sent), NEW bytes \in Seq(Octet),
         Header(c) <= Len(bytes), \A i \in 1..Len(bytes) : bytes[i] = <<c, i>>
  PROVE  /\ Spaces(bytes) = {Header(c)} /\ FirstSpace(bytes) = Header(c)
         /\ Atoi(bytes) = sent[c]
<1>1. PICK h : h = Header(c)
  OBVIOUS
<1>2. h \in Nat /\ 2 <= h /\ Len(bytes) \in Nat /\ h <= Len(bytes)
  BY <1>1, FrameNat
<1>3. \A i \in 1..Len(bytes) : IsSpace(bytes[i]) <=> i = h
  <2> SUFFICES ASSUME NEW i \in 1..Len(bytes) PROVE IsSpace(bytes[i]) <=> i = h
    OBVIOUS
  <2>1. bytes[i][1] = c /\ bytes[i][2] = i
    OBVIOUS
  <2> QED
    BY <1>1, <2>1 DEF IsSpace
<1>4. h \in 1..Len(bytes)
  BY <1>2
<1>5. Spaces(bytes) = {h}
  BY <1>3, <1>4 DEF Spaces
<1>6. FirstSpace(bytes) = h
  <2>1. \E i \in {h} : \A j \in {h} : i <= j
    BY <1>2
  <2>2. FirstSpace(bytes) \in {h}
    BY <1>5, <2>1 DEF FirstSpace
  <2> QED
    BY <2>2
<1>7. Atoi(bytes) = sent[c]
  <2>1. 1 \in 1..Len(bytes)
    BY <1>2
  <2>2. bytes[1] = <<c, 1>>
    BY <2>1
  <2>3. bytes[1][1] = c /\ bytes[1][2] = 1
    BY <2>2
  <2>4. IsDigit(bytes[1])
    BY <1>1, <1>2, <2>3 DEF IsDigit
  <2> QED
    BY <2>3, <2>4 DEF Atoi
<1> QED
  BY <1>1, <1>5, <1>6, <1>7

LEMMA FunctionIsSeq ==
  ASSUME NEW S, NEW n \in Nat, NEW f \in [1..n -> S]
  PROVE  f \in Seq(S) /\ Len(f) = n
OBVIOUS

LEMMA Cut ==
  ASSUME NEW s \in Seq(Octet), NEW k \in Nat, k <= Len(s), NEW t, t = SubSeq(s, k + 1, Len(s))
  PROVE  t \in Seq(Octet) /\ Len(t) = Len(s) - k /\ \A i \in 1..Len(t) : t[i] = s[k + i]
OBVIOUS

(* A complete frame gives its text.                                        *)
LEMMA TextRead ==
  ASSUME sent \in Seq(Lengths), NEW c \in 1..Len(sent), NEW bytes \in Seq(Octet),
         Len(bytes) = FrameLength(c), \A i \in 1..Len(bytes) : bytes[i] = <<c, i>>
  PROVE  SubSeq(bytes, Header(c) + 1, Len(bytes)) = Text(c) /\ Text(c) \in Seq(Octet)
<1>1. PICK h, len : h = Header(c) /\ len = sent[c]
  OBVIOUS
<1>2. h \in Nat /\ len \in Nat /\ Len(bytes) = h + len
  BY <1>1, FrameNat, LengthNat
<1>3. PICK t : t = [i \in 1..len |-> <<c, h + i>>]
  OBVIOUS
<1>4. t = Text(c)
  BY <1>1, <1>3 DEF Text
<1>5. t \in Seq(Octet) /\ Len(t) = len /\ \A i \in 1..len : t[i] = <<c, h + i>>
  <2>1. \A i \in 1..len : <<c, h + i>> \in Octet
    BY <1>2 DEF Octet
  <2>2. t \in [1..len -> Octet] /\ \A i \in 1..len : t[i] = <<c, h + i>>
    BY <1>3, <2>1, Zenon
  <2>3. len \in Nat
    BY <1>2
  <2>4. t \in Seq(Octet) /\ Len(t) = len
    BY <2>2, <2>3, FunctionIsSeq, Zenon
  <2> QED
    BY <2>2, <2>4
<1>6. PICK s : s = SubSeq(bytes, h + 1, Len(bytes))
  OBVIOUS
<1>7. s \in Seq(Octet) /\ Len(s) = len /\ \A i \in 1..len : s[i] = bytes[h + i]
  <2>1. s \in Seq(Octet) /\ Len(s) = Len(bytes) - h /\ \A i \in 1..Len(s) : s[i] = bytes[h + i]
    BY <1>2, <1>6, Cut
  <2>2. Len(s) = len
    BY <1>2, <2>1
  <2> QED
    BY <2>1, <2>2
<1>8. \A i \in 1..len : s[i] = t[i]
  <2> SUFFICES ASSUME NEW i \in 1..len PROVE s[i] = t[i]
    OBVIOUS
  <2>1. PICK k : k = h + i
    OBVIOUS
  <2>2. k \in 1..Len(bytes)
    BY <1>2, <2>1
  <2>3. bytes[k] = <<c, k>>
    BY <2>2, Zenon
  <2> QED
    BY <1>5, <1>7, <2>1, <2>3
<1>9. s = t
  BY <1>5, <1>7, <1>8, SeqEqual
<1> QED
  BY <1>1, <1>4, <1>5, <1>6, <1>9
-----------------------------------------------------------------------------
LEMMA SendKeeps ==
  ASSUME ChannelInv, NEW len \in Lengths, Send(len)
  PROVE  ChannelInv'
<1>1. PICK n : /\ n \in 1..(numDigits(len) + 1 + len)
               /\ wire' = wire \o [i \in 1..n |-> <<Len(sent) + 1, i>>]
               /\ intact' = (intact /\ n = numDigits(len) + 1 + len)
  BY DEF Send
<1>2. /\ sent' = Append(sent, len) /\ receiver' = receiver /\ got' = got /\ offset' = offset
      /\ total' = total /\ results' = results
  BY DEF Send
<1>3. len \in Lengths /\ sent \in Seq(Lengths) /\ intact \in BOOLEAN
  BY DEF ChannelInv
<1>4. sent' \in Seq(Lengths)
  BY <1>2, <1>3
<1>5. intact' \in BOOLEAN
  BY <1>1
<1>6. SUFFICES ASSUME intact' PROVE Intact'
  BY <1>4, <1>5 DEF ChannelInv
<1>7. intact /\ n = numDigits(len) + 1 + len
  BY <1>1, <1>6
<1>8. Intact
  BY <1>7 DEF ChannelInv
<1>9. PICK new, l, w, r : new = Len(sent) + 1 /\ l = Len(wire) /\ w = wire /\ r = wire'
  OBVIOUS
<1>10. /\ new \in Nat /\ Len(sent) \in Nat /\ Len(sent') = new /\ sent'[new] = len
  BY <1>2, <1>3, <1>9
<1>11. n \in Nat /\ n >= 2 /\ FrameLength(new)' = n
  <2>1. numDigits(len) \in Nat \ {0} /\ len \in Nat
    BY <1>3, LengthNat
  <2>2. Header(new)' = numDigits(len) + 1
    BY <1>10 DEF Header
  <2>3. FrameLength(new)' = Header(new)' + len
    BY <1>10 DEF FrameLength
  <2> QED
    BY <1>7, <2>1, <2>2, <2>3
<1>12. \A m \in 1..Len(sent) : /\ FrameLength(m) \in Nat /\ FrameLength(m)' = FrameLength(m)
                               /\ Header(m)' = Header(m) /\ Text(m)' = Text(m)
  BY <1>2, <1>3, FrameNat, FrameKept
<1>13. w \in Seq(Octet) /\ l \in Nat /\ l = Len(w) /\ Frames(w)
  BY <1>8, <1>9 DEF Intact
<1>14. PICK add : add = [i \in 1..n |-> <<new, i>>]
  OBVIOUS
<1>15. add \in Seq(Octet) /\ Len(add) = n /\ \A k \in 1..n : add[k] = <<new, k>>
  BY <1>10, <1>11, <1>14, FrameBytes
<1>16. r = w \o add
  BY <1>1, <1>9, <1>14
<1>17. /\ r \in Seq(Octet) /\ Len(r) = l + n
       /\ \A k \in 1..Len(r) : r[k] = IF k <= Len(w) THEN w[k] ELSE add[k - Len(w)]
  <2>1. w \in Seq(Octet) /\ add \in Seq(Octet)
    BY <1>13, <1>15
  <2>2. /\ r \in Seq(Octet) /\ Len(r) = Len(w) + Len(add)
        /\ \A k \in 1..Len(r) : r[k] = IF k <= Len(w) THEN w[k] ELSE add[k - Len(w)]
    BY <1>16, <2>1, Joined
  <2> QED
    BY <1>13, <1>15, <2>2, Zenon
<1>18. \A k \in 1..l : r[k] = w[k]
  <2> SUFFICES ASSUME NEW k \in 1..l PROVE r[k] = w[k]
    OBVIOUS
  <2>1. k \in 1..Len(r) /\ k <= Len(w)
    BY <1>11, <1>13, <1>17
  <2> QED
    BY <1>17, <2>1
<1>19. \A k \in (l + 1)..(l + n) : r[k] = <<new, k - l>>
  <2> SUFFICES ASSUME NEW k \in (l + 1)..(l + n) PROVE r[k] = <<new, k - l>>
    OBVIOUS
  <2>1. k \in 1..Len(r) /\ ~(k <= Len(w)) /\ k - l \in 1..n
    BY <1>11, <1>13, <1>17
  <2>2. r[k] = add[k - l]
    BY <1>13, <1>17, <2>1
  <2> QED
    BY <1>15, <2>1, <2>2
<1>20. Frames(r)'
  <2>1. Len(sent) + 1 = new /\ l = Len(w) /\ Len(r) = l + n
    BY <1>9, <1>13, <1>17, Zenon
  <2>2. \A m \in 1..Len(sent) : FrameLength(m) \in Nat /\ FrameLength(m)' = FrameLength(m)
    BY <1>12, Zenon
  <2> QED
    BY <1>10, <1>11, <1>13, <1>18, <1>19, <2>1, <2>2, FramesSent, Zenon
<1>21. Frames(wire)'
  BY <1>9, <1>20 DEF Frames, FrameAt
<1>22. r # << >>
  BY <1>11, <1>13, <1>17
<1>23. PICK q : q = Len(results)
  OBVIOUS
<1>24. q \in Nat /\ q <= Len(sent)
  BY <1>8, <1>23 DEF Intact
<1>25. r[1] = <<q + 1, Len(got) + 1>>
  <2>1. CASE w = << >>
    <3>1. q = Len(sent) /\ got = << >> /\ l = 0
      BY <1>8, <1>9, <1>23, <2>1 DEF Intact
    <3>2. 1 \in (l + 1)..(l + n) /\ 1 - l = 1 /\ q + 1 = new /\ Len(got) + 1 = 1
      BY <1>9, <1>11, <3>1
    <3> QED
      BY <1>19, <3>2
  <2>2. CASE w # << >>
    <3>1. w[1] = <<q + 1, Len(got) + 1>>
      BY <1>8, <1>9, <1>23, <2>2 DEF Intact
    <3>2. 1 \in 1..l
      BY <1>13, <2>2
    <3> QED
      BY <1>18, <3>1, <3>2
  <2> QED
    BY <2>1, <2>2
<1>26. q <= Len(sent') /\ \A m \in 1..q : results[m] = Text(m)'
  <2>1. q <= Len(sent')
    BY <1>9, <1>10, <1>24
  <2>2. \A m \in 1..q : m \in 1..Len(sent) /\ results[m] = Text(m)
    BY <1>8, <1>10, <1>23, <1>24 DEF Intact
  <2> QED
    BY <1>12, <2>1, <2>2
<1>27. got # << >> => /\ Reading(q + 1, got)' /\ offset = Header(q + 1)'
                      /\ total = sent'[q + 1]
  <2> SUFFICES ASSUME got # << >>
               PROVE  Reading(q + 1, got)' /\ offset = Header(q + 1)' /\ total = sent'[q + 1]
    OBVIOUS
  <2>1. Reading(q + 1, got) /\ offset = Header(q + 1) /\ total = sent[q + 1]
    BY <1>8, <1>23 DEF Intact
  <2>2. q + 1 \in 1..Len(sent)
    BY <2>1 DEF Reading
  <2>3. PICK c : c = q + 1
    OBVIOUS
  <2>4. /\ c \in 1..Len(sent) /\ c \in 1..Len(sent') /\ sent'[c] = sent[c]
        /\ Header(c)' = Header(c) /\ FrameLength(c)' = FrameLength(c)
    BY <1>2, <1>3, <1>9, <1>10, <1>12, <2>2, <2>3
  <2>5. Reading(c, got)'
    BY <1>2, <2>1, <2>3, <2>4 DEF Reading
  <2> QED
    BY <1>2, <2>1, <2>3, <2>4, <2>5 DEF Reading, Header
<1> QED
  <2>1. /\ got \in Seq(Octet) /\ results \in Seq(Seq(Octet))
        /\ receiver \in {"idle", "reading", "closed"} /\ (receiver # "reading" => got = << >>)
    BY <1>8 DEF Intact
  <2>2. wire' \in Seq(Octet) /\ wire' # << >> /\ wire'[1] = <<q + 1, Len(got) + 1>>
    BY <1>9, <1>17, <1>22, <1>25
  <2>3. got' # << >> => /\ Reading(Len(results) + 1, got)'
                        /\ offset' = Header(Len(results) + 1)'
                        /\ total' = sent'[Len(results') + 1]
    BY <1>2, <1>23, <1>27 DEF Reading, Header
  <2>4. /\ Len(results') <= Len(sent')
        /\ \A m \in 1..Len(results') : results'[m] = Text(m)'
    BY <1>2, <1>23, <1>26
  <2> QED
    BY <1>2, <1>21, <1>23, <2>1, <2>2, <2>3, <2>4 DEF Intact

(* An intact read takes bytes of the current frame only: the rest of it,   *)
(* which completes the text, or a full buffer.                             *)
LEMMA ReadKeeps ==
  ASSUME ChannelInv, Read
  PROVE  ChannelInv'
<1>1. PICK n \in 1..bufSize :
        /\ n <= Len(wire)
        /\ LET bytes == got \o SubSeq(wire, 1, n)
               first == got = << >>
           IN  IF first /\ Spaces(bytes) = {}
               THEN receiver' = "undefined" /\ UNCHANGED <<got, offset, total, results>>
               ELSE Continue(n, bytes, IF first THEN FirstSpace(bytes) ELSE offset,
                                       IF first THEN Atoi(bytes) ELSE total)
        /\ wire' = SubSeq(wire, n + 1, Len(wire))
        /\ intact' = (intact /\ (n = FrameRest \/ (n = bufSize /\ n < FrameRest)))
  BY DEF Read
<1>2. wire # << >> /\ receiver = "reading" /\ sent' = sent
  BY DEF Read
<1>3. sent \in Seq(Lengths) /\ intact \in BOOLEAN /\ intact' \in BOOLEAN
  BY <1>1 DEF ChannelInv
<1>4. SUFFICES ASSUME intact' PROVE Intact'
  BY <1>2, <1>3 DEF ChannelInv
<1>5. intact /\ (n = FrameRest \/ (n = bufSize /\ n < FrameRest))
  BY <1>1, <1>4
<1>6. Intact
  BY <1>5 DEF ChannelInv
<1>7. PICK w, taken, c, g : w = wire /\ taken = got /\ c = Len(results) + 1 /\ g = Len(got)
  OBVIOUS
<1>8. /\ w \in Seq(Octet) /\ taken \in Seq(Octet) /\ results \in Seq(Seq(Octet))
      /\ Frames(w) /\ w # << >> /\ w[1] = <<c, g + 1>> /\ g = Len(taken)
  BY <1>2, <1>6, <1>7 DEF Intact
<1>9. g \in Nat /\ Len(w) \in Nat
  BY <1>8
<1>10. c \in 1..Len(sent)
  BY <1>3, <1>8, <1>9, StreamStart
<1>11. PICK e \in Nat : /\ 1 <= e /\ e <= Len(w) /\ e + g = FrameLength(c)
                        /\ \A j \in 1..e : w[j] = <<c, g + j>>
                        /\ e = Len(w) => c = Len(sent)
                        /\ e < Len(w) => w[e + 1] = <<c + 1, 1>>
  BY <1>3, <1>8, <1>9, StreamStart
<1>12. PICK h, len, f : h = Header(c) /\ len = sent[c] /\ f = FrameLength(c)
  OBVIOUS
<1>13. h \in Nat /\ 2 <= h /\ h <= bufSize /\ len \in Nat /\ f \in Nat /\ f = h + len /\ e + g = f
  BY <1>3, <1>10, <1>11, <1>12, FrameNat, LengthNat
<1>14. FrameRest = e
  <2>1. wire[1][1] = c /\ wire[1][2] = g + 1
    BY <1>7, <1>8
  <2>2. FrameRest = f - (g + 1) + 1
    BY <1>12, <2>1 DEF FrameRest
  <2> QED
    BY <1>9, <1>13, <2>2
<1>15. bufSize \in Nat
  BY SocketChannelAssumption DEF SocketChannelAssumption
<1>16. n \in 1..e /\ (n = e \/ (n = bufSize /\ n < e)) /\ n \in 1..Len(w)
  BY <1>1, <1>5, <1>7, <1>9, <1>11, <1>14, <1>15
<1>17. PICK bytes : bytes = got \o SubSeq(wire, 1, n)
  OBVIOUS
<1>18. taken # << >> => /\ \A i \in 1..Len(taken) : taken[i] = <<c, i>>
                         /\ h <= g /\ offset = h /\ total = len
  BY <1>6, <1>7, <1>12 DEF Intact, Reading
<1>19. \A i \in 1..Len(taken) : taken[i] = <<c, i>>
  <2>1. CASE taken = << >>
    <3>1. 1..Len(taken) = {}
      BY <2>1
    <3> QED
      BY <3>1
  <2> QED
    BY <1>18, <2>1
<1>20. \A j \in 1..n : w[j] = <<c, Len(taken) + j>>
  <2> SUFFICES ASSUME NEW j \in 1..n PROVE w[j] = <<c, Len(taken) + j>>
    OBVIOUS
  <2>1. j \in 1..e
    BY <1>16
  <2> QED
    BY <1>8, <1>11, <2>1
<1>21. bytes = taken \o SubSeq(w, 1, n)
  BY <1>7, <1>17
<1>22. /\ bytes \in Seq(Octet) /\ Len(bytes) = g + n
       /\ \A i \in 1..Len(bytes) : bytes[i] = <<c, i>>
  <2>1. /\ bytes \in Seq(Octet) /\ Len(bytes) = Len(taken) + n
        /\ \A i \in 1..Len(bytes) : bytes[i] = <<c, i>>
    <3>1. w \in Seq(Octet) /\ taken \in Seq(Octet) /\ n \in 1..Len(w)
      BY <1>8, <1>16
    <3> QED
      BY <1>19, <1>20, <1>21, <3>1, Buffered
  <2> QED
    BY <1>8, <2>1
<1>23. h <= Len(bytes)
  <2>1. CASE taken = << >>
    <3>1. g = 0
      BY <1>8, <2>1
    <3>2. n = f \/ n = bufSize
      BY <1>13, <1>16, <3>1
    <3> QED
      BY <1>13, <1>15, <1>22, <3>1, <3>2
  <2>2. CASE taken # << >>
    BY <1>9, <1>13, <1>16, <1>18, <1>22, <2>2
  <2> QED
    BY <2>1, <2>2
<1>24. Spaces(bytes) = {h} /\ FirstSpace(bytes) = h /\ Atoi(bytes) = len
  BY <1>3, <1>10, <1>12, <1>22, <1>23, HeaderFound
<1>25. Continue(n, bytes, h, len)
  <2>1. Spaces(bytes) # {}
    BY <1>24
  <2>2. Continue(n, bytes, IF got = << >> THEN FirstSpace(bytes) ELSE offset,
                           IF got = << >> THEN Atoi(bytes) ELSE total)
    BY <1>1, <1>17, <2>1
  <2>3. CASE got = << >>
    BY <1>24, <2>2, <2>3
  <2>4. CASE got # << >>
    <3>1. offset = h /\ total = len
      BY <1>7, <1>18, <2>4
    <3> QED
      BY <2>2, <2>4, <3>1
  <2> QED
    BY <2>3, <2>4
<1>26. PICK r : r = wire'
  OBVIOUS
<1>27. r = SubSeq(w, n + 1, Len(w))
  BY <1>1, <1>7, <1>26
<1>28. r \in Seq(Octet) /\ Len(r) = Len(w) - n /\ \A i \in 1..Len(r) : r[i] = w[n + i]
  <2>1. n \in Nat /\ n <= Len(w)
    BY <1>9, <1>16
  <2>2. w \in Seq(Octet)
    BY <1>8
  <2> QED
    BY <1>27, <2>1, <2>2, Cut
<1>29. Frames(r)
  BY <1>3, <1>8, <1>16, <1>27, FramesRead
<1>30. Frames(wire)'
  BY <1>2, <1>26, <1>29 DEF Frames, FrameAt, FrameLength, Header
<1>31. r # << >> => r[1] = w[n + 1] /\ n < Len(w)
  <2> SUFFICES ASSUME r # << >> PROVE r[1] = w[n + 1] /\ n < Len(w)
    OBVIOUS
  <2>1. Len(r) \in Nat /\ Len(r) # 0
    BY <1>28
  <2> QED
    BY <1>9, <1>16, <1>28, <2>1
<1>32. PICK q : q = Len(results)
  OBVIOUS
<1>33. /\ q \in Nat /\ c = q + 1 /\ q <= Len(sent) /\ Len(sent) \in Nat
       /\ \A m \in 1..q : results[m] = Text(m)
  BY <1>3, <1>6, <1>7, <1>8, <1>32 DEF Intact
<1>34. \A m : Text(m)' = Text(m) /\ Header(m)' = Header(m) /\ FrameLength(m)' = FrameLength(m)
  BY <1>2 DEF Text, Header, FrameLength
<1>35. CASE n = e
  <2>1. Len(bytes) = f /\ Len(bytes) - h = len
    BY <1>9, <1>13, <1>22, <1>35
  <2>2. ~MoreToRead(n, bytes, h, len)
    BY <2>1 DEF MoreToRead
  <2>3. /\ receiver' = "idle" /\ got' = << >>
        /\ results' = Append(results, SubSeq(bytes, h + 1, Len(bytes)))
    BY <1>25, <2>2 DEF Continue, Answer
  <2>4. PICK t : t = Text(c)
    OBVIOUS
  <2>5. results' = Append(results, t) /\ t \in Seq(Octet)
    <3>1. SubSeq(bytes, Header(c) + 1, Len(bytes)) = Text(c) /\ Text(c) \in Seq(Octet)
      BY <1>3, <1>10, <1>12, <1>22, <2>1, TextRead
    <3> QED
      BY <1>12, <2>3, <2>4, <3>1
  <2>6. PICK s : s = results'
    OBVIOUS
  <2>7. /\ s \in Seq(Seq(Octet)) /\ Len(s) = c /\ s[c] = t
        /\ \A m \in 1..q : s[m] = results[m]
    BY <1>8, <1>32, <1>33, <2>5, <2>6
  <2>8. \A m \in 1..c : s[m] = Text(m)
    <3> SUFFICES ASSUME NEW m \in 1..c PROVE s[m] = Text(m)
      OBVIOUS
    <3>1. m = c \/ m \in 1..q
      BY <1>33
    <3> QED
      BY <1>33, <2>4, <2>7, <3>1
  <2>9. r = << >> => c = Len(sent)
    <3> SUFFICES ASSUME r = << >> PROVE c = Len(sent)
      OBVIOUS
    <3>1. Len(r) = 0
      OBVIOUS
    <3>2. e = Len(w)
      BY <1>9, <1>28, <1>35, <3>1
    <3> QED
      BY <1>11, <3>2
  <2>10. r # << >> => r[1] = <<c + 1, Len(<< >>) + 1>>
    <3> SUFFICES ASSUME r # << >> PROVE r[1] = <<c + 1, Len(<< >>) + 1>>
      OBVIOUS
    <3>1. r[1] = <<c + 1, 1>>
      BY <1>11, <1>31, <1>35
    <3>2. Len(<< >>) + 1 = 1
      OBVIOUS
    <3> QED
      BY <3>1, <3>2
  <2>11. c <= Len(sent) /\ << >> \in Seq(Octet)
    BY <1>10
  <2>12. results' \in Seq(Seq(Octet)) /\ Len(results') = c
    BY <2>6, <2>7
  <2>13. \A m \in 1..c : results'[m] = Text(m)'
    BY <1>34, <2>6, <2>8
  <2> QED
    BY <1>2, <1>26, <1>28, <1>30, <2>3, <2>9, <2>10, <2>11, <2>12, <2>13 DEF Intact
<1>36. CASE n # e
  <2>1. n = bufSize /\ n < e
    BY <1>16, <1>36
  <2>2. Len(bytes) < f /\ Len(bytes) - h # len
    BY <1>9, <1>13, <1>22, <2>1
  <2>3. MoreToRead(n, bytes, h, len)
    BY <1>15, <2>1, <2>2 DEF MoreToRead
  <2>4. /\ got' = bytes /\ offset' = h /\ total' = len
        /\ receiver' = receiver /\ results' = results
    BY <1>25, <2>3 DEF Continue
  <2>5. n + 1 \in 1..e /\ n < Len(w)
    BY <1>9, <1>11, <2>1
  <2>6. r # << >>
    <3>1. Len(r) # 0
      BY <1>9, <1>28, <2>5
    <3> QED
      BY <3>1
  <2>7. r[1] = <<c, Len(bytes) + 1>>
    <3>1. r[1] = w[n + 1]
      BY <1>31, <2>6
    <3>2. w[n + 1] = <<c, g + (n + 1)>>
      BY <1>11, <2>5
    <3>3. g + (n + 1) = Len(bytes) + 1
      BY <1>9, <1>22
    <3> QED
      BY <3>1, <3>2, <3>3
  <2>8. Reading(c, bytes)
    BY <1>10, <1>12, <1>22, <1>23, <2>2 DEF Reading
  <2>9. Reading(c, bytes)'
    BY <1>2, <1>34, <2>8 DEF Reading
  <2>10. Reading(Len(results) + 1, got)'
    BY <1>7, <2>4, <2>9 DEF Reading
  <2>11. offset' = Header(Len(results) + 1)' /\ total' = sent'[Len(results') + 1]
    <3>1. Header(Len(results) + 1)' = Header(c)
      BY <1>2, <1>7, <2>4 DEF Header
    <3> QED
      BY <1>2, <1>7, <1>12, <2>4, <3>1
  <2>12. \A m \in 1..Len(results') : results'[m] = Text(m)'
    BY <1>32, <1>33, <1>34, <2>4
  <2>13. wire' # << >> /\ wire'[1] = <<Len(results') + 1, Len(got') + 1>>
    BY <1>7, <1>26, <2>4, <2>6, <2>7
  <2>14. /\ wire' \in Seq(Octet) /\ got' \in Seq(Octet) /\ results' \in Seq(Seq(Octet))
         /\ receiver' = "reading" /\ Len(results') <= Len(sent')
    BY <1>2, <1>8, <1>22, <1>26, <1>28, <1>32, <1>33, <2>4
  <2> QED
    BY <1>30, <2>10, <2>11, <2>12, <2>13, <2>14 DEF Intact
<1> QED
  BY <1>35, <1>36

(* A call begins, the stream ends, or the sender closes it.                *)
LEMMA OthersKeep ==
  ASSUME ChannelInv, Receive \/ ReadNothing \/ Close \/ UNCHANGED vars
  PROVE  ChannelInv'
<1>1. sent' = sent /\ wire' = wire /\ results' = results /\ intact' = intact
  BY DEF Receive, ReadNothing, Close, vars
<1>2. SUFFICES ASSUME intact, Intact PROVE Intact'
  BY <1>1 DEF ChannelInv
<1>3. Frames(wire)' /\ \A m : Text(m)' = Text(m)
  <2>1. Frames(wire)
    BY <1>2 DEF Intact
  <2>2. sent' = sent /\ wire' = wire
    BY <1>1
  <2>3. Frames(wire)'
    <3>1. SUFFICES ASSUME NEW k \in 1..Len(wire)
                   PROVE  \E m \in 1..Len(sent) : \E i, e \in Nat : FrameAt(wire, k, m, i, e)'
      BY <2>2 DEF Frames
    <3>2. PICK m \in 1..Len(sent) : \E i, e \in Nat : FrameAt(wire, k, m, i, e)
      BY <2>1 DEF Frames
    <3>3. PICK i \in Nat, e \in Nat : FrameAt(wire, k, m, i, e)
      BY <3>2
    <3>4. FrameAt(wire, k, m, i, e)'
      BY <2>2, <3>3 DEF FrameAt, FrameLength, Header
    <3> QED
      BY <3>4
  <2>4. \A m : Text(m)' = Text(m)
    BY <2>2 DEF Text, Header
  <2> QED
    BY <2>3, <2>4
<1>4. CASE receiver' = receiver /\ got' = got /\ offset' = offset /\ total' = total
  <2>1. Reading(Len(results) + 1, got)' <=> Reading(Len(results) + 1, got)
    BY <1>1, <1>4 DEF Reading, Header, FrameLength
  <2>2. Header(Len(results) + 1)' = Header(Len(results) + 1)
    BY <1>1 DEF Header
  <2> QED
    BY <1>1, <1>2, <1>3, <1>4, <2>1, <2>2 DEF Intact
<1>5. CASE receiver' \in {"reading", "closed"} /\ got' = << >> /\ got = << >>
  BY <1>1, <1>2, <1>3, <1>5 DEF Intact
<1>6. Receive => receiver' = "reading" /\ got' = << >> /\ got = << >>
  BY <1>2 DEF Receive, Intact
<1>7. ReadNothing => receiver' = "closed" /\ got' = << >> /\ got = << >>
  BY <1>2 DEF ReadNothing, Intact
<1> QED
  BY <1>4, <1>5, <1>6, <1>7 DEF Close, vars

LEMMA ChannelInit == Init => ChannelInv
<1>1. SUFFICES ASSUME Init PROVE ChannelInv
  OBVIOUS
<1>2. /\ sent = << >> /\ wire = << >> /\ got = << >> /\ results = << >>
      /\ receiver = "idle" /\ intact = TRUE
  BY <1>1 DEF Init
<1>3. Len(<< >>) = 0 /\ 1..0 = {} /\ << >> \in Seq(Octet) /\ << >> \in Seq(Seq(Octet))
  OBVIOUS
<1>4. << >> \in Seq(Lengths)
  OBVIOUS
<1>5. Frames(wire)
  BY <1>2, <1>3 DEF Frames
<1>6. Intact
  BY <1>2, <1>3, <1>5 DEF Intact
<1> QED
  BY <1>2, <1>4, <1>6 DEF ChannelInv

LEMMA ChannelInvariance == SocketsSpec => []ChannelInv
<1>1. SocketsInit => ChannelInv
  BY ChannelInit DEF SocketsInit
<1>2. ChannelInv /\ [SocketsNext]_<<vars, setup>> => ChannelInv'
  <2> SUFFICES ASSUME ChannelInv, [SocketsNext]_<<vars, setup>> PROVE ChannelInv'
    OBVIOUS
  <2>1. CASE Sends
    BY <2>1, SendKeeps DEF Sends
  <2>2. CASE Receives
    BY <2>2, ReadKeeps, OthersKeep DEF Receives
  <2>3. CASE ClientCloses
    BY <2>3, OthersKeep DEF ClientCloses
  <2>4. CASE \/ nova_serversocket_start \/ nova_clientsocket_connect
             \/ nova_serversocket_accept \/ ServerCloses \/ Rests \/ UNCHANGED vars
    <3>1. UNCHANGED vars
      BY <2>4 DEF nova_serversocket_start, nova_clientsocket_connect,
         nova_serversocket_accept, ServerCloses, Rests
    <3> QED
      BY <3>1, OthersKeep
  <2> QED
    BY <2>1, <2>2, <2>3, <2>4 DEF SocketsNext
<1> QED
  BY <1>1, <1>2, PTL DEF SocketsSpec

(* While reads and writes are intact, every message comes out of           *)
(* nova_socket_receive as it was sent, once and in order, whatever its     *)
(* length, and the search for the space ends within what was read.         *)
THEOREM MessagesArriveIntact == SocketsSpec => []MessagesIntact
<1>1. ChannelInv => MessagesIntact
  <2>1. SUFFICES ASSUME ChannelInv, intact
        PROVE  /\ receiver # "undefined"
               /\ \A m \in 1..Len(results) : m <= Len(sent) /\ results[m] = Text(m)
    BY DEF MessagesIntact
  <2>2. /\ receiver # "undefined" /\ results \in Seq(Seq(Octet)) /\ sent \in Seq(Lengths)
        /\ Len(results) <= Len(sent) /\ \A m \in 1..Len(results) : results[m] = Text(m)
    BY <2>1 DEF ChannelInv, Intact
  <2>3. Len(results) \in Nat /\ Len(sent) \in Nat
    BY <2>2
  <2>4. \A m \in 1..Len(results) : m <= Len(sent)
    BY <2>2, <2>3
  <2> QED
    BY <2>2, <2>4
<1> QED
  BY <1>1, ChannelInvariance, PTL

(* nova_socket_receive reads on only while the current message is not      *)
(* complete, even if it ends with a full buffer.                           *)
THEOREM ReadsOnlyTheFrame == SocketsSpec => []NeverWaitsForMore
<1>1. ChannelInv => NeverWaitsForMore
  <2>1. SUFFICES ASSUME ChannelInv, intact, got # << >>
        PROVE  Len(got) < FrameLength(got[1][1])
    BY DEF NeverWaitsForMore
  <2>2. PICK c : c = Len(results) + 1
    OBVIOUS
  <2>3. got \in Seq(Octet) /\ Reading(c, got)
    BY <2>1, <2>2 DEF ChannelInv, Intact
  <2>4. 1 \in 1..Len(got)
    <3>1. Len(got) \in Nat /\ Len(got) # 0
      BY <2>1, <2>3
    <3> QED
      BY <3>1
  <2>5. got[1] = <<c, 1>> /\ Len(got) < FrameLength(c)
    BY <2>3, <2>4 DEF Reading
  <2>6. got[1][1] = c
    BY <2>5
  <2> QED
    BY <2>5, <2>6
<1> QED
  BY <1>1, ChannelInvariance, PTL

-----------------------------------------------------------------------------
(***************************************************************************)
(* The descriptors.  A program's handle is the only descriptor but 0 that  *)
(* is of the handle's kind.                                                *)
(***************************************************************************)
Kind == {"free", "file", "socket", "bound", "listening", "connection", "orphan"}

Holds(f, h, kinds) == \A fd \in Table \ {0} : f[fd] \in kinds <=> h = fd

SetupInv ==
  /\ fds \in [Side -> [Table -> Kind]]
  /\ handle \in [{"listening", "accepted", "connected"} -> Table]
  /\ pending \in Seq({"connection", "orphan"})
  /\ Holds(fds["server"], handle["listening"], {"listening"})
  /\ Holds(fds["server"], handle["accepted"], {"connection", "orphan"})
  /\ Holds(fds["client"], handle["connected"], {"connection"})

(* A nonempty set of numbers has a smallest one.                           *)
LEMMA SmallestOf ==
  ASSUME NEW T \in SUBSET Nat, T # {}
  PROVE  \E x \in T : \A y \in T : x <= y
<1>1. PICK R : R = OpToRel(<, Nat)
  OBVIOUS
<1>2. IsWellFoundedOn(R, Nat)
  BY <1>1, NatLessThanWellFounded
<1>3. PICK x \in T : \A y \in T : ~ (<<y, x>> \in R)
  BY <1>2, WFMin
<1>4. \A y \in T : y < x => <<y, x>> \in R
  BY <1>1, <1>3 DEF OpToRel
<1>5. \A y \in T : y \in Nat /\ x \in Nat /\ ~(y < x)
  BY <1>3, <1>4
<1>6. \A y \in T : x <= y
  BY <1>5
<1> QED
  BY <1>6

(* The system gives out a free descriptor.                                 *)
LEMMA LowestIsFree ==
  ASSUME NEW s, ~Full(s)
  PROVE  Lowest(s) \in Table /\ fds[s][Lowest(s)] = "free"
<1>1. Free(s) \in SUBSET Nat /\ Free(s) # {}
  BY SocketsAssumption DEF SocketsAssumption, Full, Free
<1>2. \E x \in Free(s) : \A y \in Free(s) : x <= y
  BY <1>1, SmallestOf
<1>3. Lowest(s) \in Free(s)
  BY <1>2 DEF Lowest
<1> QED
  BY <1>3 DEF Free

(* Opening a free descriptor, for the handle or for something else.        *)
LEMMA HoldsOpened ==
  ASSUME NEW kinds, "free" \notin kinds, NEW f \in [Table -> Kind], NEW h,
         Holds(f, h, kinds), NEW fd \in Table, f[fd] = "free", NEW kind
  PROVE  /\ kind \notin kinds => Holds([f EXCEPT ![fd] = kind], h, kinds)
         /\ kind \in kinds /\ h = 0 => Holds([f EXCEPT ![fd] = kind], fd, kinds)
<1>1. PICK new : new = [f EXCEPT ![fd] = kind]
  OBVIOUS
<1>2. \A x \in Table : new[x] = IF x = fd THEN kind ELSE f[x]
  BY <1>1
<1>3. kind \notin kinds => Holds(new, h, kinds)
  BY <1>2 DEF Holds
<1>4. kind \in kinds /\ h = 0 => Holds(new, fd, kinds)
  BY <1>2 DEF Holds
<1> QED
  BY <1>1, <1>3, <1>4

(* Closing it, or another one.                                             *)
LEMMA HoldsClosed ==
  ASSUME NEW kinds, "free" \notin kinds, NEW f \in [Table -> Kind], NEW h,
         Holds(f, h, kinds), NEW fd \in Table
  PROVE  /\ h = fd => Holds([f EXCEPT ![fd] = "free"], 0, kinds)
         /\ f[fd] \notin kinds => Holds([f EXCEPT ![fd] = "free"], h, kinds)
<1>1. PICK new : new = [f EXCEPT ![fd] = "free"]
  OBVIOUS
<1>2. \A x \in Table : new[x] = IF x = fd THEN "free" ELSE f[x]
  BY <1>1
<1>3. h = fd => Holds(new, 0, kinds)
  BY <1>2 DEF Holds
<1>4. f[fd] \notin kinds => Holds(new, h, kinds)
  BY <1>2 DEF Holds
<1> QED
  BY <1>1, <1>3, <1>4

Name == {"listening", "accepted", "connected"}

LEMMA OpensEffect ==
  ASSUME SetupInv, NEW s \in Side, NEW kind \in Kind, NEW name \in Name,
         NEW answer \in Table, Opens(s, kind, name, answer)
  PROVE  /\ fds' \in [Side -> [Table -> Kind]] /\ handle' \in [Name -> Table]
         /\ fds'[s] = [fds[s] EXCEPT ![Lowest(s)] = kind]
         /\ \A t \in Side \ {s} : fds'[t] = fds[t]
         /\ handle'[name] = answer /\ \A n \in Name \ {name} : handle'[n] = handle[n]
         /\ Lowest(s) \in Table /\ fds[s][Lowest(s)] = "free" /\ fds[s] \in [Table -> Kind]
<1>1. Lowest(s) \in Table /\ fds[s][Lowest(s)] = "free"
  BY LowestIsFree DEF Opens
<1>2. fds \in [Side -> [Table -> Kind]] /\ handle \in [Name -> Table]
  BY DEF SetupInv, Name
<1>3. PICK new : new = [fds[s] EXCEPT ![Lowest(s)] = kind]
  OBVIOUS
<1>4. new \in [Table -> Kind]
  BY <1>1, <1>2, <1>3
<1>5. fds' = [fds EXCEPT ![s] = new]
  BY <1>3 DEF Opens
<1>6. handle' = [handle EXCEPT ![name] = answer]
  BY DEF Opens
<1> QED
  BY <1>1, <1>2, <1>3, <1>4, <1>5, <1>6

LEMMA StartKeeps ==
  ASSUME SetupInv, nova_serversocket_start
  PROVE  SetupInv'
<1>1. /\ handle["listening"] = 0 /\ pending' = pending /\ 0 \in Table
  BY SocketsAssumption DEF nova_serversocket_start, SocketsAssumption
<1>2. CASE UNCHANGED <<fds, handle>>
  BY <1>1, <1>2 DEF SetupInv, Holds
<1>3. ASSUME NEW kind \in {"socket", "bound", "listening"}, NEW answer \in Table,
             Opens("server", kind, "listening", answer),
             answer = IF kind = "listening" THEN Lowest("server") ELSE 0
      PROVE  SetupInv'
  <2>1. PICK f, g, fd : f = fds["server"] /\ g = fds'["server"] /\ fd = Lowest("server")
    OBVIOUS
  <2>2. kind \in Kind /\ "server" \in Side /\ "listening" \in Name
    BY DEF Kind, Side, Name
  <2>3. /\ fds' \in [Side -> [Table -> Kind]] /\ handle' \in [Name -> Table]
        /\ g = [f EXCEPT ![fd] = kind] /\ fds'["client"] = fds["client"]
        /\ handle'["listening"] = answer /\ handle'["accepted"] = handle["accepted"]
        /\ handle'["connected"] = handle["connected"]
        /\ fd \in Table /\ f[fd] = "free" /\ f \in [Table -> Kind]
    BY <1>3, <2>1, <2>2, OpensEffect DEF Side, Name
  <2>4. /\ Holds(f, 0, {"listening"}) /\ Holds(f, handle["accepted"], {"connection", "orphan"})
        /\ Holds(fds["client"], handle["connected"], {"connection"})
    BY <1>1, <2>1 DEF SetupInv
  <2>5. Holds(g, answer, {"listening"})
    <3>1. CASE kind = "listening"
      <4>1. answer = fd
        BY <1>3, <2>1, <3>1
      <4>2. "free" \notin {"listening"} /\ kind \in {"listening"}
        BY <3>1
      <4> QED
        BY <2>3, <2>4, <4>1, <4>2, HoldsOpened
    <3>2. CASE kind # "listening"
      <4>1. answer = 0
        BY <1>3, <3>2
      <4>2. "free" \notin {"listening"} /\ kind \notin {"listening"}
        BY <3>2
      <4> QED
        BY <2>3, <2>4, <4>1, <4>2, HoldsOpened
    <3> QED
      BY <3>1, <3>2
  <2>6. Holds(g, handle["accepted"], {"connection", "orphan"})
    <3>1. "free" \notin {"connection", "orphan"} /\ kind \notin {"connection", "orphan"}
      OBVIOUS
    <3> QED
      BY <2>3, <2>4, <3>1, HoldsOpened
  <2> QED
    BY <1>1, <2>1, <2>3, <2>4, <2>5, <2>6 DEF SetupInv, Name, Holds
<1>4. CASE PortBound /\ Opens("server", "socket", "listening", 0)
  BY <1>1, <1>3, <1>4
<1>5. CASE Opens("server", "socket", "listening", 0) \/ Opens("server", "bound", "listening", 0)
  BY <1>1, <1>3, <1>5
<1>6. CASE Opens("server", "listening", "listening", Lowest("server"))
  <2>1. Lowest("server") \in Table
    BY <1>6, LowestIsFree DEF Opens
  <2> QED
    BY <1>3, <1>6, <2>1
<1> QED
  BY <1>2, <1>4, <1>5, <1>6 DEF nova_serversocket_start

LEMMA ConnectKeeps ==
  ASSUME SetupInv, nova_clientsocket_connect
  PROVE  SetupInv'
<1>1. handle["connected"] = 0 /\ 0 \in Table /\ pending \in Seq({"connection", "orphan"})
  BY SocketsAssumption DEF nova_clientsocket_connect, SocketsAssumption, SetupInv
<1>2. CASE UNCHANGED <<fds, handle, pending>>
  BY <1>2 DEF SetupInv, Holds
<1>3. ASSUME NEW kind \in {"socket", "connection"}, NEW answer \in Table,
             Opens("client", kind, "connected", answer),
             answer = IF kind = "connection" THEN Lowest("client") ELSE 0,
             pending' \in Seq({"connection", "orphan"})
      PROVE  SetupInv'
  <2>1. PICK f, g, fd : f = fds["client"] /\ g = fds'["client"] /\ fd = Lowest("client")
    OBVIOUS
  <2>2. kind \in Kind /\ "client" \in Side /\ "connected" \in Name
    BY DEF Kind, Side, Name
  <2>3. /\ fds' \in [Side -> [Table -> Kind]] /\ handle' \in [Name -> Table]
        /\ g = [f EXCEPT ![fd] = kind] /\ fds'["server"] = fds["server"]
        /\ handle'["connected"] = answer /\ handle'["accepted"] = handle["accepted"]
        /\ handle'["listening"] = handle["listening"]
        /\ fd \in Table /\ f[fd] = "free" /\ f \in [Table -> Kind]
    BY <1>3, <2>1, <2>2, OpensEffect DEF Side, Name
  <2>4. /\ Holds(f, 0, {"connection"})
        /\ Holds(fds["server"], handle["accepted"], {"connection", "orphan"})
        /\ Holds(fds["server"], handle["listening"], {"listening"})
    BY <1>1, <2>1 DEF SetupInv
  <2>5. Holds(g, answer, {"connection"})
    <3>1. CASE kind = "connection"
      <4>1. answer = fd
        BY <1>3, <2>1, <3>1
      <4>2. "free" \notin {"connection"} /\ kind \in {"connection"}
        BY <3>1
      <4> QED
        BY <2>3, <2>4, <4>1, <4>2, HoldsOpened
    <3>2. CASE kind # "connection"
      <4>1. answer = 0
        BY <1>3, <3>2
      <4>2. "free" \notin {"connection"} /\ kind \notin {"connection"}
        BY <3>2
      <4> QED
        BY <2>3, <2>4, <4>1, <4>2, HoldsOpened
    <3> QED
      BY <3>1, <3>2
  <2> QED
    BY <1>3, <2>1, <2>3, <2>4, <2>5 DEF SetupInv, Name, Holds
<1>4. CASE Opens("client", "socket", "connected", Refused(Lowest("client"))) /\ UNCHANGED pending
  BY <1>1, <1>3, <1>4 DEF Refused
<1>5. CASE /\ Opens("client", "connection", "connected", Lowest("client"))
           /\ pending' = Append(pending, IF Lowest("client") = 0 THEN "orphan" ELSE "connection")
  <2>1. Lowest("client") \in Table
    BY <1>5, LowestIsFree DEF Opens
  <2>2. pending' \in Seq({"connection", "orphan"})
    BY <1>1, <1>5
  <2> QED
    BY <1>3, <1>5, <2>1, <2>2
<1> QED
  BY <1>2, <1>4, <1>5 DEF nova_clientsocket_connect

LEMMA AcceptKeeps ==
  ASSUME SetupInv, nova_serversocket_accept
  PROVE  SetupInv'
<1>1. /\ handle["accepted"] = 0 /\ pending # << >> /\ pending \in Seq({"connection", "orphan"})
  BY DEF nova_serversocket_accept, SetupInv
<1>2. CASE UNCHANGED <<fds, handle, pending>>
  BY <1>2 DEF SetupInv, Holds
<1>3. CASE /\ Opens("server", Head(pending), "accepted", Lowest("server"))
           /\ pending' = Tail(pending)
  <2>1. PICK f, g, fd, kind : /\ f = fds["server"] /\ g = fds'["server"]
                              /\ fd = Lowest("server") /\ kind = Head(pending)
    OBVIOUS
  <2>2. /\ kind \in {"connection", "orphan"} /\ pending' \in Seq({"connection", "orphan"})
    BY <1>1, <1>3, <2>1
  <2>3. kind \in Kind /\ "server" \in Side /\ "accepted" \in Name /\ fd \in Table
    BY <1>3, <2>1, <2>2, LowestIsFree DEF Kind, Side, Name, Opens
  <2>4. /\ fds' \in [Side -> [Table -> Kind]] /\ handle' \in [Name -> Table]
        /\ g = [f EXCEPT ![fd] = kind] /\ fds'["client"] = fds["client"]
        /\ handle'["accepted"] = fd /\ handle'["listening"] = handle["listening"]
        /\ handle'["connected"] = handle["connected"]
        /\ f[fd] = "free" /\ f \in [Table -> Kind]
    BY <1>3, <2>1, <2>3, OpensEffect DEF Side, Name
  <2>5. /\ Holds(f, handle["listening"], {"listening"}) /\ Holds(f, 0, {"connection", "orphan"})
        /\ Holds(fds["client"], handle["connected"], {"connection"})
    BY <1>1, <2>1 DEF SetupInv
  <2>6. Holds(g, fd, {"connection", "orphan"})
    <3>1. "free" \notin {"connection", "orphan"}
      OBVIOUS
    <3> QED
      BY <2>2, <2>3, <2>4, <2>5, <3>1, HoldsOpened
  <2>7. Holds(g, handle["listening"], {"listening"})
    <3>1. "free" \notin {"listening"} /\ kind \notin {"listening"}
      BY <2>2
    <3> QED
      BY <2>3, <2>4, <2>5, <3>1, HoldsOpened
  <2> QED
    BY <2>1, <2>2, <2>4, <2>5, <2>6, <2>7 DEF SetupInv, Name, Holds
<1> QED
  BY <1>2, <1>3 DEF nova_serversocket_accept

LEMMA CloseKeeps ==
  ASSUME SetupInv, NEW s \in Side, NEW name \in Name, nova_socket_close(s, name),
         <<s, name>> \in {<<"server", "listening">>, <<"server", "accepted">>,
                          <<"client", "connected">>}
  PROVE  SetupInv'
<1>1. PICK f, g, fd : f = fds[s] /\ g = fds'[s] /\ fd = handle[name]
  OBVIOUS
<1>2. /\ fd \in Table \ {0} /\ f \in [Table -> Kind] /\ 0 \in Table
      /\ pending' = pending
  BY <1>1, SocketsAssumption DEF nova_socket_close, SetupInv, Name, SocketsAssumption
<1>3. [f EXCEPT ![fd] = "free"] \in [Table -> Kind]
  BY <1>2 DEF Kind
<1>4. /\ fds' = [fds EXCEPT ![s] = [f EXCEPT ![fd] = "free"]]
      /\ handle' = [handle EXCEPT ![name] = 0]
  BY <1>1 DEF nova_socket_close
<1>5. /\ fds' \in [Side -> [Table -> Kind]] /\ handle' \in [Name -> Table]
      /\ g = [f EXCEPT ![fd] = "free"] /\ \A t \in Side \ {s} : fds'[t] = fds[t]
      /\ handle'[name] = 0 /\ \A n \in Name \ {name} : handle'[n] = handle[n]
  BY <1>1, <1>2, <1>3, <1>4 DEF SetupInv, Name
<1>6. CASE s = "server" /\ name = "listening"
  <2>1. /\ fds'["client"] = fds["client"] /\ handle'["accepted"] = handle["accepted"]
        /\ handle'["connected"] = handle["connected"]
    BY <1>5, <1>6 DEF Side, Name
  <2>2. Holds(f, fd, {"listening"}) /\ Holds(f, handle["accepted"], {"connection", "orphan"})
    BY <1>1, <1>6 DEF SetupInv
  <2>3. f[fd] = "listening"
    BY <1>2, <2>2 DEF Holds
  <2>4. /\ "free" \notin {"listening"} /\ "free" \notin {"connection", "orphan"}
        /\ f[fd] \notin {"connection", "orphan"}
    BY <2>3
  <2>5. Holds(g, 0, {"listening"}) /\ Holds(g, handle["accepted"], {"connection", "orphan"})
    BY <1>2, <1>5, <2>2, <2>4, HoldsClosed
  <2>6. /\ fds' \in [Side -> [Table -> Kind]] /\ handle' \in [Name -> Table]
        /\ fds'["server"] = g /\ handle'["listening"] = 0
    BY <1>1, <1>5, <1>6
  <2>7. /\ pending' \in Seq({"connection", "orphan"})
        /\ Holds(fds["client"], handle["connected"], {"connection"})
        /\ Holds(fds["server"], handle["listening"], {"listening"})
        /\ Holds(fds["server"], handle["accepted"], {"connection", "orphan"})
    BY <1>2 DEF SetupInv
  <2> QED
    BY <2>1, <2>5, <2>6, <2>7 DEF SetupInv, Name, Holds
<1>7. CASE s = "server" /\ name = "accepted"
  <2>1. /\ fds'["client"] = fds["client"] /\ handle'["listening"] = handle["listening"]
        /\ handle'["connected"] = handle["connected"]
    BY <1>5, <1>7 DEF Side, Name
  <2>2. Holds(f, handle["listening"], {"listening"}) /\ Holds(f, fd, {"connection", "orphan"})
    BY <1>1, <1>7 DEF SetupInv
  <2>3. f[fd] \in {"connection", "orphan"}
    BY <1>2, <2>2 DEF Holds
  <2>4. /\ "free" \notin {"listening"} /\ "free" \notin {"connection", "orphan"}
        /\ f[fd] \notin {"listening"}
    BY <2>3
  <2>5. Holds(g, handle["listening"], {"listening"}) /\ Holds(g, 0, {"connection", "orphan"})
    BY <1>2, <1>5, <2>2, <2>4, HoldsClosed
  <2>6. /\ fds' \in [Side -> [Table -> Kind]] /\ handle' \in [Name -> Table]
        /\ fds'["server"] = g /\ handle'["accepted"] = 0
    BY <1>1, <1>5, <1>7
  <2>7. /\ pending' \in Seq({"connection", "orphan"})
        /\ Holds(fds["client"], handle["connected"], {"connection"})
        /\ Holds(fds["server"], handle["listening"], {"listening"})
        /\ Holds(fds["server"], handle["accepted"], {"connection", "orphan"})
    BY <1>2 DEF SetupInv
  <2> QED
    BY <2>1, <2>5, <2>6, <2>7 DEF SetupInv, Name, Holds
<1>8. CASE s = "client" /\ name = "connected"
  <2>1. /\ fds'["server"] = fds["server"] /\ handle'["listening"] = handle["listening"]
        /\ handle'["accepted"] = handle["accepted"]
    BY <1>5, <1>8 DEF Side, Name
  <2>2. Holds(f, fd, {"connection"}) /\ "free" \notin {"connection"}
    BY <1>1, <1>8 DEF SetupInv
  <2>3. Holds(g, 0, {"connection"})
    BY <1>2, <1>5, <2>2, HoldsClosed
  <2>4. /\ fds' \in [Side -> [Table -> Kind]] /\ handle' \in [Name -> Table]
        /\ fds'["client"] = g /\ handle'["connected"] = 0
    BY <1>1, <1>5, <1>8
  <2>5. /\ pending' \in Seq({"connection", "orphan"})
        /\ Holds(fds["client"], handle["connected"], {"connection"})
        /\ Holds(fds["server"], handle["listening"], {"listening"})
        /\ Holds(fds["server"], handle["accepted"], {"connection", "orphan"})
    BY <1>2 DEF SetupInv
  <2> QED
    BY <2>1, <2>3, <2>4, <2>5 DEF SetupInv, Name, Holds
<1> QED
  BY <1>6, <1>7, <1>8

LEMMA SetupInvariance == SocketsSpec => []SetupInv
<1>1. SocketsInit => SetupInv
  <2>1. SUFFICES ASSUME SocketsInit PROVE SetupInv
    OBVIOUS
  <2>2. PICK stdin \in {"free", "file"} :
          fds = [s \in Side |-> [fd \in Table |-> IF fd = 0 THEN stdin ELSE "free"]]
    BY <2>1 DEF SocketsInit
  <2>3. /\ handle = [listening |-> 0, accepted |-> 0, connected |-> 0]
        /\ pending = << >> /\ 0 \in Table
    BY <2>1, SocketsAssumption DEF SocketsInit, SocketsAssumption
  <2>4. fds \in [Side -> [Table -> Kind]]
    BY <2>2 DEF Kind
  <2>5. \A s \in Side : \A fd \in Table \ {0} : fds[s][fd] = "free"
    BY <2>2
  <2>6. /\ handle["listening"] = 0 /\ handle["accepted"] = 0 /\ handle["connected"] = 0
        /\ handle \in [{"listening", "accepted", "connected"} -> Table]
    BY <2>3
  <2>7. pending \in Seq({"connection", "orphan"})
    BY <2>3
  <2> QED
    BY <2>4, <2>5, <2>6, <2>7 DEF SetupInv, Holds, Side
<1>2. SetupInv /\ [SocketsNext]_<<vars, setup>> => SetupInv'
  <2> SUFFICES ASSUME SetupInv, [SocketsNext]_<<vars, setup>> PROVE SetupInv'
    OBVIOUS
  <2>1. CASE nova_serversocket_start
    BY <2>1, StartKeeps
  <2>2. CASE nova_clientsocket_connect
    BY <2>2, ConnectKeeps
  <2>3. CASE nova_serversocket_accept
    BY <2>3, AcceptKeeps
  <2>4. CASE ClientCloses
    BY <2>4, CloseKeeps DEF ClientCloses, Side, Name
  <2>5. CASE ServerCloses
    BY <2>5, CloseKeeps DEF ServerCloses, Side, Name
  <2>6. CASE Sends \/ Receives \/ Rests \/ UNCHANGED <<vars, setup>>
    <3>1. fds' = fds /\ handle' = handle /\ pending' = pending
      BY <2>6 DEF Sends, Receives, Rests, setup
    <3> QED
      BY <3>1 DEF SetupInv, Holds
  <2> QED
    BY <2>1, <2>2, <2>3, <2>4, <2>5, <2>6 DEF SocketsNext
<1> QED
  BY <1>1, <1>2, PTL DEF SocketsSpec

OfKind(s, f, kinds) == {<<s, fd>> : fd \in {x \in Table \ {0} : f[x] \in kinds}}

(* A result other than 0 of start, connect or accept is a listening or a   *)
(* connected socket until it is closed, and there are no others but one    *)
(* that got descriptor 0.                                                  *)
THEOREM HandlesMatchSockets == SocketsSpec => []HandlesAreSockets
<1>1. ASSUME NEW s, NEW f, NEW h \in Table, NEW kinds, Holds(f, h, kinds)
      PROVE  {<<s, h>>} \ {<<s, 0>>} = OfKind(s, f, kinds)
  <2>1. {x \in Table \ {0} : f[x] \in kinds} = {h} \ {0}
    BY <1>1 DEF Holds
  <2>2. {<<s, h>>} \ {<<s, 0>>} = {<<s, fd>> : fd \in {h} \ {0}}
    OBVIOUS
  <2> QED
    BY <2>1, <2>2 DEF OfKind
<1>2. SetupInv => HandlesAreSockets
  <2>1. SUFFICES ASSUME SetupInv PROVE HandlesAreSockets
    OBVIOUS
  <2>2. /\ handle["listening"] \in Table /\ handle["accepted"] \in Table
        /\ handle["connected"] \in Table
        /\ Holds(fds["server"], handle["listening"], {"listening"})
        /\ Holds(fds["server"], handle["accepted"], {"connection", "orphan"})
        /\ Holds(fds["client"], handle["connected"], {"connection"})
    BY <2>1 DEF SetupInv
  <2>3. {<<"server", handle["listening"]>>} \ {<<"server", 0>>}
          = OfKind("server", fds["server"], {"listening"})
    BY <1>1, <2>2, Zenon
  <2>4. {<<"server", handle["accepted"]>>} \ {<<"server", 0>>}
          = OfKind("server", fds["server"], {"connection", "orphan"})
    BY <1>1, <2>2, Zenon
  <2>5. {<<"client", handle["connected"]>>} \ {<<"client", 0>>}
          = OfKind("client", fds["client"], {"connection"})
    BY <1>1, <2>2, Zenon
  <2>6. /\ {<<"server", handle[n]>> : n \in {"listening"}} = {<<"server", handle["listening"]>>}
        /\ {<<"server", handle[n]>> : n \in {"accepted"}} = {<<"server", handle["accepted"]>>}
        /\ {<<"client", handle[n]>> : n \in {"connected"}}
             = {<<"client", handle["connected"]>>}
    OBVIOUS
  <2> QED
    BY <2>3, <2>4, <2>5, <2>6 DEF OfKind, HandlesAreSockets
<1> QED
  BY <1>2, SetupInvariance, PTL

=============================================================================
