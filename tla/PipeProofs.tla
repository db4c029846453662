------------------------------ MODULE PipeProofs ------------------------------
(***************************************************************************)
(* Theorems about Pipe, for a buffer, chunks and writes of any length.     *)
(***************************************************************************)
EXTENDS Pipe, SequenceTheorems, TLAPS

\* What the host has got of an undisturbed read is the pipe from where the read
\* began to the cursor; a read that begins after the end gets nothing.
ReadInv ==
  reading /\ quiet => /\ start <= pos /\ got = SubSeq(buffer, start + 1, pos)
                      /\ pos <= Len(buffer) \/ pos = start

PInv == TypeOK /\ KeepsOutput /\ ReadInv

-----------------------------------------------------------------------------
(* Lemmas about the buffer.                                                 *)

\* The larger and the smaller of two numbers.
LEMMA LargerSmaller ==
  ASSUME NEW m \in Int, NEW n \in Int
  PROVE  /\ Larger(m, n) \in {m, n} /\ Larger(m, n) >= m /\ Larger(m, n) >= n
         /\ Smaller(m, n) \in {m, n} /\ Smaller(m, n) <= m /\ Smaller(m, n) <= n
BY DEF Larger, Smaller

\* A write gives bytes, of the length of the pipe or to the end of what is
\* written.
LEMMA WrittenType ==
  ASSUME NEW b \in Seq(Byte), NEW p \in Nat, NEW bytes \in Seq(Byte)
  PROVE  /\ Written(b, p, bytes) \in Seq(Byte)
         /\ Len(Written(b, p, bytes)) = Larger(Len(b), p + Len(bytes))
<1> DEFINE n == Larger(Len(b), p + Len(bytes))
           w == Written(b, p, bytes)
<1>1. Len(b) \in Nat /\ Len(bytes) \in Nat /\ n \in Nat
  BY LenProperties, LargerSmaller
<1>2. w = [i \in 1..n |-> IF i \in p + 1..p + Len(bytes) THEN bytes[i - p]
                          ELSE IF i <= Len(b) THEN b[i] ELSE "zero"]
  BY DEF Written
<1> HIDE DEF n
<1>3. ASSUME NEW i \in 1..n
      PROVE  (IF i \in p + 1..p + Len(bytes) THEN bytes[i - p]
              ELSE IF i <= Len(b) THEN b[i] ELSE "zero") \in Byte
  <2>1. CASE i \in p + 1..p + Len(bytes)
    <3>1. i - p \in 1..Len(bytes)
      BY <1>1, <2>1
    <3> QED
      BY <2>1, <3>1, ElementOfSeq
  <2>2. CASE i \notin p + 1..p + Len(bytes) /\ i <= Len(b)
    <3>1. i \in 1..Len(b)
      BY <1>1, <2>2
    <3> QED
      BY <2>2, <3>1, ElementOfSeq
  <2>3. CASE i \notin p + 1..p + Len(bytes) /\ ~(i <= Len(b))
    BY <2>3 DEF Byte
  <2> QED
    BY <2>1, <2>2, <2>3
<1>4. w \in [1..n -> Byte]
  BY <1>2, <1>3
<1> HIDE DEF w
<1>5. w \in Seq(Byte) /\ Len(w) = n
  BY <1>1, <1>4, SeqDef
<1> QED
  BY <1>5 DEF w, n

\* A write at the end appends.
LEMMA WrittenAtEnd ==
  ASSUME NEW b \in Seq(Byte), NEW bytes \in Seq(Byte)
  PROVE  Written(b, Len(b), bytes) = b \o bytes
<1> DEFINE w == Written(b, Len(b), bytes)
           n == Len(b) + Len(bytes)
<1>1. Len(b) \in Nat /\ Len(bytes) \in Nat
  BY LenProperties
<1>2. Larger(Len(b), n) = n
  BY <1>1 DEF Larger
<1>3. w = [i \in 1..n |-> IF i \in Len(b) + 1..n THEN bytes[i - Len(b)]
                          ELSE IF i <= Len(b) THEN b[i] ELSE "zero"]
  BY <1>2 DEF Written
<1>4. w \in Seq(Byte) /\ Len(w) = n
  BY <1>1, <1>2, WrittenType
<1>5. b \o bytes \in Seq(Byte) /\ Len(b \o bytes) = n
  BY ConcatProperties
<1>6. ASSUME NEW i \in 1..n PROVE w[i] = (b \o bytes)[i]
  <2>1. (b \o bytes)[i] = IF i <= Len(b) THEN b[i] ELSE bytes[i - Len(b)]
    BY ConcatProperties
  <2>2. w[i] = IF i \in Len(b) + 1..n THEN bytes[i - Len(b)]
               ELSE IF i <= Len(b) THEN b[i] ELSE "zero"
    BY <1>3
  <2> QED
    BY <1>1, <2>1, <2>2
<1> QED
  BY <1>4, <1>5, <1>6, SeqEqual

\* What is left to read.
LEMMA RestType ==
  ASSUME NEW b \in Seq(Byte), NEW p \in Nat
  PROVE  Rest(b, p) \in Nat /\ (Rest(b, p) > 0 => Rest(b, p) = Len(b) - p)
         /\ (Rest(b, p) = 0 <=> p >= Len(b))
BY LenProperties DEF Rest, Larger

-----------------------------------------------------------------------------
(* The steps.                                                               *)

\* What a write of the host or of Wasm does to the cursor.
LEMMA WriteEffect ==
  ASSUME TypeOK, NEW bytes \in Seq(Byte), bytes # <<>>, Write(bytes)
  PROVE  /\ buffer' \in Seq(Byte) /\ Len(buffer') <= MaxSize
         /\ pos' \in 0..MaxSize /\ log' \in Seq(Byte) /\ tidy' \in BOOLEAN
         /\ UNCHANGED <<wasi, reading, got, poisoned, start, rewound>>
         /\ KeepsOutput => KeepsOutput'
<1>1. /\ buffer \in Seq(Byte) /\ Len(buffer) <= MaxSize /\ pos \in 0..MaxSize
      /\ Len(buffer) \in Nat /\ Len(bytes) \in Nat /\ MaxSize \in Nat /\ pos \in Nat
  BY SizeType, LenProperties DEF TypeOK
<1>2. /\ buffer' = Written(buffer, pos, bytes) /\ pos' = pos + Len(bytes)
      /\ pos + Len(bytes) <= MaxSize /\ log' = log \o bytes
      /\ UNCHANGED <<wasi, reading, got, poisoned, start, rewound>>
  BY DEF Write
<1>3. buffer' \in Seq(Byte) /\ Len(buffer') = Larger(Len(buffer), pos + Len(bytes))
  BY <1>1, <1>2, WrittenType
<1>4. Len(buffer') <= MaxSize /\ pos' \in 0..MaxSize
  BY <1>1, <1>2, <1>3, LargerSmaller
<1>5. log' \in Seq(Byte)
  BY <1>2, ConcatProperties DEF TypeOK
<1>6. tidy' \in BOOLEAN
  BY Zenon DEF Write
<1>7. ASSUME KeepsOutput, ~rewound PROVE buffer' = log' /\ pos' = Len(buffer')
  <2>1. buffer = log /\ pos = Len(buffer)
    BY <1>7 DEF KeepsOutput
  <2>2. buffer' = buffer \o bytes
    BY <1>1, <1>2, <2>1, WrittenAtEnd
  <2>3. Len(buffer \o bytes) = Len(buffer) + Len(bytes)
    BY <1>1, ConcatProperties
  <2> QED
    BY <1>2, <2>1, <2>2, <2>3
<1> QED
  BY <1>2, <1>3, <1>4, <1>5, <1>6, <1>7 DEF KeepsOutput

\* A read of Wasm or of the host moves the cursor to the end at most.
LEMMA MoveEffect ==
  ASSUME TypeOK, NEW asked \in Nat, Smaller(asked, Rest(buffer, pos)) > 0
  PROVE  /\ pos + Smaller(asked, Rest(buffer, pos)) \in pos + 1..Len(buffer)
         /\ pos + Smaller(asked, Rest(buffer, pos)) \in 0..MaxSize
         /\ ~(pos = Len(buffer))
<1>1. /\ buffer \in Seq(Byte) /\ Len(buffer) <= MaxSize /\ pos \in 0..MaxSize
      /\ Len(buffer) \in Nat /\ MaxSize \in Nat /\ pos \in Nat
  BY SizeType, LenProperties DEF TypeOK
<1>2. Rest(buffer, pos) \in Nat
  BY <1>1, RestType
<1>3. /\ Smaller(asked, Rest(buffer, pos)) \in Nat
      /\ Smaller(asked, Rest(buffer, pos)) <= Rest(buffer, pos)
  BY <1>2, LargerSmaller
<1>4. Rest(buffer, pos) = Len(buffer) - pos
  BY <1>1, <1>2, <1>3, RestType
<1> QED
  BY <1>1, <1>3, <1>4

\* One chunk of read_to_string.
LEMMA ReadChunkKeeps == ASSUME PInv, ReadChunk PROVE PInv'
<1> DEFINE n == Smaller(Chunk, Rest(buffer, pos))
<1>1. /\ reading /\ n > 0 /\ pos' = pos + n
      /\ got' = got \o SubSeq(buffer, pos + 1, pos + n)
      /\ UNCHANGED <<buffer, wasi, reading, poisoned, start, quiet, log, rewound, tidy>>
  BY DEF ReadChunk
<1>2. pos + n \in pos + 1..Len(buffer) /\ pos + n \in 0..MaxSize /\ ~(pos = Len(buffer))
  BY <1>1, MoveEffect, SizeType DEF PInv
<1>3. /\ buffer \in Seq(Byte) /\ got \in Seq(Byte) /\ pos \in Nat /\ start \in Nat
      /\ Len(buffer) \in Nat /\ n \in Int
  <2>1. /\ buffer \in Seq(Byte) /\ got \in Seq(Byte) /\ pos \in Nat /\ start \in Nat
    BY SizeType DEF PInv, TypeOK
  <2>2. Len(buffer) \in Nat /\ Rest(buffer, pos) \in Int /\ Chunk \in Int
    BY <2>1, LenProperties, RestType, SizeType
  <2> QED
    BY <2>1, <2>2, LargerSmaller
<1> HIDE DEF n
<1>4. SubSeq(buffer, pos + 1, pos + n) \in Seq(Byte)
  <2>1. \A i \in pos + 1..pos + n : buffer[i] \in Byte
    BY <1>2, <1>3, ElementOfSeq
  <2> QED
    BY <1>3, <2>1, SubSeqProperties
<1>5. got' \in Seq(Byte)
  BY <1>1, <1>3, <1>4, ConcatProperties
<1>6. TypeOK'
  BY <1>1, <1>2, <1>5 DEF PInv, TypeOK
<1>7. KeepsOutput'
  BY <1>1, <1>2 DEF PInv, KeepsOutput
<1>8. ASSUME quiet PROVE got' = SubSeq(buffer, start + 1, pos + n) /\ start <= pos
  <2>1. got = SubSeq(buffer, start + 1, pos) /\ start <= pos
    BY <1>1, <1>8 DEF PInv, ReadInv
  <2>2. /\ start + 1 \in 1..Len(buffer) + 1 /\ pos \in (start + 1) - 1..Len(buffer)
        /\ pos + n \in pos..Len(buffer)
    BY <1>2, <1>3, <2>1
  <2>3. SubSeq(buffer, start + 1, pos) \o SubSeq(buffer, pos + 1, pos + n)
          = SubSeq(buffer, start + 1, pos + n)
    BY <1>3, <2>2, ConcatAdjacentSubSeq
  <2> QED
    BY <1>1, <2>1, <2>3
<1>9. ReadInv'
  BY <1>1, <1>2, <1>3, <1>8 DEF ReadInv
<1> QED
  BY <1>6, <1>7, <1>9 DEF PInv

\* A read of the host begins.
LEMMA BeginReadKeeps == ASSUME PInv, BeginRead PROVE PInv'
<1>1. /\ reading' = TRUE /\ got' = <<>> /\ start' = pos /\ quiet' = TRUE
      /\ UNCHANGED <<buffer, pos, wasi, poisoned, log, rewound, tidy>>
  BY DEF BeginRead
<1>2. SubSeq(buffer, pos + 1, pos) = <<>>
  BY SubSeqEmpty, SizeType DEF PInv, TypeOK
<1>3. TypeOK'
  BY <1>1, EmptySeq DEF PInv, TypeOK
<1>4. ReadInv'
  BY <1>1, <1>2, SizeType DEF ReadInv, PInv, TypeOK
<1> QED
  BY <1>1, <1>3, <1>4 DEF PInv, KeepsOutput

\* The other operations.
LEMMA OthersKeep ==
  ASSUME PInv,
         \/ AddPipe \/ EndRead
         \/ \E s \in Strings : HostWrite(s)
         \/ \E p \in 0..MaxSize : HostSeek(p)
         \/ Wasi
  PROVE  PInv'
<1>1. CASE AddPipe
  BY <1>1 DEF AddPipe, PInv, TypeOK, KeepsOutput, ReadInv
<1>2. CASE EndRead
  <2>1. poisoned' \in BOOLEAN
    BY <1>2, Zenon DEF EndRead, IsUtf8
  <2>2. /\ reading' = FALSE /\ got' = <<>>
        /\ UNCHANGED <<buffer, pos, wasi, start, quiet, log, rewound, tidy>>
    BY <1>2 DEF EndRead
  <2> QED
    BY <2>1, <2>2, EmptySeq DEF PInv, TypeOK, KeepsOutput, ReadInv
<1>3. CASE \E s \in Strings : HostWrite(s)
  <2>1. PICK s \in Strings : HostWrite(s)
    BY <1>3
  <2>2. s \in Seq(Byte) /\ s # <<>>
    BY WritesType
  <2>3. Write(s) /\ UNCHANGED quiet /\ ~reading
    BY <2>1 DEF HostWrite, HostFree
  <2> QED
    BY <2>2, <2>3, WriteEffect DEF PInv, TypeOK, ReadInv
<1>4. CASE \E p \in 0..MaxSize : HostSeek(p)
  <2>1. PICK p \in 0..MaxSize : HostSeek(p)
    BY <1>4
  <2>2. tidy' \in BOOLEAN
    BY <2>1, Zenon DEF HostSeek, Whole, IsUtf8
  <2>3. /\ ~reading /\ pos' = p /\ rewound' = TRUE
        /\ UNCHANGED <<buffer, wasi, reading, got, poisoned, start, quiet, log>>
    BY <2>1 DEF HostSeek, HostFree
  <2> QED
    BY <2>2, <2>3 DEF PInv, TypeOK, KeepsOutput, ReadInv
<1>5. CASE Wasi
  <2>1. CASE \E o \in Outputs : WasiWrite(o)
    <3>1. PICK o \in Outputs : WasiWrite(o)
      BY <2>1
    <3>2. o \in Seq(Byte) /\ o # <<>>
      BY WritesType
    <3>3. Write(o) /\ quiet' = FALSE
      BY <3>1 DEF WasiWrite
    <3> QED
      BY <3>2, <3>3, WriteEffect DEF PInv, TypeOK, ReadInv
  <2>2. CASE \E n \in 1..MaxSize : WasiRead(n)
    <3>1. PICK asked \in 1..MaxSize : WasiRead(asked)
      BY <2>2
    <3> DEFINE n == Smaller(asked, Rest(buffer, pos))
    <3>2. /\ n > 0 /\ pos' = pos + n /\ quiet' = FALSE
          /\ UNCHANGED <<buffer, wasi, reading, got, poisoned, start, log, rewound>>
      BY <3>1 DEF WasiRead
    <3>3. pos + n \in 0..MaxSize /\ ~(pos = Len(buffer))
      BY <3>2, MoveEffect, SizeType DEF PInv
    <3>4. tidy' \in BOOLEAN
      BY <3>1, Zenon DEF WasiRead
    <3> HIDE DEF n
    <3> QED
      BY <3>2, <3>3, <3>4 DEF PInv, TypeOK, KeepsOutput, ReadInv
  <2> QED
    BY <1>5, <2>1, <2>2 DEF Wasi
<1> QED
  BY <1>1, <1>2, <1>3, <1>4, <1>5

\* The invariant at the start and in every step.
LEMMA InitPipe == Init => PInv
<1> SUFFICES ASSUME Init PROVE PInv
  OBVIOUS
<1>1. <<>> \in Seq(Byte) /\ Len(<<>>) = 0
  BY EmptySeq
<1>2. /\ buffer \in Seq(Byte) /\ Len(buffer) = 0 /\ got \in Seq(Byte) /\ log \in Seq(Byte)
      /\ pos = 0 /\ start = 0 /\ buffer = log
  BY <1>1 DEF Init
<1>4. /\ wasi \in BOOLEAN /\ reading \in BOOLEAN /\ poisoned \in BOOLEAN
      /\ quiet \in BOOLEAN /\ rewound \in BOOLEAN /\ tidy \in BOOLEAN
  BY Zenon DEF Init
<1>5. TypeOK
  BY <1>2, <1>4, SizeType DEF TypeOK
<1>6. KeepsOutput
  BY <1>2 DEF KeepsOutput
<1>3. ReadInv
  BY DEF Init, ReadInv
<1> QED
  BY <1>3, <1>5, <1>6 DEF PInv

\* Every step preserves the invariant, action by action.
LEMMA NextPipe == PInv /\ [Next]_vars => PInv'
<1> SUFFICES ASSUME PInv, [Next]_vars PROVE PInv'
  OBVIOUS
<1>1. CASE UNCHANGED vars
  BY <1>1 DEF vars, PInv, TypeOK, KeepsOutput, ReadInv
<1>2. CASE Next
  BY <1>2, ReadChunkKeeps, BeginReadKeeps, OthersKeep DEF Next, Host
<1> QED
  BY <1>1, <1>2

\* The invariant of every state.
THEOREM PipeInvariant == Spec => []PInv
BY InitPipe, NextPipe, PTL DEF Spec

-----------------------------------------------------------------------------
(* The theorems.                                                            *)

\* Buffer and cursor keep their types and bounds, gaps and overwriting included.
THEOREM PipeTypes == Spec => []TypeOK
<1>1. PInv => TypeOK
  BY DEF PInv
<1> QED
  BY <1>1, PipeInvariant, PTL

\* Until the host seeks, the pipe holds all output in order, although host and
\* Wasm write at the cursor that reading moves (pipe.rs:50-61, 83-97).
THEOREM OutputKept == Spec => []KeepsOutput
<1>1. PInv => KeepsOutput
  BY DEF PInv
<1> QED
  BY <1>1, PipeInvariant, PTL

\* The end of an undisturbed read, in however many chunks (pipe.rs:144).
LEMMA EndOfRead ==
  ASSUME PInv, [Next]_vars, reading, ~reading', quiet
  PROVE  got = From(buffer, start) /\ pos' >= Len(buffer)
<1>1. EndRead
  BY DEF Next, vars, Host, Wasi, AddPipe, HostWrite, HostSeek, HostFree, BeginRead, ReadChunk,
         WasiWrite, WasiRead, Write
<1>2. /\ buffer \in Seq(Byte) /\ pos \in Nat /\ start \in Nat /\ Len(buffer) \in Nat
  BY LenProperties, SizeType DEF PInv, TypeOK
<1>3. pos' = pos /\ pos >= Len(buffer)
  BY <1>1, <1>2, RestType DEF EndRead
<1>4. start <= pos /\ got = SubSeq(buffer, start + 1, pos) /\ (pos <= Len(buffer) \/ pos = start)
  BY DEF PInv, ReadInv
<1>5. CASE pos = Len(buffer)
  BY <1>3, <1>4, <1>5 DEF From
<1>6. CASE pos = start /\ pos > Len(buffer)
  <2>1. got = <<>> /\ SubSeq(buffer, start + 1, Len(buffer)) = <<>>
    BY <1>2, <1>4, <1>6, SubSeqEmpty
  <2> QED
    BY <1>3, <2>1 DEF From
<1> QED
  BY <1>2, <1>3, <1>4, <1>5, <1>6

\* Reads return what is left from the cursor on, whatever the chunks.
THEOREM WholeReads == Spec => ReadsTheRest
<1>1. PInv /\ [Next]_vars
        => [reading /\ ~reading' /\ quiet => got = From(buffer, start) /\ pos' >= Len(buffer)]_vars
  BY EndOfRead
<1> QED
  BY <1>1, PipeInvariant, PTL DEF Spec, ReadsTheRest

\* While the host reads, no step adds to what it has to read.
LEMMA Shorter ==
  ASSUME PInv, [Next]_vars, reading
  PROVE  Rest(buffer', pos') <= Rest(buffer, pos)
<1>1. /\ buffer \in Seq(Byte) /\ pos \in Nat /\ Len(buffer) \in Nat /\ MaxSize \in Nat
  BY LenProperties, SizeType DEF PInv, TypeOK
<1>2. Rest(buffer, pos) \in Nat
  BY <1>1, RestType
<1>3. CASE UNCHANGED <<buffer, pos>>
  BY <1>2, <1>3
<1>4. ASSUME NEW n \in Nat, buffer' = buffer, pos' = pos + n
      PROVE  Rest(buffer', pos') <= Rest(buffer, pos)
  BY <1>1, <1>4 DEF Rest, Larger
<1>5. CASE ReadChunk
  <2> DEFINE n == Smaller(Chunk, Rest(buffer, pos))
  <2>1. buffer' = buffer /\ pos' = pos + n
    BY <1>5 DEF ReadChunk
  <2>2. n \in Nat
    BY <1>2, SizeType DEF Smaller
  <2> QED
    BY <1>4, <2>1, <2>2
<1>6. ASSUME NEW o \in Outputs, WasiWrite(o)
      PROVE  Rest(buffer', pos') <= Rest(buffer, pos)
  <2>1. o \in Seq(Byte) /\ Len(o) \in Nat
    BY WritesType, LenProperties
  <2>2. buffer' = Written(buffer, pos, o) /\ pos' = pos + Len(o)
    BY <1>6 DEF WasiWrite, Write
  <2>3. Len(buffer') = Larger(Len(buffer), pos + Len(o))
    BY <1>1, <2>1, <2>2, WrittenType
  <2> QED
    BY <1>1, <2>1, <2>2, <2>3 DEF Rest, Larger
<1>7. ASSUME NEW asked \in 1..MaxSize, WasiRead(asked)
      PROVE  Rest(buffer', pos') <= Rest(buffer, pos)
  <2> DEFINE n == Smaller(asked, Rest(buffer, pos))
  <2>1. buffer' = buffer /\ pos' = pos + n
    BY <1>7 DEF WasiRead
  <2>2. n \in Nat
    BY <1>1, <1>2 DEF Smaller
  <2> QED
    BY <1>4, <2>1, <2>2
<1>8. CASE EndRead
  BY <1>3, <1>8 DEF EndRead
<1> QED
  BY <1>3, <1>5, <1>6, <1>7, <1>8
     DEF Next, vars, Host, Wasi, AddPipe, HostWrite, HostSeek, HostFree, BeginRead

\* A read of the host ends, however much Wasm writes meanwhile (pipe.rs:83-97).
THEOREM ReadsEnd == Spec => ReadGetsShorter
<1>1. PInv /\ [Next]_vars => [reading => Rest(buffer', pos') <= Rest(buffer, pos)]_vars
  BY Shorter
<1> QED
  BY <1>1, PipeInvariant, PTL DEF Spec, ReadGetsShorter

-----------------------------------------------------------------------------
(* Reading a tidy pipe does not panic.                                      *)

\* The beginning of a text: UTF-8, but for a last character that may be cut.
Opens(s) ==
  \A i \in 1..Len(s) : /\ s[i] = "lead" /\ i < Len(s) => s[i + 1] = "tail"
                       /\ s[i] = "tail" => i > 1 /\ s[i - 1] = "lead"

\* The byte before position p is the first half of a character.
CutAt(s, p) == p \in 1..Len(s) /\ s[p] = "lead"

\* As long as the pipe is tidy it holds a text, and a read has cut the last
\* character of what it got exactly when the cursor is inside a character.
TidyInv ==
  tidy => /\ IsUtf8(buffer) /\ ~poisoned
          /\ ~reading => ~CutAt(buffer, pos)
          /\ reading => /\ Opens(got)
                        /\ CutAt(got, Len(got)) <=> CutAt(buffer, pos)

\* A text is the beginning of one that is not cut.
LEMMA NotCut ==
  ASSUME NEW s \in Seq(Byte), Opens(s), ~CutAt(s, Len(s))
  PROVE  IsUtf8(s)
<1>1. Len(s) \in Nat
  BY LenProperties
<1> QED
  BY <1>1 DEF Opens, CutAt, IsUtf8

\* A text does not end in half a character, and neither does its part up to a
\* position that is not inside one.
LEMMA WholeIsNotCut ==
  ASSUME NEW s \in Seq(Byte), NEW p \in Nat, IsUtf8(SubSeq(s, 1, Smaller(p, Len(s))))
  PROVE  ~CutAt(s, p)
<1> SUFFICES ASSUME p \in 1..Len(s), s[p] = "lead" PROVE FALSE
  BY DEF CutAt
<1>1. Len(s) \in Nat /\ Smaller(p, Len(s)) = p
  BY LenProperties DEF Smaller
<1>2. \A i \in 1..p : s[i] \in Byte
  BY <1>1, ElementOfSeq
<1>3. Len(SubSeq(s, 1, p)) = p /\ SubSeq(s, 1, p)[p] = s[p]
  BY <1>1, <1>2, SubSeqProperties
<1> QED
  BY <1>1, <1>3 DEF IsUtf8

\* At or after the end of a text no character is cut.
LEMMA EndIsNotCut ==
  ASSUME NEW s \in Seq(Byte), NEW p \in Nat, IsUtf8(s), p >= Len(s)
  PROVE  ~CutAt(s, p)
<1>1. Len(s) \in Nat
  BY LenProperties
<1> QED
  BY <1>1 DEF CutAt, IsUtf8

\* A text written at or after the end of a text gives a text.
LEMMA WriteAfterEnd ==
  ASSUME NEW b \in Seq(Byte), NEW p \in Nat, NEW bytes \in Seq(Byte),
         p >= Len(b), IsUtf8(b), IsUtf8(bytes)
  PROVE  IsUtf8(Written(b, p, bytes))
<1> DEFINE w == Written(b, p, bytes)
           n == p + Len(bytes)
<1>1. Len(b) \in Nat /\ Len(bytes) \in Nat /\ n \in Nat
  BY LenProperties
<1>2. Larger(Len(b), n) = n
  BY <1>1 DEF Larger
<1>3. Len(w) = n
  BY <1>2, WrittenType
<1>4. w = [i \in 1..n |-> IF i \in p + 1..n THEN bytes[i - p]
                          ELSE IF i <= Len(b) THEN b[i] ELSE "zero"]
  BY <1>2 DEF Written
<1>5. ASSUME NEW i \in 1..n
      PROVE  /\ i > p => i - p \in 1..Len(bytes) /\ w[i] = bytes[i - p]
             /\ i <= p /\ i > Len(b) => w[i] = "zero"
             /\ i <= Len(b) => i \in 1..Len(b) /\ w[i] = b[i]
  BY <1>1, <1>4
<1> HIDE DEF w
<1>6. ASSUME NEW i \in 1..n, w[i] = "lead" PROVE i < n /\ w[i + 1] = "tail"
  <2>1. CASE i <= Len(b)
    <3>1. i < Len(b) /\ b[i + 1] = "tail"
      BY <1>5, <1>6, <2>1 DEF IsUtf8
    <3>2. i + 1 \in 1..n /\ i + 1 <= Len(b)
      BY <1>1, <3>1
    <3> QED
      BY <1>1, <1>5, <3>1, <3>2
  <2>2. CASE i > p
    <3>1. i - p < Len(bytes) /\ bytes[(i - p) + 1] = "tail"
      BY <1>5, <1>6, <2>2 DEF IsUtf8
    <3>2. i + 1 \in 1..n /\ i + 1 > p /\ (i + 1) - p = (i - p) + 1
      BY <1>1, <2>2, <3>1
    <3> QED
      BY <1>1, <1>5, <3>1, <3>2
  <2> QED
    BY <1>1, <1>5, <1>6, <2>1, <2>2
<1>7. ASSUME NEW i \in 1..n, w[i] = "tail" PROVE i > 1 /\ w[i - 1] = "lead"
  <2>1. CASE i <= Len(b)
    <3>1. i > 1 /\ b[i - 1] = "lead"
      BY <1>5, <1>7, <2>1 DEF IsUtf8
    <3>2. i - 1 \in 1..n /\ i - 1 <= Len(b)
      BY <1>1, <2>1, <3>1
    <3> QED
      BY <1>5, <3>1, <3>2
  <2>2. CASE i > p
    <3>1. i - p > 1 /\ bytes[(i - p) - 1] = "lead"
      BY <1>5, <1>7, <2>2 DEF IsUtf8
    <3>2. i - 1 \in 1..n /\ i - 1 > p /\ (i - 1) - p = (i - p) - 1
      BY <1>1, <2>2, <3>1
    <3> QED
      BY <1>1, <1>5, <3>1, <3>2
  <2> QED
    BY <1>1, <1>5, <1>7, <2>1, <2>2
<1> QED
  BY <1>3, <1>6, <1>7 DEF IsUtf8, w

\* A chunk of a text continues the beginning of a text that was got before it.
LEMMA ChunkOpens ==
  ASSUME NEW b \in Seq(Byte), NEW g \in Seq(Byte), NEW p \in Nat, NEW q \in p + 1..Len(b),
         IsUtf8(b), Opens(g), CutAt(g, Len(g)) <=> CutAt(b, p)
  PROVE  LET h == g \o SubSeq(b, p + 1, q)
         IN  Opens(h) /\ (CutAt(h, Len(h)) <=> CutAt(b, q))
<1> DEFINE c == SubSeq(b, p + 1, q)
           h == g \o c
           k == Len(g)
<1>1. k \in Nat /\ Len(b) \in Nat /\ q \in Nat
  BY LenProperties
<1>2. \A i \in p + 1..q : b[i] \in Byte
  BY <1>1, ElementOfSeq
<1>3. c \in Seq(Byte) /\ Len(c) = q - p /\ \A i \in 1..q - p : c[i] = b[p + i]
  <2>1. Len(c) = q - p /\ \A i \in 1..(q - (p + 1)) + 1 : c[i] = b[(p + 1) + i - 1]
    BY <1>1, <1>2, SubSeqProperties
  <2>2. c \in Seq(Byte)
    BY <1>1, <1>2, SubSeqProperties
  <2>3. ASSUME NEW i \in 1..q - p PROVE c[i] = b[p + i]
    <3>1. i \in 1..(q - (p + 1)) + 1 /\ (p + 1) + i - 1 = p + i
      BY <1>1
    <3> QED
      BY <2>1, <3>1
  <2> QED
    BY <2>1, <2>2, <2>3
<1> HIDE DEF c
<1>4. Len(h) = k + (q - p)
  BY <1>3, ConcatProperties
<1>5. \A i \in 1..k : h[i] = g[i]
  BY <1>1, <1>3, ConcatProperties
<1>6. ASSUME NEW i \in p + 1..q PROVE h[k + (i - p)] = b[i]
  <2>1. k + (i - p) \in 1..k + (q - p) /\ k + (i - p) > k /\ i - p \in 1..q - p
        /\ (k + (i - p)) - k = i - p /\ p + (i - p) = i
    BY <1>1
  <2>2. h[k + (i - p)] = c[(k + (i - p)) - k]
    BY <1>1, <1>3, <2>1, ConcatProperties
  <2> QED
    BY <1>3, <2>1, <2>2
<1> HIDE DEF h, k
<1>7. CutAt(h, Len(h)) <=> CutAt(b, q)
  BY <1>1, <1>4, <1>6 DEF CutAt
<1>8. ASSUME NEW i \in 1..Len(h), h[i] = "lead", i < Len(h) PROVE h[i + 1] = "tail"
  <2>1. CASE i < k
    BY <1>1, <1>5, <1>8, <2>1 DEF Opens, k
  <2>2. CASE i = k
    <3>1. CutAt(g, k)
      BY <1>1, <1>5, <1>8, <2>2 DEF CutAt, k
    <3>2. p \in 1..Len(b) /\ b[p] = "lead"
      BY <3>1 DEF CutAt, k
    <3>3. b[p + 1] = "tail" /\ p + 1 \in p + 1..q /\ k + ((p + 1) - p) = i + 1
      BY <1>1, <2>2, <3>2 DEF IsUtf8
    <3> QED
      BY <1>6, <3>3
  <2>3. CASE i > k
    <3> DEFINE j == p + (i - k)
    <3>1. j \in p + 1..q /\ j + 1 \in p + 1..q /\ j \in 1..Len(b)
          /\ k + (j - p) = i /\ k + ((j + 1) - p) = i + 1
      BY <1>1, <1>4, <1>8, <2>3
    <3> HIDE DEF j
    <3>2. b[j] = "lead"
      BY <1>6, <1>8, <3>1
    <3>3. b[j + 1] = "tail"
      BY <3>1, <3>2 DEF IsUtf8
    <3> QED
      BY <1>6, <3>1, <3>3
  <2> QED
    BY <1>1, <2>1, <2>2, <2>3
<1>9. ASSUME NEW i \in 1..Len(h), h[i] = "tail" PROVE i > 1 /\ h[i - 1] = "lead"
  <2>1. CASE i <= k
    <3>1. i > 1 /\ g[i - 1] = "lead"
      BY <1>1, <1>5, <1>9, <2>1 DEF Opens, k
    <3> QED
      BY <1>1, <1>5, <2>1, <3>1
  <2>2. CASE i > k
    <3> DEFINE j == p + (i - k)
    <3>1. j \in p + 1..q /\ j \in 1..Len(b) /\ k + (j - p) = i /\ j - 1 \in Nat
      BY <1>1, <1>4, <2>2
    <3>2. j = p + 1 => i = k + 1
      BY <1>1
    <3>3. j # p + 1 => j - 1 \in p + 1..q /\ k + ((j - 1) - p) = i - 1 /\ i > 1
      BY <1>1, <3>1
    <3> HIDE DEF j
    <3>4. b[j] = "tail"
      BY <1>6, <1>9, <3>1
    <3>5. j > 1 /\ b[j - 1] = "lead"
      BY <3>1, <3>4 DEF IsUtf8
    <3>6. CASE j = p + 1
      <4>1. CutAt(b, p)
        BY <1>1, <3>1, <3>5, <3>6 DEF CutAt
      <4>2. k \in 1..k /\ g[k] = "lead"
        BY <4>1 DEF CutAt, k
      <4> QED
        BY <1>1, <1>5, <3>2, <3>6, <4>2
    <3>7. CASE j # p + 1
      BY <1>6, <3>3, <3>5, <3>7
    <3> QED
      BY <3>6, <3>7
  <2> QED
    BY <1>1, <2>1, <2>2
<1>10. Opens(h)
  BY <1>8, <1>9 DEF Opens
<1> QED
  BY <1>7, <1>10 DEF h, c

\* A write of the host or of Wasm that leaves the pipe tidy.
LEMMA TidyWrite ==
  ASSUME PInv, TidyInv, NEW bytes \in Seq(Byte), Write(bytes), tidy'
  PROVE  /\ tidy /\ IsUtf8(buffer') /\ ~CutAt(buffer, pos) /\ ~CutAt(buffer', pos')
         /\ UNCHANGED <<reading, got, poisoned>>
<1>1. /\ tidy /\ IsUtf8(bytes) /\ pos >= Len(buffer)
      /\ buffer' = Written(buffer, pos, bytes) /\ pos' = pos + Len(bytes)
      /\ UNCHANGED <<reading, got, poisoned>>
  BY Zenon DEF Write
<1>2. /\ buffer \in Seq(Byte) /\ pos \in Nat /\ Len(buffer) \in Nat /\ Len(bytes) \in Nat
  BY LenProperties, SizeType DEF PInv, TypeOK
<1>3. IsUtf8(buffer) /\ ~CutAt(buffer, pos)
  BY <1>1, <1>2, EndIsNotCut DEF TidyInv
<1>4. IsUtf8(buffer') /\ buffer' \in Seq(Byte) /\ Len(buffer') = Larger(Len(buffer), pos')
  BY <1>1, <1>2, <1>3, WriteAfterEnd, WrittenType
<1>5. pos' \in Nat /\ pos' >= Len(buffer')
  BY <1>1, <1>2, <1>4 DEF Larger
<1>6. ~CutAt(buffer', pos')
  BY <1>4, <1>5, EndIsNotCut
<1> QED
  BY <1>1, <1>3, <1>4, <1>6

\* Every step keeps a tidy pipe readable.
LEMMA NextTidy == ASSUME PInv, TidyInv, [Next]_vars PROVE TidyInv'
<1> SUFFICES ASSUME tidy'
             PROVE  /\ IsUtf8(buffer') /\ ~poisoned'
                    /\ ~reading' => ~CutAt(buffer', pos')
                    /\ reading' => /\ Opens(got')
                                   /\ CutAt(got', Len(got')) <=> CutAt(buffer', pos')
  BY DEF TidyInv
<1>1. /\ buffer \in Seq(Byte) /\ got \in Seq(Byte) /\ pos \in Nat /\ Len(buffer) \in Nat
      /\ MaxSize \in Nat
  BY LenProperties, SizeType DEF PInv, TypeOK
<1>2. CASE AddPipe \/ UNCHANGED vars
  <2>1. UNCHANGED <<buffer, pos, reading, got, poisoned, tidy>>
    BY <1>2 DEF AddPipe, vars
  <2>2. tidy /\ IsUtf8(buffer')
    BY <2>1 DEF TidyInv
  <2> QED
    BY <2>1, <2>2 DEF TidyInv
<1>3. ASSUME NEW s \in Strings, HostWrite(s) PROVE TidyInv'
  <2>1. s \in Seq(Byte) /\ Write(s) /\ ~reading /\ ~poisoned
    BY <1>3, WritesType DEF HostWrite, HostFree
  <2> QED
    BY <2>1, TidyWrite DEF TidyInv
<1>4. ASSUME NEW p \in 0..MaxSize, HostSeek(p) PROVE TidyInv'
  <2>1. /\ tidy /\ Whole(p) /\ pos' = p /\ ~reading
        /\ UNCHANGED <<buffer, reading, got, poisoned>>
    BY <1>4, Zenon DEF HostSeek, HostFree
  <2>2. ~CutAt(buffer, p)
    BY <1>1, <2>1, WholeIsNotCut DEF Whole
  <2> QED
    BY <2>1, <2>2 DEF TidyInv
<1>5. CASE BeginRead
  <2>1. /\ tidy /\ ~reading /\ reading' = TRUE /\ got' = <<>>
        /\ UNCHANGED <<buffer, pos, poisoned>>
    BY <1>5 DEF BeginRead, HostFree
  <2>2. Opens(<<>>) /\ ~CutAt(<<>>, Len(<<>>))
    BY EmptySeq DEF Opens, CutAt
  <2> QED
    BY <2>1, <2>2 DEF TidyInv
<1>6. CASE ReadChunk
  <2> DEFINE n == Smaller(Chunk, Rest(buffer, pos))
  <2>1. /\ reading /\ n > 0 /\ pos' = pos + n /\ tidy
        /\ got' = got \o SubSeq(buffer, pos + 1, pos + n)
        /\ UNCHANGED <<buffer, reading, poisoned>>
    BY <1>6 DEF ReadChunk
  <2>2. pos + n \in pos + 1..Len(buffer)
    BY <2>1, MoveEffect, SizeType DEF PInv
  <2> HIDE DEF n
  <2>3. IsUtf8(buffer) /\ ~poisoned /\ Opens(got)
        /\ (CutAt(got, Len(got)) <=> CutAt(buffer, pos))
    BY <2>1 DEF TidyInv
  <2>4. Opens(got') /\ (CutAt(got', Len(got')) <=> CutAt(buffer, pos + n))
    BY <1>1, <2>1, <2>2, <2>3, ChunkOpens
  <2> QED
    BY <2>1, <2>3, <2>4
<1>7. CASE EndRead
  <2>1. /\ reading /\ Rest(buffer, pos) = 0 /\ reading' = FALSE /\ poisoned' = ~IsUtf8(got)
        /\ UNCHANGED <<buffer, pos, tidy>>
    BY <1>7, Zenon DEF EndRead
  <2>2. IsUtf8(buffer) /\ Opens(got) /\ (CutAt(got, Len(got)) <=> CutAt(buffer, pos))
    BY <2>1 DEF TidyInv
  <2>3. ~CutAt(buffer, pos)
    BY <1>1, <2>1, <2>2, RestType, EndIsNotCut
  <2>4. IsUtf8(got)
    BY <1>1, <2>2, <2>3, NotCut
  <2> QED
    BY <2>1, <2>2, <2>3, <2>4
<1>8. ASSUME NEW o \in Outputs, WasiWrite(o) PROVE TidyInv'
  <2>1. o \in Seq(Byte) /\ Write(o)
    BY <1>8, WritesType DEF WasiWrite
  <2> QED
    BY <2>1, TidyWrite DEF TidyInv
<1>9. ASSUME NEW asked \in 1..MaxSize, WasiRead(asked) PROVE TidyInv'
  <2> DEFINE n == Smaller(asked, Rest(buffer, pos))
  <2>1. /\ n > 0 /\ pos' = pos + n /\ tidy /\ Whole(pos) /\ Whole(pos + n)
        /\ UNCHANGED <<buffer, reading, got, poisoned>>
    BY <1>9, Zenon DEF WasiRead
  <2>2. pos + n \in Nat
    BY <1>1, <2>1, MoveEffect, SizeType DEF PInv
  <2>3. ~CutAt(buffer, pos) /\ ~CutAt(buffer, pos + n)
    BY <1>1, <2>1, <2>2, WholeIsNotCut DEF Whole
  <2> QED
    BY <2>1, <2>3 DEF TidyInv
<1> QED
  BY <1>2, <1>3, <1>4, <1>5, <1>6, <1>7, <1>8, <1>9 DEF Next, Host, Wasi, TidyInv

\* Reading panics only after a character was split or overwritten, however the
\* chunks of the host and the reads and writes of Wasm interleave (pipe.rs:144).
THEOREM TidyReads == Spec => []TidyNeverPanics
<1>1. Init => TidyInv
  <2> SUFFICES ASSUME Init PROVE TidyInv
    OBVIOUS
  <2>1. buffer = <<>> /\ pos = 0 /\ reading = FALSE /\ poisoned = FALSE
    BY DEF Init
  <2>2. IsUtf8(<<>>) /\ ~CutAt(<<>>, 0)
    BY EmptySeq DEF IsUtf8, CutAt
  <2> QED
    BY <2>1, <2>2 DEF TidyInv
<1>2. PInv /\ TidyInv /\ [Next]_vars => TidyInv'
  BY NextTidy
<1>3. TidyInv => TidyNeverPanics
  BY DEF TidyInv, TidyNeverPanics
<1> QED
  BY <1>1, <1>2, <1>3, PipeInvariant, PTL DEF Spec
=============================================================================
