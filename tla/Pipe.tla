--------------------------------- MODULE Pipe ---------------------------------
(***************************************************************************)
(* A Wasmex.Pipe (native/wasmex/src/pipe.rs): a byte vector with one       *)
(* cursor, shared by the host and by the WASI context of a store, which    *)
(* holds a clone of the Arc (store.rs: add_pipe).  Every operation of the  *)
(* cursor is atomic under an RwLock.  The NIFs of the host also hold the   *)
(* mutex of the resource, read_to_string over all of its reads; Wasm only  *)
(* takes the RwLock.                                                       *)
(***************************************************************************)
EXTENDS Integers, Sequences

CONSTANTS
  MaxSize,    \* bound on the buffer and on seek
  Chunk,      \* bytes read_to_string asks for at a time
  Strings,    \* what the host writes
  Outputs     \* what Wasm writes

\* A byte is a character, the first or the second half of one, or a zero of
\* the padding.
Byte == {"char", "lead", "tail", "zero"}

ASSUME SizeType   == MaxSize \in Nat /\ Chunk \in Nat \ {0}
ASSUME WritesType == Strings \subseteq Seq(Byte) \ {<<>>} /\ Outputs \subseteq Seq(Byte) \ {<<>>}

VARIABLES
  buffer, pos,   \* the Cursor
  wasi,          \* a WASI context has the pipe
  reading,       \* the host is in read_to_string
  got,           \* the bytes it has read
  poisoned,      \* the mutex of the resource
  start, quiet,  \* history: where the read began, and that it ran undisturbed
  log, rewound,  \* history: all bytes written, and whether the host has sought
  tidy           \* history: characters were never split or overwritten

vars == <<buffer, pos, wasi, reading, got, poisoned, start, quiet, log, rewound, tidy>>

IsUtf8(bytes) ==
  \A i \in 1..Len(bytes) :
    /\ bytes[i] = "lead" => i < Len(bytes) /\ bytes[i + 1] = "tail"
    /\ bytes[i] = "tail" => i > 1 /\ bytes[i - 1] = "lead"

Larger(m, n)  == IF m > n THEN m ELSE n
Smaller(m, n) == IF m < n THEN m ELSE n
Rest(b, p)  == Larger(Len(b) - p, 0)
From(b, p)  == SubSeq(b, p + 1, Len(b))
Whole(p)    == IsUtf8(SubSeq(buffer, 1, Smaller(p, Len(buffer))))

\* Writing replaces what is at the cursor; a gap before it is filled with zeros.
Written(b, p, bytes) ==
  [i \in 1..Larger(Len(b), p + Len(bytes)) |->
     IF i \in p + 1..p + Len(bytes) THEN bytes[i - p]
     ELSE IF i <= Len(b) THEN b[i] ELSE "zero"]

Init ==
  /\ buffer = <<>> /\ pos = 0 /\ wasi = FALSE
  /\ reading = FALSE /\ got = <<>> /\ poisoned = FALSE
  /\ start = 0 /\ quiet = TRUE
  /\ log = <<>> /\ rewound = FALSE /\ tidy = TRUE

Write(bytes) ==
  /\ pos + Len(bytes) <= MaxSize /\ Len(log) + Len(bytes) <= MaxSize
  /\ buffer' = Written(buffer, pos, bytes)
  /\ pos' = pos + Len(bytes)
  /\ log' = log \o bytes
  /\ tidy' = (tidy /\ IsUtf8(bytes) /\ pos >= Len(buffer))
  /\ UNCHANGED <<wasi, reading, got, poisoned, start, rewound>>

\* A NIF of the host gets the mutex: nobody reads, no read has panicked.
HostFree == ~reading /\ ~poisoned

\* store_new_wasi clones the pipe under the mutex of the resource.
AddPipe ==
  /\ HostFree /\ ~wasi
  /\ wasi' = TRUE
  /\ UNCHANGED <<buffer, pos, reading, got, poisoned, start, quiet, log, rewound, tidy>>

HostWrite(s) == HostFree /\ Write(s) /\ UNCHANGED quiet

HostSeek(p) ==
  /\ HostFree
  /\ pos' = p
  /\ rewound' = TRUE
  /\ tidy' = (tidy /\ Whole(p))
  /\ UNCHANGED <<buffer, wasi, reading, got, poisoned, start, quiet, log>>

BeginRead ==
  /\ HostFree
  /\ reading' = TRUE /\ got' = <<>> /\ start' = pos /\ quiet' = TRUE
  /\ UNCHANGED <<buffer, pos, wasi, poisoned, log, rewound, tidy>>

\* Mutant: the cursor moves by what was asked for.
MutReadChunk ==
  /\ reading /\ Rest(buffer, pos) > 0
  /\ got' = got \o SubSeq(buffer, pos + 1, pos + Smaller(Chunk, Rest(buffer, pos)))
  /\ pos' = pos + Chunk
  /\ UNCHANGED <<buffer, wasi, reading, poisoned, start, quiet, log, rewound, tidy>>

\* One Read::read of read_to_string.
ReadChunk ==
  LET n == Smaller(Chunk, Rest(buffer, pos)) IN
  /\ reading /\ n > 0
  /\ got' = got \o SubSeq(buffer, pos + 1, pos + n)
  /\ pos' = pos + n
  /\ UNCHANGED <<buffer, wasi, reading, poisoned, start, quiet, log, rewound, tidy>>

\* Mutant: a read that returns less than was asked for is taken for the end.
MutEndRead ==
  /\ reading /\ (Rest(buffer, pos) = 0 \/ got # <<>>)
  /\ reading' = FALSE /\ got' = <<>>
  /\ poisoned' = ~IsUtf8(got)
  /\ UNCHANGED <<buffer, pos, wasi, start, quiet, log, rewound, tidy>>

\* A read of nothing ends it; unwrap panics on what is not UTF-8, with the mutex
\* of the resource held and the RwLock free.
EndRead ==
  /\ reading /\ Rest(buffer, pos) = 0
  /\ reading' = FALSE /\ got' = <<>>
  /\ poisoned' = ~IsUtf8(got)
  /\ UNCHANGED <<buffer, pos, wasi, start, quiet, log, rewound, tidy>>

\* Mutant: Wasm appends, as get_fdflags says, and leaves the cursor.
MutWasiWrite(bytes) ==
  /\ wasi /\ Len(log) + Len(bytes) <= MaxSize
  /\ buffer' = buffer \o bytes
  /\ log' = log \o bytes
  /\ quiet' = FALSE
  /\ UNCHANGED <<pos, wasi, reading, got, poisoned, start, rewound, tidy>>

\* write_vectored
WasiWrite(bytes) == wasi /\ Write(bytes) /\ quiet' = FALSE

\* read_vectored
WasiRead(asked) ==
  LET n == Smaller(asked, Rest(buffer, pos)) IN
  /\ wasi /\ n > 0
  /\ pos' = pos + n
  /\ quiet' = FALSE
  /\ tidy' = (tidy /\ Whole(pos) /\ Whole(pos + n))
  /\ UNCHANGED <<buffer, wasi, reading, got, poisoned, start, log, rewound>>

Host == AddPipe \/ (\E s \in Strings : HostWrite(s)) \/ (\E p \in 0..MaxSize : HostSeek(p))
          \/ BeginRead \/ ReadChunk \/ EndRead
Wasi == (\E o \in Outputs : WasiWrite(o)) \/ (\E n \in 1..MaxSize : WasiRead(n))
Next == Host \/ Wasi

Spec == Init /\ [][Next]_vars

-----------------------------------------------------------------------------
(* Properties.                                                              *)

\* Type invariant.
TypeOK ==
  /\ buffer \in Seq(Byte) /\ Len(buffer) <= MaxSize
  /\ pos \in 0..MaxSize
  /\ got \in Seq(Byte) /\ log \in Seq(Byte)
  /\ start \in 0..MaxSize
  /\ wasi \in BOOLEAN /\ reading \in BOOLEAN /\ poisoned \in BOOLEAN
  /\ quiet \in BOOLEAN /\ rewound \in BOOLEAN /\ tidy \in BOOLEAN

\* As long as the host does not seek, the pipe holds all that the host and Wasm
\* have written, in the order written, although both write at one cursor that
\* reading moves as well (pipe.rs:50-61, 83-97).
KeepsOutput == ~rewound => buffer = log /\ pos = Len(buffer)

\* A read the WASI side does not disturb returns the pipe from the cursor to the
\* end (pipe.ex: "Reads all available bytes", "forwards the read position to the
\* end"), in however many chunks (pipe.rs:144).
ReadsTheRest ==
  [][reading /\ ~reading' /\ quiet => got = From(buffer, start) /\ pos' >= Len(buffer)]_vars

\* A read of the host ends however much Wasm writes meanwhile: what is left to
\* read never grows, because a write moves the cursor of the reader as well
\* (pipe.rs:83-97; get_fdflags reports APPEND, the write is at the cursor).
ReadGetsShorter == [][reading => Rest(buffer', pos') <= Rest(buffer, pos)]_vars

\* Reading panics, and leaves the pipe unusable for the host (pipe.rs:144), only
\* after a character was split or overwritten: by a seek or a read of Wasm
\* into the middle of one, by output that is not UTF-8, or by a write that was
\* not at the end.  The chunks of read_to_string alone never do it.
TidyNeverPanics == tidy => ~poisoned
=============================================================================
