------------------------------- MODULE Buffer --------------------------------
(* net/Buffer.h and net/Buffer.cpp: a vector of bytes with a reader's and a   *)
(* writer's index, which makes room by moving the readable bytes to the front *)
(* or by growing, and readv's second half in a buffer on the stack.           *)
(* kCheapPrepend is 0 in the code.                                            *)
EXTENDS Naturals, Sequences

CONSTANTS
    Bytes,          \* values of a byte
    Fill,           \* the byte that resize fills with
    InitSize,       \* KInitSize
    ExtraBufSize,   \* size of readFd's buffer on the stack
    MaxLength,      \* bound: bytes of one append or read
    MaxReadable     \* bound: bytes in the buffer at one time

ASSUME BufferAssumption ==
    /\ {InitSize, ExtraBufSize, MaxLength, MaxReadable} \subseteq Nat
    /\ Fill \in Bytes

VARIABLES
    data,       \* buffer_
    readerIdx,
    writerIdx,
    moved       \* history: bytes appended or returned by the last operation

vars == <<data, readerIdx, writerIdx, moved>>

Init ==
    /\ data = [i \in 1..InitSize |-> Fill]
    /\ readerIdx = 0
    /\ writerIdx = 0
    /\ moved = << >>

Between(low, high) == SubSeq(data, low + 1, high)
Readable == Between(readerIdx, writerIdx)
ReadableBytes == writerIdx - readerIdx
WritableBytes == Len(data) - writerIdx
PrependableBytes == readerIdx

(* std::copy of bytes to position pos of s, and vector::resize.               *)
Copied(s, pos, bytes) ==
    [i \in 1..Len(s) |-> IF i > pos /\ i <= pos + Len(bytes) THEN bytes[i - pos] ELSE s[i]]
Resized(s, n) == [i \in 1..n |-> IF i <= Len(s) THEN s[i] ELSE Fill]

(* Mutant: the vector always grows.                                           *)
CanMoveNever(s, reader, writer, len) == FALSE

(* append to s, whose bytes from reader up to writer are readable.            *)
CanMove(s, reader, writer, len) == (Len(s) - writer) + reader >= len

AppendTo(s, reader, writer, bytes) ==
    LET len      == Len(bytes)
        readable == writer - reader
    IN  CASE Len(s) - writer >= len ->
               /\ data' = Copied(s, writer, bytes)
               /\ readerIdx' = reader
               /\ writerIdx' = writer + len
          [] Len(s) - writer < len /\ CanMove(s, reader, writer, len) ->
               /\ data' = Copied(Copied(s, 0, SubSeq(s, reader + 1, writer)), readable, bytes)
               /\ readerIdx' = 0
               /\ writerIdx' = readable + len
          [] OTHER ->
               /\ data' = Copied(Resized(s, writer + len), writer, bytes)
               /\ readerIdx' = reader
               /\ writerIdx' = writer + len

Fits(bytes) == ReadableBytes + Len(bytes) <= MaxReadable

AppendBytes(bytes) ==
    /\ Fits(bytes)
    /\ AppendTo(data, readerIdx, writerIdx, bytes)
    /\ moved' = bytes

(* readFd: readv fills the writable space first and then the stack's buffer,  *)
(* which is left out when the writable space is at least as large.            *)
ReadvRoom == WritableBytes + IF WritableBytes < ExtraBufSize THEN ExtraBufSize ELSE 0

(* Mutant: the stack's buffer is appended without moving the writer's index   *)
(* to the end of the vector first.                                            *)
ReadFdOverwrites(bytes) ==
    /\ Fits(bytes)
    /\ Len(bytes) <= ReadvRoom
    /\ LET n      == Len(bytes)
           filled == Copied(data, writerIdx, bytes)
       IN  IF n <= WritableBytes
           THEN data' = filled /\ writerIdx' = writerIdx + n /\ UNCHANGED readerIdx
           ELSE AppendTo(filled, readerIdx, writerIdx, SubSeq(bytes, WritableBytes + 1, n))
    /\ moved' = bytes

ReadFd(bytes) ==
    /\ Fits(bytes)
    /\ Len(bytes) <= ReadvRoom
    /\ LET n      == Len(bytes)
           filled == Copied(data, writerIdx, bytes)
       IN  IF n <= WritableBytes
           THEN /\ data' = filled
                /\ writerIdx' = writerIdx + n
                /\ UNCHANGED readerIdx
           ELSE AppendTo(filled, readerIdx, Len(data), SubSeq(bytes, WritableBytes + 1, n))
    /\ moved' = bytes

(* retrieve; retrieveAll is retrieve of everything.                           *)
Retrieve(n) ==
    /\ n \in 0..ReadableBytes
    /\ IF n < ReadableBytes
       THEN readerIdx' = readerIdx + n /\ UNCHANGED writerIdx
       ELSE readerIdx' = 0 /\ writerIdx' = 0
    /\ UNCHANGED data

RetrieveAsString(n) ==
    /\ Retrieve(n)
    /\ moved' = Between(readerIdx, readerIdx + n)

Messages == UNION {[1..n -> Bytes] : n \in 0..MaxLength}

Next ==
    \/ \E bytes \in Messages : AppendBytes(bytes)
    \/ \E bytes \in Messages : ReadFd(bytes)
    \/ \E n \in 0..MaxReadable : RetrieveAsString(n)
    \/ \E n \in 0..MaxReadable : Retrieve(n) /\ moved' = << >>

Spec == Init /\ [][Next]_vars

-----------------------------------------------------------------------------
(* Properties                                                                 *)

(* The indices stay in order and inside the vector, through every move and    *)
(* growth; the vector never shrinks below its first size.                     *)
IndexInv ==
    /\ data \in Seq(Bytes)
    /\ readerIdx \in Nat /\ writerIdx \in Nat
    /\ readerIdx <= writerIdx /\ writerIdx <= Len(data)
    /\ InitSize <= Len(data)
    /\ moved \in Seq(Bytes)

(* The vector grows in place of moving only when moving would not make room,  *)
(* so what a connection holds is bounded by its backlog and one message more, *)
(* whatever sequence of appends and retrievals led there.                     *)
CapacityBound ==
    /\ IndexInv
    /\ Len(data) <= InitSize \/ Len(data) < MaxReadable + MaxLength

Fifo == INSTANCE ByteFifo WITH queue <- Readable

(* The buffer is a queue of bytes.                                            *)
ImplementsFifo == Fifo!Spec
=============================================================================
