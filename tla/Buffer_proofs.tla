----------------------------- MODULE Buffer_proofs -----------------------------
(* Theorems of Buffer for any sizes and any set of bytes.                     *)
EXTENDS Buffer, Integers, SequenceTheorems, TLAPS

(* The bytes between two indices.                                             *)
Cut(s, low, high) == SubSeq(s, low + 1, high)

LEMMA CutProperties ==
    ASSUME NEW s \in Seq(Bytes), NEW low \in Nat, NEW high \in Nat,
           low <= high, high <= Len(s)
    PROVE  /\ Cut(s, low, high) \in Seq(Bytes)
           /\ Len(Cut(s, low, high)) = high - low
           /\ \A i \in 1..(high - low) : Cut(s, low, high)[i] = s[low + i]
  <1>1. Len(s) \in Nat /\ \A i \in (low + 1)..high : s[i] \in Bytes
    BY ElementOfSeq, LenProperties
  <1> QED
    BY <1>1, SubSeqProperties DEF Cut

(* std::copy and vector::resize.                                              *)
LEMMA CopiedProperties ==
    ASSUME NEW s \in Seq(Bytes), NEW bytes \in Seq(Bytes), NEW pos \in Nat
    PROVE  /\ Copied(s, pos, bytes) \in Seq(Bytes)
           /\ Len(Copied(s, pos, bytes)) = Len(s)
           /\ \A i \in 1..Len(s) :
                 Copied(s, pos, bytes)[i] =
                    IF i > pos /\ i <= pos + Len(bytes) THEN bytes[i - pos] ELSE s[i]
  <1>1. Len(s) \in Nat /\ Len(bytes) \in Nat
    BY LenProperties
  <1>2. ASSUME NEW i \in 1..Len(s)
        PROVE  (IF i > pos /\ i <= pos + Len(bytes) THEN bytes[i - pos] ELSE s[i]) \in Bytes
    <2>1. i > pos /\ i <= pos + Len(bytes) => bytes[i - pos] \in Bytes
      BY <1>1, ElementOfSeq
    <2> QED
      BY <2>1, ElementOfSeq
  <1>3. Copied(s, pos, bytes) \in [1..Len(s) -> Bytes]
    BY <1>2 DEF Copied
  <1> QED
    BY <1>1, <1>3 DEF Copied

LEMMA ResizedProperties ==
    ASSUME NEW s \in Seq(Bytes), NEW n \in Nat
    PROVE  /\ Resized(s, n) \in Seq(Bytes) /\ Len(Resized(s, n)) = n
           /\ \A i \in 1..n : i <= Len(s) => Resized(s, n)[i] = s[i]
  <1>1. Len(s) \in Nat
    BY LenProperties
  <1>2. \A i \in 1..n : (IF i <= Len(s) THEN s[i] ELSE Fill) \in Bytes
    BY <1>1, ElementOfSeq, BufferAssumption DEF BufferAssumption
  <1>3. Resized(s, n) \in [1..n -> Bytes]
    BY <1>2 DEF Resized
  <1> QED
    BY <1>1, <1>3 DEF Resized

(* A sequence is a cut when it agrees with it element by element.             *)
LEMMA CutIs ==
    ASSUME NEW t \in Seq(Bytes), NEW u \in Seq(Bytes), NEW from \in Nat, NEW to \in Nat,
           to = from + Len(u), to <= Len(t),
           \A i \in 1..Len(u) : t[from + i] = u[i]
    PROVE  Cut(t, from, to) = u
  <1> DEFINE r == Cut(t, from, to)
  <1>1. Len(u) \in Nat /\ from <= to /\ to - from = Len(u)
    BY LenProperties
  <1>2. /\ r \in Seq(Bytes) /\ Len(r) = to - from
        /\ \A i \in 1..(to - from) : r[i] = t[from + i]
    BY <1>1, CutProperties
  <1> HIDE DEF r
  <1>3. \A i \in 1..Len(u) : r[i] = u[i]
    BY <1>1, <1>2
  <1>4. r = u
    BY <1>1, <1>2, <1>3, SeqEqual
  <1> QED
    BY <1>4 DEF r

(* What was copied is where it was copied to.                                 *)
LEMMA CopiedCut ==
    ASSUME NEW s \in Seq(Bytes), NEW bytes \in Seq(Bytes), NEW pos \in Nat, NEW end \in Nat,
           end = pos + Len(bytes), end <= Len(s)
    PROVE  Cut(Copied(s, pos, bytes), pos, end) = bytes
  <1> DEFINE t == Copied(s, pos, bytes)
  <1>1. Len(s) \in Nat /\ Len(bytes) \in Nat
    BY LenProperties
  <1>2. /\ t \in Seq(Bytes) /\ Len(t) = Len(s)
        /\ \A i \in 1..Len(s) :
              t[i] = IF i > pos /\ i <= pos + Len(bytes) THEN bytes[i - pos] ELSE s[i]
    BY CopiedProperties
  <1> HIDE DEF t
  <1>3. ASSUME NEW i \in 1..Len(bytes) PROVE t[pos + i] = bytes[i]
    <2>1. pos + i \in 1..Len(s) /\ pos + i > pos /\ pos + i <= pos + Len(bytes) /\ (pos + i) - pos = i
      BY <1>1
    <2> QED
      BY <1>2, <2>1
  <1>4. Cut(t, pos, end) = bytes
    BY <1>2, <1>3, CutIs
  <1> QED
    BY <1>4 DEF t

-----------------------------------------------------------------------------
(* append to s leaves vector t with indices from and to, wherever it found    *)
(* the room.  It grows only when moving the readable bytes to the front would *)
(* not make room.                                                             *)
Appended(s, reader, writer, bytes, t, from, to) ==
    /\ t \in Seq(Bytes) /\ from \in Nat /\ to \in Nat /\ to <= Len(t)
    /\ to = from + (writer - reader) + Len(bytes)
    /\ Cut(t, from, to) = Cut(s, reader, writer) \o bytes
    /\ \/ Len(t) = Len(s)
       \/ /\ Len(t) = writer + Len(bytes) /\ Len(t) > Len(s)
          /\ (Len(s) - writer) + reader < Len(bytes)

LEMMA AppendInPlace ==
    ASSUME NEW s \in Seq(Bytes), NEW reader \in Nat, NEW writer \in Nat, NEW total \in Nat,
           reader <= writer, NEW bytes \in Seq(Bytes),
           total = writer + Len(bytes), total <= Len(s)
    PROVE  /\ Copied(s, writer, bytes) \in Seq(Bytes)
           /\ Len(Copied(s, writer, bytes)) = Len(s)
           /\ Cut(Copied(s, writer, bytes), reader, total) = Cut(s, reader, writer) \o bytes
  <1> DEFINE t == Copied(s, writer, bytes)
             w == Cut(s, reader, writer)
             u == w \o bytes
             n == writer - reader
             len == Len(bytes)
  <1>1. Len(s) \in Nat /\ len \in Nat /\ n \in Nat /\ writer <= Len(s)
    BY LenProperties
  <1>2. /\ t \in Seq(Bytes) /\ Len(t) = Len(s)
        /\ \A i \in 1..Len(s) :
              t[i] = IF i > writer /\ i <= writer + len THEN bytes[i - writer] ELSE s[i]
    BY CopiedProperties
  <1>3. w \in Seq(Bytes) /\ Len(w) = n /\ \A i \in 1..n : w[i] = s[reader + i]
    BY <1>1, CutProperties
  <1> HIDE DEF t, w
  <1>4. /\ u \in Seq(Bytes) /\ Len(u) = Len(w) + len
        /\ \A i \in 1..(Len(w) + len) : u[i] = IF i <= Len(w) THEN w[i] ELSE bytes[i - Len(w)]
    BY <1>3, ConcatProperties
  <1> HIDE DEF u, len
  <1>5. ASSUME NEW i \in 1..Len(u) PROVE t[reader + i] = u[i]
    <2>1. i \in 1..(Len(w) + len) /\ Len(w) = n
      BY <1>3, <1>4
    <2>2. CASE i <= n
      <3>1. i \in 1..n /\ reader + i \in 1..Len(s) /\ reader + i <= writer
        BY <1>1, <2>1, <2>2
      <3>2. u[i] = w[i]
        BY <1>4, <2>1, <2>2
      <3>3. t[reader + i] = s[reader + i]
        BY <1>1, <1>2, <3>1
      <3> QED
        BY <1>3, <3>1, <3>2, <3>3
    <2>3. CASE ~(i <= n)
      <3>1. /\ reader + i \in 1..Len(s) /\ reader + i > writer /\ reader + i <= writer + len
            /\ (reader + i) - writer = i - n
        BY <1>1, <2>1, <2>3 DEF len
      <3>2. u[i] = bytes[i - n]
        BY <1>4, <2>1, <2>3
      <3>3. t[reader + i] = bytes[(reader + i) - writer]
        BY <1>2, <3>1
      <3> QED
        BY <3>1, <3>2, <3>3
    <2> QED
      BY <2>2, <2>3
  <1>6. total = reader + Len(u) /\ total <= Len(t)
    BY <1>1, <1>2, <1>3, <1>4 DEF len
  <1>7. Cut(t, reader, total) = u
    BY <1>2, <1>4, <1>5, <1>6, CutIs
  <1> QED
    BY <1>2, <1>7 DEF t, u, w

LEMMA AppendEffect ==
    ASSUME NEW s \in Seq(Bytes), NEW reader \in Nat, NEW writer \in Nat,
           reader <= writer, writer <= Len(s), NEW bytes \in Seq(Bytes),
           AppendTo(s, reader, writer, bytes)
    PROVE  Appended(s, reader, writer, bytes, data', readerIdx', writerIdx')
  <1> DEFINE len == Len(bytes)
  <1>1. Len(s) \in Nat /\ len \in Nat
    BY LenProperties
  <1>2. CASE Len(s) - writer >= len
    <2> DEFINE total == writer + len
    <2>1. data' = Copied(s, writer, bytes) /\ readerIdx' = reader /\ writerIdx' = total
      BY <1>2 DEF AppendTo
    <2>2. total \in Nat /\ total <= Len(s) /\ total = reader + (writer - reader) + len
      BY <1>1, <1>2
    <2> QED
      BY <1>1, <2>1, <2>2, AppendInPlace DEF Appended
  <1>3. CASE Len(s) - writer < len /\ CanMove(s, reader, writer, len)
    <2> DEFINE w == Cut(s, reader, writer)
               n == writer - reader
               front == Copied(s, 0, w)
               total == n + len
    <2>1. data' = Copied(front, n, bytes) /\ readerIdx' = 0 /\ writerIdx' = total
      BY <1>3 DEF AppendTo, Cut
    <2>2. n \in Nat /\ total \in Nat /\ total <= Len(s) /\ n <= Len(s) /\ 0 <= n
      BY <1>1, <1>3 DEF CanMove
    <2>3. w \in Seq(Bytes) /\ Len(w) = n
      BY CutProperties
    <2> HIDE DEF w
    <2>4. front \in Seq(Bytes) /\ Len(front) = Len(s) /\ Cut(front, 0, n) = w
      <3> HIDE DEF n
      <3>1. n = 0 + Len(w) /\ 0 + Len(w) <= Len(s)
        BY <2>2, <2>3
      <3>2. front \in Seq(Bytes) /\ Len(front) = Len(s)
        BY <2>3, <3>1, CopiedProperties
      <3>3. Cut(front, 0, n) = w
        BY <2>2, <2>3, <3>1, CopiedCut
      <3> QED
        BY <3>2, <3>3
    <2>5. total = 0 + (writer - reader) + len
      BY <1>1, <2>2
    <2>6. total = n + Len(bytes)
      OBVIOUS
    <2> HIDE DEF front, n, total
    <2>7. /\ data' \in Seq(Bytes) /\ Len(data') = Len(s)
          /\ Cut(data', 0, total) = w \o bytes
      <3>1. n \in Nat /\ total \in Nat /\ total = n + Len(bytes) /\ total <= Len(front)
        BY <2>2, <2>4, <2>6
      <3>2. ASSUME NEW low \in Nat, low <= n
            PROVE  Cut(Copied(front, n, bytes), low, total) = Cut(front, low, n) \o bytes
        BY <2>4, <3>1, <3>2, AppendInPlace
      <3>3. Copied(front, n, bytes) \in Seq(Bytes) /\ Len(Copied(front, n, bytes)) = Len(front)
        BY <2>4, <2>6, <3>1, CopiedProperties
      <3> QED
        BY <2>1, <2>2, <2>4, <3>2, <3>3
    <2> QED
      BY <1>1, <2>1, <2>2, <2>5, <2>7 DEF Appended, w
  <1>4. CASE Len(s) - writer < len /\ ~CanMove(s, reader, writer, len)
    <2> DEFINE total == writer + len
               grown == Resized(s, total)
    <2>1. data' = Copied(grown, writer, bytes) /\ readerIdx' = reader /\ writerIdx' = total
      BY <1>1, <1>4 DEF AppendTo
    <2>2. /\ total \in Nat /\ total > Len(s) /\ (Len(s) - writer) + reader < len
          /\ total = reader + (writer - reader) + len
      BY <1>1, <1>4 DEF CanMove
    <2>3. /\ grown \in Seq(Bytes) /\ Len(grown) = total
          /\ \A i \in 1..total : i <= Len(s) => grown[i] = s[i]
      BY <2>2, ResizedProperties
    <2> HIDE DEF grown
    <2>4. Cut(grown, reader, writer) = Cut(s, reader, writer)
      <3>1. writer <= Len(grown)
        BY <1>1, <2>2, <2>3
      <3>2. /\ Cut(grown, reader, writer) \in Seq(Bytes)
            /\ Len(Cut(grown, reader, writer)) = writer - reader
            /\ \A i \in 1..(writer - reader) : Cut(grown, reader, writer)[i] = grown[reader + i]
        BY <2>3, <3>1, CutProperties
      <3>3. /\ Cut(s, reader, writer) \in Seq(Bytes)
            /\ Len(Cut(s, reader, writer)) = writer - reader
            /\ \A i \in 1..(writer - reader) : Cut(s, reader, writer)[i] = s[reader + i]
        BY CutProperties
      <3>4. \A i \in 1..(writer - reader) : grown[reader + i] = s[reader + i]
        BY <1>1, <2>2, <2>3
      <3> QED
        BY <3>2, <3>3, <3>4, SeqEqual
    <2>5. /\ data' \in Seq(Bytes) /\ Len(data') = total
          /\ Cut(data', reader, total) = Cut(s, reader, writer) \o bytes
      <3>1. writer + len <= Len(grown)
        BY <2>3
      <3> QED
        BY <2>1, <2>3, <2>4, <3>1, AppendInPlace
    <2> QED
      BY <1>1, <2>1, <2>2, <2>5 DEF Appended
  <1> QED
    BY <1>1, <1>2, <1>3, <1>4

(* readFd: the writable space takes the first bytes, and what it could not    *)
(* take is appended to a vector that is readable to its end.                  *)
LEMMA ReadFdEffect ==
    ASSUME IndexInv, NEW bytes \in Seq(Bytes), ReadFd(bytes)
    PROVE  Appended(data, readerIdx, writerIdx, bytes, data', readerIdx', writerIdx')
  <1> DEFINE n == Len(bytes)
             room == WritableBytes
             filled == Copied(data, writerIdx, bytes)
             kept == Cut(data, readerIdx, writerIdx)
  <1>1. /\ data \in Seq(Bytes) /\ readerIdx \in Nat /\ writerIdx \in Nat /\ Len(data) \in Nat
        /\ readerIdx <= writerIdx /\ writerIdx <= Len(data)
        /\ room = Len(data) - writerIdx /\ room \in Nat /\ n \in Nat
    BY LenProperties DEF IndexInv, WritableBytes
  <1>2. CASE n <= room
    <2> DEFINE total == writerIdx + n
    <2>1. data' = filled /\ readerIdx' = readerIdx /\ writerIdx' = total
      BY <1>2 DEF ReadFd
    <2>2. total \in Nat /\ total <= Len(data) /\ total = readerIdx + (writerIdx - readerIdx) + n
      BY <1>1, <1>2
    <2>3. total = writerIdx + Len(bytes)
      OBVIOUS
    <2> HIDE DEF total, filled
    <2>4. Cut(filled, readerIdx, total) = kept \o bytes
      BY <1>1, <2>2, <2>3, AppendInPlace DEF filled
    <2>5. filled \in Seq(Bytes) /\ Len(filled) = Len(data)
      BY <1>1, CopiedProperties DEF filled
    <2> QED
      BY <1>1, <2>1, <2>2, <2>4, <2>5 DEF Appended
  <1>3. CASE ~(n <= room)
    <2> DEFINE first == SubSeq(bytes, 1, room)
               rest == SubSeq(bytes, room + 1, n)
    <2>1. AppendTo(filled, readerIdx, Len(data), rest)
      BY <1>3 DEF ReadFd
    <2>2. /\ first \in Seq(Bytes) /\ Len(first) = room
          /\ \A i \in 1..room : first[i] = bytes[i]
      <3>1. \A i \in 1..room : bytes[i] \in Bytes
        BY <1>1, <1>3, ElementOfSeq
      <3>2. /\ first \in Seq(Bytes) /\ Len(first) = IF 1 <= room THEN room - 1 + 1 ELSE 0
            /\ \A i \in 1..(room - 1 + 1) : first[i] = bytes[1 + i - 1]
        BY <1>1, <3>1, SubSeqProperties
      <3> QED
        BY <1>1, <3>2
    <2>3. rest \in Seq(Bytes) /\ Len(rest) = n - room
      <3>1. \A i \in (room + 1)..n : bytes[i] \in Bytes
        BY <1>1, <1>3, ElementOfSeq
      <3>2. rest \in Seq(Bytes) /\ Len(rest) = IF room + 1 <= n THEN n - (room + 1) + 1 ELSE 0
        BY <1>1, <3>1, SubSeqProperties
      <3> QED
        BY <1>1, <1>3, <3>2
    <2>4. first \o rest = bytes
      <3>1. 1 \in 1..(n + 1) /\ room \in (1 - 1)..n /\ n \in room..n
        BY <1>1, <1>3
      <3>2. SubSeq(bytes, 1, room) \o SubSeq(bytes, room + 1, n) = SubSeq(bytes, 1, n)
        BY <3>1, ConcatAdjacentSubSeq
      <3> QED
        BY <3>2, SubSeqFull
    <2>5. filled = Copied(data, writerIdx, first)
      <3> DEFINE other == Copied(data, writerIdx, first)
      <3>1. /\ filled \in Seq(Bytes) /\ Len(filled) = Len(data)
            /\ \A i \in 1..Len(data) :
                  filled[i] = IF i > writerIdx /\ i <= writerIdx + n THEN bytes[i - writerIdx] ELSE data[i]
        BY <1>1, CopiedProperties
      <3>2. /\ other \in Seq(Bytes) /\ Len(other) = Len(data)
            /\ \A i \in 1..Len(data) :
                  other[i] = IF i > writerIdx /\ i <= writerIdx + Len(first)
                             THEN first[i - writerIdx] ELSE data[i]
        BY <1>1, <2>2, CopiedProperties
      <3> HIDE DEF filled, other, first
      <3>3. ASSUME NEW i \in 1..Len(data) PROVE filled[i] = other[i]
        <4>1. CASE i > writerIdx
          <5>1. i - writerIdx \in 1..room /\ i <= writerIdx + n /\ i <= writerIdx + Len(first)
            BY <1>1, <1>3, <2>2, <4>1
          <5> QED
            BY <2>2, <3>1, <3>2, <4>1, <5>1
        <4>2. CASE ~(i > writerIdx)
          BY <3>1, <3>2, <4>2
        <4> QED
          BY <4>1, <4>2
      <3> QED
        BY <3>1, <3>2, <3>3, SeqEqual DEF filled, other, first
    <2>6. kept \in Seq(Bytes)
      BY <1>1, CutProperties
    <2> HIDE DEF first, rest, kept
    <2>7. filled \in Seq(Bytes) /\ Len(filled) = Len(data)
      BY <1>1, CopiedProperties
    <2>8. Cut(filled, readerIdx, Len(data)) = kept \o first
      <3>1. Len(data) = writerIdx + Len(first) /\ Len(data) <= Len(data)
        BY <1>1, <2>2
      <3>2. ASSUME NEW total \in Nat, total = writerIdx + Len(first), total <= Len(data)
            PROVE  Cut(Copied(data, writerIdx, first), readerIdx, total) = kept \o first
        <4>1. first \in Seq(Bytes)
          BY <2>2
        <4>2. data \in Seq(Bytes) /\ readerIdx \in Nat /\ writerIdx \in Nat /\ readerIdx <= writerIdx
          BY <1>1
        <4> QED
          BY <3>2, <4>1, <4>2, AppendInPlace DEF kept
      <3> QED
        BY <1>1, <2>5, <3>1, <3>2
    <2> HIDE DEF filled
    <2>9. Appended(filled, readerIdx, Len(data), rest, data', readerIdx', writerIdx')
      <3>1. readerIdx <= Len(data) /\ Len(data) <= Len(filled)
        BY <1>1, <2>7
      <3> QED
        BY <1>1, <2>1, <2>3, <2>7, <3>1, AppendEffect
    <2>10. (kept \o first) \o rest = kept \o bytes
      <3>1. (kept \o first) \o rest = kept \o (first \o rest)
        <4>1. kept \in Seq(Bytes)
          BY <2>6
        <4>2. first \in Seq(Bytes)
          BY <2>2
        <4>3. rest \in Seq(Bytes)
          BY <2>3
        <4> QED
          BY <4>1, <4>2, <4>3, ConcatAssociative
      <3> QED
        BY <2>4, <3>1
    <2>11. Cut(data', readerIdx', writerIdx') = kept \o bytes
      BY <2>8, <2>9, <2>10 DEF Appended
    <2> HIDE DEF room, n
    <2>12. /\ data' \in Seq(Bytes) /\ readerIdx' \in Nat /\ writerIdx' \in Nat /\ writerIdx' <= Len(data')
           /\ writerIdx' = readerIdx' + (Len(data) - readerIdx) + (n - room)
           /\ \/ Len(data') = Len(data)
              \/ /\ Len(data') = Len(data) + (n - room) /\ Len(data') > Len(data)
                 /\ (Len(data) - Len(data)) + readerIdx < n - room
      BY <2>3, <2>7, <2>9 DEF Appended
    <2> QED
      BY <1>1, <2>11, <2>12 DEF Appended, kept, n
  <1> QED
    BY <1>2, <1>3

-----------------------------------------------------------------------------
(* CapacityBound says nothing of how much of the vector is readable, which    *)
(* the guard of an append bounds.                                             *)
BufferInv == CapacityBound /\ ReadableBytes <= MaxReadable

LEMMA MessageType ==
    ASSUME NEW bytes \in Messages
    PROVE  bytes \in Seq(Bytes) /\ Len(bytes) \in 0..MaxLength
  BY BufferAssumption DEF Messages, BufferAssumption

LEMMA AppendedStep ==
    ASSUME BufferInv, NEW bytes \in Messages, Fits(bytes), moved' = bytes,
           Appended(data, readerIdx, writerIdx, bytes, data', readerIdx', writerIdx')
    PROVE  BufferInv'
  <1>1. /\ data \in Seq(Bytes) /\ Len(data) \in Nat
        /\ readerIdx \in Nat /\ writerIdx \in Nat
        /\ readerIdx <= writerIdx /\ writerIdx <= Len(data) /\ InitSize <= Len(data)
        /\ Len(data) <= InitSize \/ Len(data) < MaxReadable + MaxLength
    BY LenProperties DEF BufferInv, CapacityBound, IndexInv
  <1>2. bytes \in Seq(Bytes) /\ Len(bytes) \in Nat /\ Len(bytes) <= MaxLength
    BY MessageType, BufferAssumption DEF BufferAssumption
  <1>3. InitSize \in Nat /\ MaxLength \in Nat /\ MaxReadable \in Nat
    BY BufferAssumption DEF BufferAssumption
  <1>4. writerIdx - readerIdx + Len(bytes) <= MaxReadable
    BY DEF Fits, ReadableBytes
  <1>5. /\ data' \in Seq(Bytes) /\ readerIdx' \in Nat /\ writerIdx' \in Nat
        /\ writerIdx' <= Len(data')
        /\ writerIdx' = readerIdx' + (writerIdx - readerIdx) + Len(bytes)
        /\ \/ Len(data') = Len(data)
           \/ /\ Len(data') = writerIdx + Len(bytes) /\ Len(data') > Len(data)
              /\ (Len(data) - writerIdx) + readerIdx < Len(bytes)
    BY DEF Appended
  <1>6. Len(data') \in Nat
    BY <1>5, LenProperties
  <1>7. readerIdx' <= writerIdx' /\ writerIdx' - readerIdx' <= MaxReadable
    BY <1>1, <1>2, <1>3, <1>4, <1>5
  <1>8. InitSize <= Len(data')
    BY <1>1, <1>3, <1>5, <1>6
  <1>9. Len(data') <= InitSize \/ Len(data') < MaxReadable + MaxLength
    BY <1>1, <1>2, <1>3, <1>4, <1>5, <1>6
  <1> QED
    BY <1>2, <1>5, <1>7, <1>8, <1>9 DEF BufferInv, CapacityBound, IndexInv, ReadableBytes

(* Both ways in leave the readable bytes followed by the new ones.            *)
LEMMA WriteStep ==
    ASSUME BufferInv, NEW bytes \in Messages, AppendBytes(bytes) \/ ReadFd(bytes)
    PROVE  /\ Appended(data, readerIdx, writerIdx, bytes, data', readerIdx', writerIdx')
           /\ Fits(bytes) /\ moved' = bytes
  <1>1. IndexInv /\ bytes \in Seq(Bytes)
    BY MessageType DEF BufferInv, CapacityBound
  <1>2. CASE AppendBytes(bytes)
    <2>1. /\ data \in Seq(Bytes) /\ readerIdx \in Nat /\ writerIdx \in Nat
          /\ readerIdx <= writerIdx /\ writerIdx <= Len(data)
      BY <1>1 DEF IndexInv
    <2>2. AppendTo(data, readerIdx, writerIdx, bytes)
      BY <1>2 DEF AppendBytes
    <2> QED
      BY <1>1, <1>2, <2>1, <2>2, AppendEffect DEF AppendBytes
  <1>3. CASE ReadFd(bytes)
    BY <1>1, <1>3, ReadFdEffect DEF ReadFd
  <1> QED
    BY <1>2, <1>3

LEMMA RetrieveStep ==
    ASSUME BufferInv, NEW n \in Nat, Retrieve(n), moved' \in Seq(Bytes)
    PROVE  /\ BufferInv'
           /\ n <= Len(Readable) /\ Readable' = SubSeq(Readable, n + 1, Len(Readable))
           /\ Between(readerIdx, readerIdx + n) = SubSeq(Readable, 1, n)
           /\ Readable \in Seq(Bytes)
  <1> DEFINE len == writerIdx - readerIdx
  <1>1. /\ data \in Seq(Bytes) /\ Len(data) \in Nat
        /\ readerIdx \in Nat /\ writerIdx \in Nat
        /\ readerIdx <= writerIdx /\ writerIdx <= Len(data)
        /\ len \in Nat /\ n <= len
    BY LenProperties DEF BufferInv, CapacityBound, IndexInv, Retrieve, ReadableBytes
  <1>2. BufferInv'
    <2>1. /\ readerIdx' \in Nat /\ writerIdx' \in Nat /\ data' = data
          /\ readerIdx' <= writerIdx' /\ writerIdx' <= Len(data)
          /\ writerIdx' - readerIdx' <= len
      BY <1>1 DEF Retrieve, ReadableBytes
    <2>2. writerIdx' - readerIdx' <= MaxReadable
      <3>1. len <= MaxReadable /\ MaxReadable \in Nat
        BY BufferAssumption DEF BufferInv, ReadableBytes, BufferAssumption
      <3>2. writerIdx' - readerIdx' \in Int /\ writerIdx' - readerIdx' <= len
        BY <2>1
      <3>3. writerIdx' - readerIdx' <= MaxReadable
        BY <1>1, <3>1, <3>2
      <3> QED
        BY <3>3
    <2> QED
      BY <2>1, <2>2 DEF BufferInv, CapacityBound, IndexInv, ReadableBytes
  <1>3. /\ Readable \in Seq(Bytes) /\ Len(Readable) = len
        /\ \A i \in 1..len : Readable[i] = data[readerIdx + i]
    BY <1>1, CutProperties DEF Readable, Between, Cut
  <1>4. Between(readerIdx, readerIdx + n) = SubSeq(Readable, 1, n)
    <2> DEFINE a == Cut(data, readerIdx, readerIdx + n)
               b == SubSeq(Readable, 1, n)
    <2>1. readerIdx + n \in Nat /\ readerIdx <= readerIdx + n /\ readerIdx + n <= Len(data)
          /\ (readerIdx + n) - readerIdx = n
      BY <1>1
    <2>2. /\ a \in Seq(Bytes) /\ Len(a) = (readerIdx + n) - readerIdx
          /\ \A i \in 1..((readerIdx + n) - readerIdx) : a[i] = data[readerIdx + i]
      BY <1>1, <2>1, CutProperties
    <2>3. \A i \in 1..n : Readable[i] \in Bytes
      BY <1>1, <1>3, ElementOfSeq
    <2>4. /\ b \in Seq(Bytes) /\ Len(b) = IF 1 <= n THEN n - 1 + 1 ELSE 0
          /\ \A i \in 1..(n - 1 + 1) : b[i] = Readable[1 + i - 1]
      BY <2>3, SubSeqProperties
    <2> HIDE DEF a, b
    <2>5. Len(b) = n
      BY <2>4
    <2>6. ASSUME NEW i \in 1..n PROVE a[i] = b[i]
      <3>1. 1 + i - 1 = i /\ i \in 1..(n - 1 + 1) /\ i \in 1..len
        BY <1>1
      <3>2. b[i] = Readable[i]
        BY <2>4, <3>1
      <3>3. a[i] = data[readerIdx + i]
        BY <2>1, <2>2
      <3> QED
        BY <1>3, <3>1, <3>2, <3>3
    <2>7. a = b
      BY <2>1, <2>2, <2>4, <2>5, <2>6, SeqEqual
    <2> QED
      BY <2>7 DEF a, b, Between, Cut
  <1>5. Readable' = SubSeq(Readable, n + 1, Len(Readable))
    <2> DEFINE b == SubSeq(Readable, n + 1, len)
    <2>1. CASE n < len
      <3>1. readerIdx' = readerIdx + n /\ writerIdx' = writerIdx /\ data' = data
        BY <2>1 DEF Retrieve, ReadableBytes
      <3> DEFINE a == Cut(data, readerIdx + n, writerIdx)
      <3>2. readerIdx + n \in Nat /\ readerIdx + n <= writerIdx /\ writerIdx - (readerIdx + n) = len - n
        BY <1>1
      <3>3. /\ a \in Seq(Bytes) /\ Len(a) = writerIdx - (readerIdx + n)
            /\ \A i \in 1..(writerIdx - (readerIdx + n)) : a[i] = data[(readerIdx + n) + i]
        BY <1>1, <3>2, CutProperties
      <3>4. \A i \in (n + 1)..len : Readable[i] \in Bytes
        BY <1>1, <1>3, ElementOfSeq
      <3>5. /\ b \in Seq(Bytes) /\ Len(b) = IF n + 1 <= len THEN len - (n + 1) + 1 ELSE 0
            /\ \A i \in 1..(len - (n + 1) + 1) : b[i] = Readable[(n + 1) + i - 1]
        BY <1>1, <3>4, SubSeqProperties
      <3> HIDE DEF a, b, len
      <3>6. Len(a) = len - n /\ Len(b) = len - n /\ len - n \in Nat
        BY <1>1, <2>1, <3>2, <3>3, <3>5
      <3>7. ASSUME NEW i \in 1..(len - n) PROVE a[i] = b[i]
        <4>1. /\ (n + 1) + i - 1 = n + i /\ i \in 1..(len - (n + 1) + 1) /\ n + i \in 1..len
              /\ (readerIdx + n) + i = readerIdx + (n + i)
          BY <1>1
        <4>2. b[i] = Readable[n + i]
          BY <3>5, <4>1
        <4>3. a[i] = data[readerIdx + (n + i)]
          BY <3>2, <3>3, <4>1
        <4> QED
          BY <1>3, <4>1, <4>2, <4>3
      <3>8. a = b
        BY <3>3, <3>5, <3>6, <3>7, SeqEqual
      <3> QED
        BY <1>3, <3>1, <3>8 DEF a, b, Readable, Between, Cut
    <2>2. CASE ~(n < len)
      <3>1. readerIdx' = 0 /\ writerIdx' = 0
        BY <2>2 DEF Retrieve, ReadableBytes
      <3>2. Readable' = SubSeq(data', 0 + 1, 0)
        BY <3>1 DEF Readable, Between
      <3>3. SubSeq(data', 0 + 1, 0) = << >> /\ b = << >>
        BY <1>1, <2>2, SubSeqEmpty
      <3> QED
        BY <1>3, <3>2, <3>3
    <2> QED
      BY <2>1, <2>2
  <1>6. n <= Len(Readable)
    BY <1>1, <1>3
  <1> QED
    BY <1>2, <1>3, <1>4, <1>5, <1>6

-----------------------------------------------------------------------------
LEMMA BufferInit == Init => BufferInv
  <1> SUFFICES ASSUME Init PROVE BufferInv
    OBVIOUS
  <1>1. InitSize \in Nat /\ MaxReadable \in Nat /\ Fill \in Bytes
    BY BufferAssumption DEF BufferAssumption
  <1>2. data \in Seq(Bytes) /\ Len(data) = InitSize
    BY <1>1 DEF Init
  <1> QED
    BY <1>1, <1>2 DEF Init, BufferInv, CapacityBound, IndexInv, ReadableBytes

LEMMA BufferStep == BufferInv /\ [Next]_vars => BufferInv'
  <1> SUFFICES ASSUME BufferInv, [Next]_vars PROVE BufferInv'
    OBVIOUS
  <1>1. ASSUME NEW bytes \in Messages, AppendBytes(bytes) \/ ReadFd(bytes) PROVE BufferInv'
    BY <1>1, WriteStep, AppendedStep
  <1>2. ASSUME NEW n \in 0..MaxReadable, Retrieve(n), moved' \in Seq(Bytes) PROVE BufferInv'
    BY <1>2, RetrieveStep, BufferAssumption DEF BufferAssumption
  <1>3. ASSUME NEW n \in 0..MaxReadable, RetrieveAsString(n) PROVE BufferInv'
    <2>1. readerIdx \in Nat /\ n \in Nat /\ data \in Seq(Bytes)
          /\ readerIdx <= readerIdx + n /\ readerIdx + n <= Len(data)
      BY <1>3, LenProperties, BufferAssumption
         DEF BufferInv, CapacityBound, IndexInv, RetrieveAsString, Retrieve, ReadableBytes,
             BufferAssumption
    <2>2. moved' \in Seq(Bytes)
      BY <1>3, <2>1, CutProperties DEF RetrieveAsString, Between, Cut
    <2> QED
      BY <1>2, <1>3, <2>2 DEF RetrieveAsString
  <1>4. ASSUME NEW n \in 0..MaxReadable, Retrieve(n), moved' = << >> PROVE BufferInv'
    BY <1>2, <1>4
  <1>5. CASE UNCHANGED vars
    <2>1. data' = data /\ readerIdx' = readerIdx /\ writerIdx' = writerIdx /\ moved' = moved
      BY <1>5 DEF vars
    <2> QED
      BY <2>1, Zenon DEF BufferInv, CapacityBound, IndexInv, ReadableBytes
  <1> QED
    BY <1>1, <1>3, <1>4, <1>5 DEF Next

LEMMA BufferInvariant == Spec => []BufferInv
  BY BufferInit, BufferStep, PTL DEF Spec

(* buffer_ stays between its first size and what its backlog and one message  *)
(* need, and the indices in order and inside it, through any sequence of      *)
(* append, readFd, retrieve and retrieveAsString.                             *)
THEOREM BufferBounded == Spec => []CapacityBound
  <1>1. BufferInv => CapacityBound
    BY DEF BufferInv
  <1> QED
    BY <1>1, BufferInvariant, PTL

-----------------------------------------------------------------------------
LEMMA FifoStep == BufferInv /\ [Next]_vars => [Fifo!Next]_Fifo!vars
  <1> SUFFICES ASSUME BufferInv, [Next]_vars PROVE Fifo!Next \/ UNCHANGED Fifo!vars
    OBVIOUS
  <1>1. ASSUME NEW bytes \in Messages, AppendBytes(bytes) \/ ReadFd(bytes) PROVE Fifo!Next
    <2>1. Readable' = Readable \o bytes /\ moved' = bytes /\ bytes \in Seq(Bytes)
      BY <1>1, WriteStep, MessageType DEF Appended, Readable, Between, Cut
    <2> QED
      BY <2>1 DEF Fifo!Next, Fifo!Put
  <1>2. ASSUME NEW n \in 0..MaxReadable, RetrieveAsString(n) PROVE Fifo!Next
    <2>1. n \in Nat /\ Retrieve(n) /\ moved' = Between(readerIdx, readerIdx + n)
      BY <1>2, BufferAssumption DEF RetrieveAsString, BufferAssumption
    <2>2. moved' \in Seq(Bytes)
      BY <1>2, BufferStep DEF BufferInv, CapacityBound, IndexInv, Next
    <2>3. /\ n <= Len(Readable) /\ Readable' = SubSeq(Readable, n + 1, Len(Readable))
          /\ moved' = SubSeq(Readable, 1, n) /\ Readable \in Seq(Bytes)
      BY <2>1, <2>2, RetrieveStep
    <2>4. Fifo!Take(n) /\ n \in 0..Len(Readable)
      BY <2>1, <2>3, LenProperties DEF Fifo!Take
    <2> QED
      BY <2>4 DEF Fifo!Next
  <1>3. ASSUME NEW n \in 0..MaxReadable, Retrieve(n), moved' = << >> PROVE Fifo!Next
    <2>1. n \in Nat /\ moved' \in Seq(Bytes)
      BY <1>3, BufferAssumption DEF BufferAssumption
    <2>2. /\ n <= Len(Readable) /\ Readable' = SubSeq(Readable, n + 1, Len(Readable))
          /\ Readable \in Seq(Bytes)
      BY <1>3, <2>1, RetrieveStep
    <2>3. Fifo!Drop(n) /\ n \in 0..Len(Readable)
      BY <1>3, <2>1, <2>2, LenProperties DEF Fifo!Drop
    <2> QED
      BY <2>3 DEF Fifo!Next
  <1>4. CASE UNCHANGED vars
    BY <1>4 DEF vars, Fifo!vars, Readable, Between
  <1> QED
    BY <1>1, <1>2, <1>3, <1>4 DEF Next

(* Buffer is a queue of bytes: what retrieveAsString hands out is, in order   *)
(* and without a gap, what append and readFd put in, however buffer_ moved    *)
(* and grew in between.                                                       *)
THEOREM BufferImplementsFifo == Spec => ImplementsFifo
  <1>1. Init => Fifo!Init
    <2> SUFFICES ASSUME Init PROVE Fifo!Init
      OBVIOUS
    <2>1. Readable = << >>
      BY SubSeqEmpty DEF Init, Readable, Between
    <2> QED
      BY <2>1 DEF Init, Fifo!Init
  <1> QED
    BY <1>1, BufferInvariant, FifoStep, PTL DEF Spec, ImplementsFifo, Fifo!Spec
=============================================================================
