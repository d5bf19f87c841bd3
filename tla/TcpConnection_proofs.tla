------------------------- MODULE TcpConnection_proofs -------------------------
(* Theorems of TcpConnection, for any mark, any room in the socket and any    *)
(* number of bytes and functors.                                              *)
EXTENDS TcpConnection, SequenceTheorems, TLAPS

-----------------------------------------------------------------------------
(* What a queue s holds.                                                      *)

In(s, x) == \E i \in 1..Len(s) : s[i] = x
AtMostOnce(s, x) == \A i, j \in 1..Len(s) : s[i] = x /\ s[j] = x => i = j

(* Two buffers, one behind the other, hold the bytes 1 to n.                  *)
Stream(a, b, n) ==
    /\ Len(a) + Len(b) = n
    /\ \A i \in 1..Len(a) : a[i] = i
    /\ \A i \in 1..Len(b) : b[i] = Len(a) + i

Bytes == (1..MaxBytes) \cup {Garbage}

-----------------------------------------------------------------------------
(* The inductive invariant                                                    *)

(* The loop runs functors and polls only when it has handled every event: a   *)
(* reported hang-up or end of file finds the connection up, unless the timer  *)
(* of a delayed close has run in between.  Only then can an assert fail.      *)
ControlInv ==
    /\ aborted => overtaken
    /\ owner = "holds" <=> state # "KDisconnected"
    /\ channel.read \/ channel.write => Up
    /\ "HUP" \in revents \/ "IN" \in revents => Up \/ overtaken
    /\ In(functors, "ConnectEstablished") => state = "KConnecting"
    /\ In(functors, "ConnectDestoryed") => owner = "removes"
    /\ In(functors, "sendInLoop") => foreign >= 0
    /\ \A f \in Functors \ {"callback", "forceCloseInLoop"} : AtMostOnce(functors, f)

DataInv ==
    /\ state = "KConnecting" => outputBuffer = << >> /\ foreign = -1 /\ ~socket.shutWr
    /\ Up => (channel.write <=> outputBuffer # << >>)
    /\ socket.shutWr /\ state # "KDisconnected" => outputBuffer = << >>
    /\ ~mangled => Stream(wire, outputBuffer, accepted)
    /\ alarms = IF Len(outputBuffer) >= HighWaterMark THEN 1 ELSE 0
    /\ accepted + (IF foreign > 0 THEN foreign ELSE 0) <= MaxBytes
    /\ inputBuffer + socket.input <= MaxInput

ConnInv == TypeOK /\ ControlInv /\ DataInv

-----------------------------------------------------------------------------
(* Sequences                                                                  *)

LEMMA AppendHas ==
    ASSUME NEW S, NEW s \in Seq(S), NEW e \in S
    PROVE  /\ Append(s, e) \in Seq(S)
           /\ \A x : /\ In(Append(s, e), x) <=> In(s, x) \/ x = e
                     /\ AtMostOnce(s, x) /\ ~(x = e /\ In(s, x)) => AtMostOnce(Append(s, e), x)
  <1> DEFINE r == Append(s, e)
             m == Len(s)
  <1>1. /\ m \in Nat /\ Len(r) = m + 1 /\ r[m + 1] = e
        /\ \A i \in 1..m : r[i] = s[i]
        /\ \A i \in 1..(m + 1) : i \in 1..m \/ i = m + 1
    OBVIOUS
  <1> HIDE DEF r, m
  <1>2. ASSUME NEW x PROVE In(r, x) <=> In(s, x) \/ x = e
    BY <1>1 DEF In, m
  <1>3. ASSUME NEW x, AtMostOnce(s, x), ~(x = e /\ In(s, x)) PROVE AtMostOnce(r, x)
    BY <1>1, <1>3 DEF In, AtMostOnce, m
  <1>4. r \in Seq(S)
    BY DEF r
  <1> QED
    BY <1>2, <1>3, <1>4 DEF r

LEMMA TailHas ==
    ASSUME NEW S, NEW s \in Seq(S), s # << >>
    PROVE  /\ Head(s) \in S /\ In(s, Head(s)) /\ Tail(s) \in Seq(S)
           /\ \A x : /\ In(Tail(s), x) => In(s, x)
                     /\ AtMostOnce(s, x) => AtMostOnce(Tail(s), x)
                     /\ AtMostOnce(s, x) /\ x = Head(s) => ~In(Tail(s), x)
  <1> DEFINE r == Tail(s)
             m == Len(s)
             h == Head(s)
  <1>1. /\ m \in Nat \ {0} /\ h = s[1] /\ Len(r) = m - 1
        /\ \A i \in 1..(m - 1) : i + 1 \in 1..m /\ r[i] = s[i + 1]
    OBVIOUS
  <1>2. r \in Seq(S) /\ h \in S
    OBVIOUS
  <1> HIDE DEF r, m, h
  <1>3. In(s, h)
    BY <1>1 DEF In, m
  <1>4. ASSUME NEW x, In(r, x) PROVE In(s, x)
    BY <1>1, <1>4 DEF In, m
  <1>5. ASSUME NEW x, AtMostOnce(s, x) PROVE AtMostOnce(r, x)
    <2> SUFFICES ASSUME NEW i \in 1..(m - 1), NEW j \in 1..(m - 1), r[i] = x, r[j] = x
                 PROVE  i = j
      BY <1>1 DEF AtMostOnce
    <2>1. i + 1 = j + 1
      BY <1>1, <1>5 DEF AtMostOnce, m
    <2> QED
      BY <2>1
  <1>6. ASSUME AtMostOnce(s, h) PROVE ~In(r, h)
    <2> SUFFICES ASSUME NEW i \in 1..(m - 1), r[i] = h
                 PROVE  FALSE
      BY <1>1 DEF In
    <2>1. i + 1 = 1
      BY <1>1, <1>6 DEF AtMostOnce, m
    <2> QED
      BY <2>1
  <1> QED
    BY <1>2, <1>3, <1>4, <1>5, <1>6 DEF r, h

(* The functors that sendInLoop leaves behind rest.                           *)
LEMMA CallbacksBehind ==
    ASSUME NEW s \in Seq(Functors), NEW c, c = <<"callback">> \/ c = << >>
    PROVE  /\ s \o c \in Seq(Functors)
           /\ \A x \in Functors \ {"callback"} :
                /\ In(s \o c, x) <=> In(s, x)
                /\ AtMostOnce(s, x) => AtMostOnce(s \o c, x)
  <1>1. CASE c = << >>
    <2>1. s \o c = s
      BY <1>1
    <2> QED
      BY <2>1
  <1>2. CASE c = <<"callback">>
    <2>1. s \o c = Append(s, "callback")
      BY <1>2
    <2>2. "callback" \in Functors
      BY DEF Functors
    <2> QED
      BY <2>1, <2>2, AppendHas
  <1> QED
    BY <1>1, <1>2

LEMMA Concat ==
    ASSUME NEW a \in Seq(Bytes), NEW b \in Seq(Bytes), NEW m, NEW k, m = Len(a), k = Len(b)
    PROVE  /\ m \in Nat /\ k \in Nat
           /\ a \o b \in Seq(Bytes) /\ Len(a \o b) = m + k
           /\ \A i \in 1..m : i \in 1..(m + k) /\ (a \o b)[i] = a[i]
           /\ \A i \in 1..(m + k) : i \in 1..m \/ (i - m \in 1..k /\ (a \o b)[i] = b[i - m])
  <1> DEFINE r == a \o b
  <1>1. m \in Nat /\ k \in Nat
    OBVIOUS
  <1>2. r \in Seq(Bytes) /\ Len(r) = Len(a) + Len(b)
        /\ \A i \in 1..(Len(a) + Len(b)) : r[i] = IF i <= Len(a) THEN a[i] ELSE b[i - Len(a)]
    BY ConcatProperties
  <1> HIDE DEF r
  <1>3. r \in Seq(Bytes) /\ Len(r) = m + k
        /\ \A i \in 1..(m + k) : r[i] = IF i <= m THEN a[i] ELSE b[i - m]
    BY <1>2
  <1>4. ASSUME NEW i \in 1..(m + k) PROVE i \in 1..m \/ (i - m \in 1..k /\ r[i] = b[i - m])
    <2>1. ~(i <= m) => i - m \in 1..k
      BY <1>1
    <2> QED
      BY <1>1, <1>3, <2>1
  <1>5. \A i \in 1..m : i \in 1..(m + k) /\ r[i] = a[i]
    BY <1>1, <1>3
  <1> QED
    BY <1>1, <1>3, <1>4, <1>5 DEF r

LEMMA StreamIs ==
    ASSUME NEW a \in Seq(Bytes), NEW b \in Seq(Bytes), NEW n \in Nat, Stream(a, b, n)
    PROVE  a \o b = [i \in 1..n |-> i]
  <1> DEFINE m == Len(a)
             k == Len(b)
             r == a \o b
  <1>1. /\ m \in Nat /\ k \in Nat /\ r \in Seq(Bytes) /\ Len(r) = m + k
        /\ \A i \in 1..m : r[i] = a[i]
        /\ \A i \in 1..(m + k) : i \in 1..m \/ (i - m \in 1..k /\ r[i] = b[i - m])
    BY Concat
  <1>2. /\ m + k = n
        /\ \A i \in 1..m : a[i] = i
        /\ \A i \in 1..k : b[i] = m + i
    BY DEF Stream
  <1> HIDE DEF m, k, r
  <1>3. ASSUME NEW i \in 1..(n) PROVE r[i] = i
    <2>1. CASE i \in 1..m
      BY <1>1, <1>2, <2>1
    <2>2. CASE i - m \in 1..k /\ r[i] = b[i - m]
      <3>1. b[i - m] = m + (i - m)
        BY <1>2, <2>2
      <3> QED
        BY <1>1, <2>2, <3>1
    <2> QED
      BY <1>1, <1>2, <2>1, <2>2
  <1>4. r = [i \in 1..n |-> i]
    BY <1>1, <1>2, <1>3
  <1> QED
    BY <1>4 DEF r

(* A whole buffer written, and part of a message after it.                    *)
LEMMA StreamDirect ==
    ASSUME NEW a \in Seq(Bytes), NEW n \in Nat, Stream(a, << >>, n), NEW s \in Nat, NEW k \in Nat,
           NEW x \in Seq(Bytes), Len(x) = s, \A i \in 1..s : x[i] = n + i,
           NEW y \in Seq(Bytes), Len(y) = k, \A i \in 1..k : y[i] = n + s + i
    PROVE  Stream(a \o x, y, n + s + k)
  <1> DEFINE m == Len(a)
             l == Len(x)
             r == a \o x
  <1>1. m = n /\ \A i \in 1..n : a[i] = i
    BY DEF Stream
  <1>2. l = s /\ \A i \in 1..s : x[i] = n + i
    OBVIOUS
  <1>3. /\ Len(r) = m + l
        /\ \A i \in 1..m : r[i] = a[i]
        /\ \A i \in 1..(m + l) : i \in 1..m \/ (i - m \in 1..l /\ r[i] = x[i - m])
    BY ONLY a \in Seq(Bytes), x \in Seq(Bytes), Concat
  <1> HIDE DEF r, l, m
  <1>4. ASSUME NEW i \in 1..(n + s) PROVE r[i] = i
    <2>1. CASE i \in 1..n
      BY <1>1, <1>2, <1>3, <2>1
    <2>2. CASE i - n \in 1..s /\ r[i] = x[i - n]
      <3>1. x[i - n] = n + (i - n)
        BY <1>2, <2>2
      <3> QED
        BY <2>2, <3>1
    <2> QED
      BY <1>1, <1>2, <1>3, <2>1, <2>2
  <1>5. Stream(r, y, n + s + k)
    BY <1>1, <1>2, <1>3, <1>4 DEF Stream
  <1> QED
    BY <1>5 DEF r

LEMMA StreamBuffered ==
    ASSUME NEW a \in Seq(Bytes), NEW b \in Seq(Bytes), NEW n \in Nat, Stream(a, b, n), NEW k \in Nat,
           NEW y \in Seq(Bytes), Len(y) = k, \A i \in 1..k : y[i] = n + i
    PROVE  Stream(a, b \o y, n + k)
  <1> DEFINE m == Len(a)
             l == Len(b)
             r == b \o y
  <1>1. /\ m \in Nat /\ l \in Nat /\ m + l = n
        /\ \A i \in 1..m : a[i] = i
        /\ \A i \in 1..l : b[i] = m + i
    BY DEF Stream
  <1>2. /\ Len(r) = l + k
        /\ \A i \in 1..l : r[i] = b[i]
        /\ \A i \in 1..(l + k) : i \in 1..l \/ (i - l \in 1..k /\ r[i] = y[i - l])
    BY Concat
  <1> HIDE DEF r, l, m
  <1>3. ASSUME NEW i \in 1..(l + k) PROVE r[i] = m + i
    <2>1. CASE i \in 1..l
      BY <1>1, <1>2, <2>1
    <2>2. CASE i - l \in 1..k /\ r[i] = y[i - l]
      <3>1. y[i - l] = n + (i - l)
        BY <1>1, <2>2
      <3> QED
        BY <1>1, <2>2, <3>1
    <2> QED
      BY <1>1, <1>2, <2>1, <2>2
  <1>4. m + (l + k) = n + k
    BY <1>1
  <1>5. Stream(a, r, n + k)
    BY <1>1, <1>2, <1>3, <1>4 DEF Stream, m
  <1> QED
    BY <1>5 DEF r

(* The first m buffered bytes are written.                                    *)
LEMMA StreamMoved ==
    ASSUME NEW a \in Seq(Bytes), NEW b \in Seq(Bytes), NEW n \in Nat, Stream(a, b, n),
           NEW m \in 0..Len(b)
    PROVE  Stream(a \o SubSeq(b, 1, m), SubSeq(b, m + 1, Len(b)), n)
  <1> DEFINE x == SubSeq(b, 1, m)
             y == SubSeq(b, m + 1, Len(b))
             k == Len(a)
             l == Len(b)
             r == a \o x
  <1>1. /\ k \in Nat /\ l \in Nat /\ k + l = n /\ m \in 0..l
        /\ \A i \in 1..k : a[i] = i
        /\ \A i \in 1..l : b[i] = k + i
    BY DEF Stream
  <1>2. Len(x) = m /\ (\A i \in 1..m : x[i] = b[i]) /\ x \in Seq(Bytes)
    OBVIOUS
  <1>3. Len(y) = l - m /\ (\A i \in 1..(l - m) : y[i] = b[m + i]) /\ y \in Seq(Bytes)
    OBVIOUS
  <1> HIDE DEF x, y
  <1>4. /\ Len(r) = k + m
        /\ \A i \in 1..k : r[i] = a[i]
        /\ \A i \in 1..(k + m) : i \in 1..k \/ (i - k \in 1..m /\ r[i] = x[i - k])
    BY <1>2, Concat
  <1> HIDE DEF r, l, k
  <1>5. \A i \in 1..m : i \in 1..l
    BY <1>1
  <1>6. ASSUME NEW i \in 1..(k + m) PROVE r[i] = i
    <2>1. CASE i \in 1..k
      BY <1>1, <1>4, <2>1
    <2>2. CASE i - k \in 1..m /\ r[i] = x[i - k]
      <3>1. x[i - k] = k + (i - k)
        BY <1>1, <1>2, <1>5, <2>2
      <3> QED
        BY <1>1, <2>2, <3>1
    <2> QED
      BY <1>1, <1>4, <2>1, <2>2
  <1>7. \A i \in 1..(l - m) : y[i] = k + m + i
    BY <1>1, <1>3
  <1>8. (k + m) + (l - m) = n
    BY <1>1
  <1>9. Stream(r, y, n)
    BY <1>3, <1>4, <1>6, <1>7, <1>8 DEF Stream
  <1> QED
    BY <1>9 DEF r, x, y, l


-----------------------------------------------------------------------------
(* sendInLoop                                                                 *)

Interests == [read : BOOLEAN, write : BOOLEAN, added : BOOLEAN]
Sockets == [room : 0..Room, peer : {"open", "eof", "reset"}, error : BOOLEAN,
            input : 0..MaxInput, shutWr : BOOLEAN]

LEMMA MessageBytes ==
    ASSUME accepted \in 0..MaxBytes, NEW o \in Nat \cup {-1}, NEW n \in Nat,
           accepted + o + n <= MaxBytes
    PROVE  /\ BytesAt(o, n) \in Seq(Bytes) /\ Len(BytesAt(o, n)) = n
           /\ o >= 0 => \A i \in 1..n : BytesAt(o, n)[i] = accepted + o + i
  <1> MaxBytes \in Nat
    BY ConnAssumption
  <1>1. ASSUME NEW i \in 1..n
        PROVE  (IF o + i = 0 THEN Garbage ELSE accepted + o + i) \in Bytes
    BY DEF Bytes
  <1>2. BytesAt(o, n) = [i \in 1..n |-> IF o + i = 0 THEN Garbage ELSE accepted + o + i]
    BY DEF BytesAt
  <1>3. BytesAt(o, n) \in [1..n -> Bytes]
    BY <1>1, <1>2
  <1>4. BytesAt(o, n) \in Seq(Bytes) /\ Len(BytesAt(o, n)) = n
    BY <1>3
  <1>5. ASSUME o >= 0, NEW i \in 1..n PROVE BytesAt(o, n)[i] = accepted + o + i
    BY <1>2, <1>5
  <1> QED
    BY <1>4, <1>5

LEMMA WriteBounds ==
    ASSUME socket \in Sockets, NEW n \in Nat
    PROVE  /\ WriteReturns(n) \in Nat \cup {-1} /\ WriteReturns(n) <= n
           /\ WriteReturns(n) <= socket.room
           /\ Broken => WriteReturns(n) = -1
  <1> Room \in Nat
    BY ConnAssumption
  <1> socket.room \in Nat
    BY DEF Sockets
  <1> QED
    BY DEF WriteReturns

(* The functors, the channel, the buffers and the counters after sendInLoop.  *)
SendLeaves(rest, len) ==
    /\ functors' \in Seq(Functors)
    /\ \A x \in Functors \ {"callback"} : /\ In(functors', x) <=> In(rest, x)
                                          /\ AtMostOnce(rest, x) => AtMostOnce(functors', x)
    /\ channel' \in Interests /\ channel'.read = channel.read
    /\ outputBuffer' \in Seq(Bytes) /\ wire' \in Seq(Bytes)
    /\ socket' \in Sockets /\ socket'.input = socket.input
    /\ accepted' \in 0..MaxBytes /\ accepted' <= accepted + len
    /\ mangled' \in BOOLEAN /\ alarms' \in Nat
    /\ channel'.write => Up
    /\ Up => (channel'.write <=> outputBuffer' # << >>)
    /\ socket'.shutWr /\ state # "KDisconnected" => outputBuffer' = << >>
    /\ ~mangled' => Stream(wire', outputBuffer', accepted')
    /\ alarms' = IF Len(outputBuffer') >= HighWaterMark THEN 1 ELSE 0


(* What one message of sendInLoop is cut into, outside KDisconnected.         *)
LEMMA SendEffect ==
    ASSUME TypeOK, ControlInv, DataInv, NEW len \in 0..MaxMessage, accepted + len <= MaxBytes,
           state # "KConnecting", NEW rest \in Seq(Functors), SendInLoop(len, rest)
    PROVE  SendLeaves(rest, len)
  <1> USE DEF Interests, Sockets
  <1> MaxBytes \in Nat /\ MaxMessage \in Nat /\ HighWaterMark \in Nat \ {0} /\ Room \in Nat
    BY ConnAssumption
  <1>t. /\ state \in States /\ channel \in Interests /\ socket \in Sockets
        /\ outputBuffer \in Seq(Bytes) /\ wire \in Seq(Bytes)
        /\ accepted \in 0..MaxBytes /\ mangled \in BOOLEAN /\ alarms \in Nat
    BY DEF TypeOK, Bytes
  <1>1. CASE state = "KDisconnected"
    <2>1. functors' = rest
          /\ UNCHANGED <<channel, outputBuffer, socket, wire, accepted, mangled, alarms>>
      BY <1>1, Zenon DEF SendInLoop
    <2>2. ~Up /\ ~channel.write
      BY <1>1 DEF Up, ControlInv
    <2> QED
      BY <1>t, <1>1, <2>1, <2>2 DEF SendLeaves, DataInv, Stream
  <1>2. CASE state # "KDisconnected"
    <2> DEFINE direct    == CanWriteDirect
               nWrote    == IF direct THEN WriteReturns(len) ELSE 0
               sent      == IF nWrote > 0 THEN nWrote ELSE 0
               remaining == len - sent
               error     == direct /\ Broken
               buffered  == IF error THEN 0 ELSE remaining
               alarm     == buffered > 0 /\ CrossesMark(Len(outputBuffer), remaining)
               one       == IF direct /\ nWrote >= 0 /\ remaining = 0 THEN <<"callback">> ELSE << >>
               two       == IF alarm THEN <<"callback">> ELSE << >>
               x         == BytesAt(0, sent)
               y         == BytesAt(nWrote, buffered)
    <2>1. /\ outputBuffer' = outputBuffer \o y
          /\ channel' = [channel EXCEPT !.write = @ \/ buffered > 0]
          /\ socket' = [socket EXCEPT !.room = @ - sent]
          /\ wire' = wire \o x
          /\ accepted' = IF error THEN accepted ELSE accepted + len
          /\ mangled' = (mangled \/ (nWrote < 0 /\ buffered > 0))
          /\ alarms' = IF alarm THEN alarms + 1 ELSE alarms
          /\ functors' = rest \o one \o two
      BY <1>2, Zenon DEF SendInLoop
    <2>2. Up /\ (socket.shutWr => outputBuffer = << >>) /\ (channel.write <=> outputBuffer # << >>)
      BY <1>2, <1>t DEF Up, States, DataInv
    <2>3. direct <=> outputBuffer = << >>
      BY <2>2 DEF CanWriteDirect
    <2>4. /\ nWrote \in Nat \cup {-1} /\ nWrote <= len /\ sent \in 0..len /\ remaining \in 0..len
          /\ sent <= socket.room /\ (nWrote >= 0 => nWrote = sent)
          /\ buffered \in 0..len /\ (error => sent = 0 /\ buffered = 0)
          /\ (~error => buffered = remaining /\ sent + buffered = len)
          /\ (~direct => ~error /\ nWrote = 0 /\ sent = 0 /\ buffered = len)
          /\ (socket.shutWr => error)
      <3>1. WriteReturns(len) \in Nat \cup {-1} /\ WriteReturns(len) <= len
            /\ WriteReturns(len) <= socket.room /\ (Broken => WriteReturns(len) = -1)
        BY <1>t, WriteBounds
      <3>2. socket.room \in Nat /\ (socket.shutWr => Broken /\ direct)
        BY <1>t, <2>2, <2>3 DEF Broken
      <3> HIDE DEF direct
      <3>3. nWrote \in Nat \cup {-1} /\ nWrote <= len /\ nWrote <= socket.room
            /\ (direct /\ Broken => nWrote = -1) /\ (~direct => nWrote = 0)
        BY <3>1, <3>2
      <3> HIDE DEF nWrote
      <3>4. sent \in 0..len /\ sent <= socket.room /\ (nWrote >= 0 => nWrote = sent)
            /\ (nWrote <= 0 => sent = 0)
        BY <3>2, <3>3
      <3> HIDE DEF sent
      <3>5. remaining \in 0..len
        BY <3>4
      <3> QED
        BY <3>2, <3>3, <3>4, <3>5
    <2> DEFINE old == Len(outputBuffer)
    <2>m. old \in Nat
      BY <1>t
    <2>5. /\ x \in Seq(Bytes) /\ Len(x) = sent /\ (\A i \in 1..sent : x[i] = accepted + i)
          /\ y \in Seq(Bytes) /\ Len(y) = buffered
          /\ nWrote >= 0 => \A i \in 1..buffered : y[i] = accepted + sent + i
      <3> HIDE DEF nWrote, sent, buffered, error, remaining
      <3>1. /\ x \in Seq(Bytes) /\ Len(x) = sent
            /\ \A i \in 1..sent : x[i] = accepted + 0 + i
        <4>1. accepted + 0 + sent <= MaxBytes /\ sent \in Nat /\ 0 \in Nat \cup {-1} /\ 0 >= 0
          BY <1>t, <2>4
        <4> HIDE DEF x
        <4>2. /\ BytesAt(0, sent) \in Seq(Bytes) /\ Len(BytesAt(0, sent)) = sent
              /\ \A i \in 1..sent : BytesAt(0, sent)[i] = accepted + 0 + i
          BY <1>t, <4>1, MessageBytes
        <4> QED
          BY <4>2 DEF x
      <3>2. accepted + nWrote + buffered <= MaxBytes
        BY <1>t, <2>4
      <3>3. /\ y \in Seq(Bytes) /\ Len(y) = buffered
            /\ nWrote >= 0 => \A i \in 1..buffered : y[i] = accepted + nWrote + i
        <4>1. buffered \in Nat /\ nWrote \in Nat \cup {-1}
          BY <2>4
        <4> HIDE DEF y
        <4>2. /\ BytesAt(nWrote, buffered) \in Seq(Bytes) /\ Len(BytesAt(nWrote, buffered)) = buffered
              /\ nWrote >= 0 =>
                   \A i \in 1..buffered : BytesAt(nWrote, buffered)[i] = accepted + nWrote + i
          BY <1>t, <3>2, <4>1, MessageBytes
        <4> QED
          BY <4>2 DEF y
      <3> HIDE DEF x, y
      <3> QED
        BY <1>t, <2>4, <3>1, <3>3
    <2>6. /\ alarm <=> buffered > 0 /\ old + buffered >= HighWaterMark /\ old < HighWaterMark
      <3> HIDE DEF old
      <3>1. buffered > 0 => buffered = remaining
        OBVIOUS
      <3> HIDE DEF remaining, buffered
      <3> QED
        BY <3>1 DEF CrossesMark, old
    <2>7. one = <<"callback">> \/ one = << >>
      BY Zenon
    <2>8. two = <<"callback">> \/ two = << >>
      BY Zenon
    <2> HIDE DEF direct, nWrote, sent, remaining, error, buffered, alarm, one, two, x, y
    <2>9. /\ functors' \in Seq(Functors)
          /\ \A f \in Functors \ {"callback"} :
               /\ In(functors', f) <=> In(rest, f)
               /\ AtMostOnce(rest, f) => AtMostOnce(functors', f)
      <3>1. /\ rest \o one \in Seq(Functors)
            /\ \A f \in Functors \ {"callback"} :
                 /\ In(rest \o one, f) <=> In(rest, f)
                 /\ AtMostOnce(rest, f) => AtMostOnce(rest \o one, f)
        BY <2>7, CallbacksBehind
      <3>2. /\ (rest \o one) \o two \in Seq(Functors)
            /\ \A f \in Functors \ {"callback"} :
                 /\ In((rest \o one) \o two, f) <=> In(rest \o one, f)
                 /\ AtMostOnce(rest \o one, f) => AtMostOnce((rest \o one) \o two, f)
        BY <2>8, <3>1, CallbacksBehind
      <3> QED
        BY <2>1, <3>1, <3>2
    <2>10. /\ outputBuffer' \in Seq(Bytes) /\ Len(outputBuffer') = old + buffered
           /\ wire' \in Seq(Bytes)
      <3>1. outputBuffer \o y \in Seq(Bytes) /\ Len(outputBuffer \o y) = old + buffered
        BY ONLY <1>t, <2>5, Concat DEF old
      <3>2. wire \o x \in Seq(Bytes)
        BY <1>t, <2>5
      <3> QED
        BY <2>1, <3>1, <3>2
    <2>11. outputBuffer' = << >> <=> old + buffered = 0
      BY <2>10
    <2>12. outputBuffer = << >> <=> old = 0
      BY <1>t
    <2> HIDE DEF old
    <2>13. /\ channel' \in Interests /\ channel'.read = channel.read
           /\ channel'.write <=> channel.write \/ buffered > 0
      BY <1>t, <2>1
    <2>14. /\ socket' \in Sockets /\ socket'.input = socket.input
           /\ socket'.shutWr = socket.shutWr
      <3>1. socket.room \in 0..Room /\ socket.room - sent \in 0..Room
        BY <1>t, <2>4
      <3> QED
        BY <1>t, <2>1, <3>1
    <2>15. /\ accepted' \in 0..MaxBytes /\ accepted' <= accepted + len
           /\ accepted' = accepted + sent + buffered
      <3>1. accepted \in Nat /\ accepted <= MaxBytes /\ sent \in Nat /\ buffered \in Nat
        BY <1>t, <2>4
      <3>2. CASE error
        BY <2>1, <2>4, <3>1, <3>2
      <3>3. CASE ~error
        <4>1. accepted' = accepted + len /\ sent + buffered = len
          BY <2>1, <2>4, <3>3, Zenon
        <4>2. len \in Nat /\ accepted + len <= MaxBytes
          OBVIOUS
        <4> QED
          BY <3>1, <4>1, <4>2
      <3> QED
        BY <3>2, <3>3
    <2>16. mangled' \in BOOLEAN /\ alarms' \in Nat
      BY <1>t, <2>1
    <2>17. channel'.write <=> outputBuffer' # << >>
      BY <2>m, <2>2, <2>4, <2>11, <2>12, <2>13
    <2>18. socket'.shutWr => outputBuffer' = << >>
      BY <2>2, <2>4, <2>11, <2>12, <2>14
    <2>19. alarms' = IF Len(outputBuffer') >= HighWaterMark THEN 1 ELSE 0
      <3>1. alarms = IF old >= HighWaterMark THEN 1 ELSE 0
        BY DEF DataInv, old
      <3>2. /\ alarms' = IF alarm THEN alarms + 1 ELSE alarms
            /\ alarm <=> buffered > 0 /\ old + buffered >= HighWaterMark /\ old < HighWaterMark
            /\ Len(outputBuffer') = old + buffered
        BY <2>1, <2>6, <2>10, Zenon
      <3>3. old \in Nat /\ buffered \in Nat
        BY <2>m, <2>4
      <3> QED
        BY <3>1, <3>2, <3>3
    <2>20. ASSUME ~mangled' PROVE Stream(wire', outputBuffer', accepted')
      <3>1. /\ Stream(wire, outputBuffer, accepted)
            /\ nWrote >= 0 \/ buffered = 0
        <4>1. ~mangled /\ ~(nWrote < 0 /\ buffered > 0)
          BY <2>1, <2>20, Zenon
        <4>2. nWrote >= 0 \/ buffered = 0
          BY <2>4, <4>1
        <4> QED
          BY <4>1, <4>2 DEF DataInv
      <3>2. \A i \in 1..buffered : y[i] = accepted + sent + i
        BY <2>4, <2>5, <3>1
      <3>3. CASE direct
        <4>1. outputBuffer = << >> /\ outputBuffer' = y
          BY <2>1, <2>3, <2>5, <3>3
        <4>2. Stream(wire \o x, y, accepted + sent + buffered)
          <5>1. sent \in Nat /\ buffered \in Nat /\ accepted \in Nat /\ Stream(wire, << >>, accepted)
            BY <1>t, <2>4, <3>1, <4>1
          <5> QED
            BY <1>t, <2>5, <3>2, <5>1, StreamDirect
        <4> QED
          BY <2>1, <2>15, <4>1, <4>2
      <3>4. CASE ~direct
        <4>1. sent = 0 /\ x = << >> /\ wire' = wire
          BY <1>t, <2>1, <2>4, <2>5, <3>4
        <4>2. \A i \in 1..buffered : y[i] = accepted + i
          BY <1>t, <3>2, <4>1
        <4>3. Stream(wire, outputBuffer \o y, accepted + buffered)
          BY <1>t, <2>4, <2>5, <3>1, <4>2, StreamBuffered
        <4>4. accepted' = accepted + buffered
          BY <1>t, <2>4, <2>15, <4>1
        <4> QED
          BY <2>1, <4>1, <4>3, <4>4
      <3> QED
        BY <3>3, <3>4
    <2> QED
      BY <2>2, <2>9, <2>10, <2>13, <2>14, <2>15, <2>16, <2>17, <2>18, <2>19, <2>20
      DEF SendLeaves
  <1> QED
    BY <1>1, <1>2


-----------------------------------------------------------------------------
(* The steps                                                                  *)

LEMMA InitHolds == Init => ConnInv
  <1> SUFFICES ASSUME Init PROVE ConnInv
    OBVIOUS
  <1> USE ConnAssumption
  <1>1. TypeOK
    <2>1. socket \in [room : 0..Room, peer : {"open", "eof", "reset"}, error : BOOLEAN,
                      input : 0..MaxInput, shutWr : BOOLEAN]
      BY DEF Init
    <2>2. channel \in [read : BOOLEAN, write : BOOLEAN, added : BOOLEAN]
      BY DEF Init
    <2>3. functors \in Seq(Functors)
      BY DEF Init, Functors
    <2>4. foreign \in -1..MaxMessage /\ accepted \in 0..MaxBytes /\ inputBuffer \in 0..MaxInput
      BY DEF Init
    <2>5. /\ outputBuffer \in Seq((1..MaxBytes) \cup {Garbage})
          /\ wire \in Seq((1..MaxBytes) \cup {Garbage})
      BY DEF Init
    <2>6. /\ state \in States /\ revents \subseteq {"HUP", "IN", "OUT"}
          /\ callback \in BOOLEAN /\ timers \in 0..1 /\ mangled \in BOOLEAN
          /\ owner \in {"holds", "removes", "released", "destroyed"}
          /\ alarms \in Nat /\ aborted \in BOOLEAN
          /\ handling \in BOOLEAN /\ overtaken \in BOOLEAN
      <3>1. /\ state = "KConnecting" /\ revents = {} /\ callback = FALSE /\ timers = 0
            /\ mangled = FALSE /\ owner = "holds" /\ alarms = 0 /\ aborted = FALSE
            /\ handling = FALSE /\ overtaken = FALSE
        BY DEF Init
      <3>2. timers \in 0..1 /\ alarms \in Nat
        BY <3>1
      <3> QED
        BY <3>1, <3>2, Zenon DEF States
    <2> QED
      BY <2>1, <2>2, <2>3, <2>4, <2>5, <2>6, Zenon DEF TypeOK
  <1>2. Len(functors) = 1 /\ functors[1] = "ConnectEstablished" /\ 1..1 = {1}
    BY DEF Init
  <1>3. ControlInv
    BY <1>2 DEF Init, ControlInv, In, AtMostOnce, Up
  <1>4. Stream(wire, outputBuffer, accepted)
    BY DEF Init, Stream
  <1>5. DataInv
    BY <1>4 DEF Init, DataInv, Up
  <1> QED
    BY <1>1, <1>3, <1>5 DEF ConnInv

LEMMA Within ==
    ASSUME NEW a \in Nat, NEW b \in Nat, NEW l \in Nat, NEW k \in Nat, NEW n \in Nat,
           b <= a + l, a + l + k <= n
    PROVE  b + k <= n
  OBVIOUS

LEMMA SendKeeps ==
    ASSUME ConnInv, NEW len \in 0..MaxMessage, Send(len)
    PROVE  ConnInv'
  <1>1. TypeOK /\ ControlInv /\ DataInv /\ state = "KConnected" /\ CanAccept(len)
        /\ SendInLoop(len, functors)
        /\ UNCHANGED <<state, revents, handling, callback, inputBuffer, timers, owner, foreign,
                       overtaken, aborted>>
    BY DEF ConnInv, Send
  <1>2. accepted + len <= MaxBytes
        /\ accepted + len + (IF foreign > 0 THEN foreign ELSE 0) <= MaxBytes
    BY <1>1, ConnAssumption DEF CanAccept, TypeOK
  <1>3. SendLeaves(functors, len)
    BY <1>1, <1>2, SendEffect DEF TypeOK
  <1>4. TypeOK'
    BY <1>1, <1>3 DEF TypeOK, SendLeaves, Interests, Sockets, Bytes
  <1>5. ControlInv'
    BY <1>1, <1>3 DEF ControlInv, SendLeaves, Up, Functors
  <1>6. accepted' + (IF foreign' > 0 THEN foreign' ELSE 0) <= MaxBytes
    <2>1. /\ accepted' <= accepted + len /\ accepted' \in Nat /\ accepted \in Nat /\ len \in Nat
          /\ foreign' = foreign /\ foreign \in Int /\ MaxBytes \in Nat
      BY <1>1, <1>3, ConnAssumption DEF SendLeaves, TypeOK
    <2>2. ASSUME NEW k \in Nat, accepted + len + k <= MaxBytes PROVE accepted' + k <= MaxBytes
      BY <2>1, <2>2, Within
    <2>3. (IF foreign > 0 THEN foreign ELSE 0) \in Nat
      BY <2>1
    <2> QED
      BY <1>2, <2>1, <2>2, <2>3, Zenon
  <1>7. DataInv'
    BY <1>1, <1>3, <1>6 DEF DataInv, SendLeaves, Up
  <1> QED
    BY <1>4, <1>5, <1>7 DEF ConnInv

LEMMA ForeignSendKeeps ==
    ASSUME ConnInv, NEW len \in 0..MaxMessage, ForeignSend(len)
    PROVE  ConnInv'
  <1>1. TypeOK'
    BY ConnAssumption DEF ConnInv, TypeOK, ForeignSend
  <1>2. ControlInv'
    BY ConnAssumption DEF ConnInv, ControlInv, ForeignSend, Up
  <1>3. foreign' = len /\ accepted' = accepted /\ accepted + len <= MaxBytes
    BY DEF ForeignSend, CanAccept, ConnInv, TypeOK
  <1>4. DataInv'
    BY <1>3, ConnAssumption DEF ConnInv, DataInv, ForeignSend, Up, TypeOK
  <1> QED
    BY <1>1, <1>2, <1>4 DEF ConnInv

(* A functor is added at the end of the loop's queue.                         *)
LEMMA QueuesKeeps ==
    ASSUME ConnInv, NEW f \in Functors, functors' = Append(functors, f),
           f # "ConnectEstablished",
           f = "ConnectDestoryed" => owner = "removes" /\ ~In(functors, f),
           f = "sendInLoop" => foreign >= 0 /\ ~In(functors, f),
           state' = state \/ (Up /\ state' = "KDisconnecting"),
           UNCHANGED <<channel, revents, handling, callback, outputBuffer, inputBuffer, timers,
                       owner, foreign, socket, wire, accepted, mangled, alarms, overtaken,
                       aborted>>
    PROVE  ConnInv'
  <1>1. /\ functors' \in Seq(Functors)
        /\ \A x : /\ In(functors', x) <=> In(functors, x) \/ x = f
                  /\ AtMostOnce(functors, x) /\ ~(x = f /\ In(functors, f)) => AtMostOnce(functors', x)
    BY AppendHas DEF ConnInv, TypeOK
  <1>2. TypeOK'
    BY <1>1 DEF ConnInv, TypeOK, States
  <1>3. ControlInv'
    <2>1. \A x \in Functors \ {"callback", "forceCloseInLoop"} : AtMostOnce(functors', x)
      BY <1>1 DEF ConnInv, ControlInv, Functors
    <2> QED
      BY <1>1, <2>1 DEF ConnInv, ControlInv, Up
  <1>4. DataInv'
    BY DEF ConnInv, DataInv, Up
  <1> QED
    BY <1>2, <1>3, <1>4 DEF ConnInv

LEMMA QueuedIs ==
    ASSUME TypeOK, NEW f PROVE Queued(f) <=> In(functors, f)
  BY DEF TypeOK, Queued, In

LEMMA ForeignSendQueuesKeeps ==
    ASSUME ConnInv, ForeignSendQueues PROVE ConnInv'
  <1>1. ~In(functors, "sendInLoop")
    BY QueuedIs DEF ForeignSendQueues, ConnInv
  <1>2. "sendInLoop" \in Functors
    BY DEF Functors
  <1> QED
    BY <1>1, <1>2, QueuesKeeps DEF ForeignSendQueues

LEMMA OwnerRemovesKeeps ==
    ASSUME ConnInv, OwnerRemoves PROVE ConnInv'
  <1>1. ~In(functors, "ConnectDestoryed")
    BY QueuedIs DEF OwnerRemoves, ConnInv
  <1>2. "ConnectDestoryed" \in Functors
    BY DEF Functors
  <1> QED
    BY <1>1, <1>2, QueuesKeeps DEF OwnerRemoves

LEMMA ForceCloseKeeps ==
    ASSUME ConnInv, ForceClose PROVE ConnInv'
  <1>1. "forceCloseInLoop" \in Functors /\ Up
    BY DEF Functors, ForceClose, Up
  <1> QED
    BY <1>1, QueuesKeeps DEF ForceClose

(* Steps that only move the state among the open ones, set the callback flag  *)
(* or start the timer.                                                        *)
LEMMA QuietKeeps ==
    ASSUME ConnInv, state' = state \/ (Up /\ state' = "KDisconnecting"),
           callback' \in BOOLEAN, timers' \in 0..1, revents' \subseteq {"HUP", "IN", "OUT"},
           "HUP" \in revents' \/ "IN" \in revents' => Up \/ overtaken,
           handling' \in BOOLEAN, overtaken' \in BOOLEAN, overtaken => overtaken',
           UNCHANGED <<channel, outputBuffer, inputBuffer, functors, owner,
                       foreign, socket, wire, accepted, mangled, alarms, aborted>>
    PROVE  ConnInv'
  <1>1. TypeOK'
    BY DEF ConnInv, TypeOK, States
  <1>2. ControlInv'
    BY DEF ConnInv, ControlInv, Up
  <1>3. DataInv'
    BY DEF ConnInv, DataInv, Up
  <1> QED
    BY <1>1, <1>2, <1>3 DEF ConnInv


LEMMA CallbackStepsKeep ==
    ASSUME ConnInv, ForceCloseWithDelay \/ CallbackReturns \/ UserTimer PROVE ConnInv'
  <1>1. callback' \in BOOLEAN /\ timers' \in 0..1
    <2>1. callback \in BOOLEAN /\ timers \in 0..1 /\ 1 \in 0..1
      BY DEF ConnInv, TypeOK
    <2>2. callback' \in {callback, TRUE, FALSE} /\ timers' \in {timers, 1}
      BY Zenon DEF ForceCloseWithDelay, CallbackReturns, UserTimer
    <2> QED
      BY <2>1, <2>2
  <1>2. state' = state \/ (Up /\ state' = "KDisconnecting")
    BY DEF ForceCloseWithDelay, CallbackReturns, UserTimer, Up
  <1>3. /\ revents' = revents /\ handling' = handling /\ overtaken' = overtaken
        /\ UNCHANGED <<channel, outputBuffer, inputBuffer, functors, owner, foreign, socket, wire,
                       accepted, mangled, alarms, aborted>>
    BY DEF ForceCloseWithDelay, CallbackReturns, UserTimer
  <1>4. /\ revents \subseteq {"HUP", "IN", "OUT"} /\ handling \in BOOLEAN /\ overtaken \in BOOLEAN
        /\ "HUP" \in revents \/ "IN" \in revents => Up \/ overtaken
    BY DEF ConnInv, TypeOK, ControlInv
  <1> QED
    BY <1>1, <1>2, <1>3, <1>4, QuietKeeps

LEMMA PollChannelKeeps ==
    ASSUME ConnInv, PollChannel PROVE ConnInv'
  <1>1. Up
    BY DEF ConnInv, ControlInv, PollChannel
  <1>2. revents' \subseteq {"HUP", "IN", "OUT"}
    BY DEF PollChannel
  <1>3. /\ state' = state /\ callback' = callback /\ timers' = timers
        /\ handling' = handling /\ overtaken' = overtaken
        /\ UNCHANGED <<channel, outputBuffer, inputBuffer, functors, owner, foreign, socket, wire,
                       accepted, mangled, alarms, aborted>>
    BY DEF PollChannel
  <1>4. callback \in BOOLEAN /\ timers \in 0..1 /\ handling \in BOOLEAN /\ overtaken \in BOOLEAN
    BY DEF ConnInv, TypeOK
  <1> QED
    BY <1>1, <1>2, <1>3, <1>4, QuietKeeps

LEMMA HandleWriteNoneKeeps ==
    ASSUME ConnInv, HandleWriteNone PROVE ConnInv'
  <1>1. /\ revents' \subseteq {"HUP", "IN", "OUT"}
        /\ "HUP" \in revents' \/ "IN" \in revents' => Up \/ overtaken
    BY DEF ConnInv, TypeOK, ControlInv, HandleWriteNone, HandleEvent
  <1>2. /\ state' = state /\ callback' = callback /\ timers' = timers
        /\ handling' \in BOOLEAN /\ overtaken' = overtaken
        /\ UNCHANGED <<channel, outputBuffer, inputBuffer, functors, owner, foreign, socket, wire,
                       accepted, mangled, alarms, aborted>>
    BY DEF HandleWriteNone, HandleEvent
  <1>3. callback \in BOOLEAN /\ timers \in 0..1 /\ overtaken \in BOOLEAN
    BY DEF ConnInv, TypeOK
  <1> QED
    BY <1>1, <1>2, <1>3, QuietKeeps

LEMMA ShutdownKeeps ==
    ASSUME ConnInv, Shutdown PROVE ConnInv'
  <1>1. /\ Up /\ state' = "KDisconnecting"
        /\ socket' = [socket EXCEPT !.shutWr = @ \/ ~channel.write]
        /\ UNCHANGED <<channel, revents, handling, callback, outputBuffer, inputBuffer, functors,
                       timers, owner, foreign, wire, accepted, mangled, alarms, overtaken, aborted>>
    BY DEF Shutdown, ShutdownInLoop, Up
  <1>2. TypeOK'
    <2>1. socket' \in [room : 0..Room, peer : {"open", "eof", "reset"}, error : BOOLEAN,
                       input : 0..MaxInput, shutWr : BOOLEAN]
      BY <1>1 DEF ConnInv, TypeOK
    <2> QED
      BY <1>1, <2>1 DEF ConnInv, TypeOK, States
  <1>3. ControlInv'
    BY <1>1 DEF ConnInv, ControlInv, Up
  <1>4. /\ socket'.input = socket.input
        /\ socket'.shutWr => socket.shutWr \/ ~channel.write
    BY <1>1 DEF ConnInv, TypeOK
  <1>5. socket'.shutWr => outputBuffer = << >>
    BY <1>1, <1>4 DEF ConnInv, DataInv, Up
  <1>6. DataInv'
    BY <1>1, <1>4, <1>5 DEF ConnInv, DataInv, Up
  <1> QED
    BY <1>2, <1>3, <1>6 DEF ConnInv

(* handleClose on an open connection: its events are gone, so nothing closes  *)
(* it a second time, or the timer has overtaken them.                         *)
LEMMA CloseKeeps ==
    ASSUME ConnInv, Up, HandleClose, revents' \subseteq {"HUP", "IN", "OUT"},
           "HUP" \in revents' \/ "IN" \in revents' => overtaken',
           handling' \in BOOLEAN, overtaken' \in BOOLEAN, overtaken => overtaken',
           functors' \in Seq(Functors),
           \A x : /\ In(functors', x) => In(functors, x)
                  /\ AtMostOnce(functors, x) => AtMostOnce(functors', x),
           timers' \in 0..1, inputBuffer' \in 0..MaxInput, socket' \in Sockets,
           socket'.shutWr = socket.shutWr, inputBuffer' + socket'.input <= MaxInput,
           UNCHANGED <<outputBuffer, foreign, wire, accepted, mangled, alarms>>
    PROVE  ConnInv'
  <1>1. /\ state' = "KDisconnected" /\ callback' = TRUE /\ owner' = "removes"
        /\ channel' = [channel EXCEPT !.read = FALSE, !.write = FALSE]
        /\ aborted' = aborted
    BY DEF HandleClose, Up
  <1>2. TypeOK'
    BY <1>1 DEF ConnInv, TypeOK, States, Sockets
  <1>3. ~channel'.read /\ ~channel'.write
    BY <1>1 DEF ConnInv, TypeOK
  <1>4. ControlInv'
    <2>1. ~In(functors, "ConnectEstablished")
      BY DEF ConnInv, ControlInv, Up
    <2>2. \A x \in Functors \ {"callback", "forceCloseInLoop"} : AtMostOnce(functors', x)
      BY DEF ConnInv, ControlInv
    <2> QED
      BY <1>1, <1>3, <2>1, <2>2 DEF ConnInv, ControlInv, Up
  <1>5. DataInv'
    BY <1>1, <1>3 DEF ConnInv, DataInv, Up
  <1> QED
    BY <1>2, <1>4, <1>5 DEF ConnInv

(* handleClose a second time, behind the timer: the assert fails.             *)
LEMMA CloseTwiceKeeps ==
    ASSUME ConnInv, ~Up, overtaken, HandleClose, revents' \subseteq revents,
           handling' \in BOOLEAN, overtaken' = overtaken,
           functors' = functors, timers' = timers, inputBuffer' \in 0..MaxInput,
           socket' \in Sockets, socket'.shutWr = socket.shutWr,
           inputBuffer' + socket'.input <= MaxInput,
           UNCHANGED <<outputBuffer, foreign, wire, accepted, mangled, alarms>>
    PROVE  ConnInv'
  <1>1. aborted' = TRUE /\ UNCHANGED <<state, channel, callback, owner>>
    BY DEF HandleClose, Up
  <1>2. TypeOK'
    BY <1>1 DEF ConnInv, TypeOK, Sockets
  <1>3. ControlInv'
    BY <1>1 DEF ConnInv, ControlInv, Up
  <1>4. DataInv'
    BY <1>1 DEF ConnInv, DataInv, Up
  <1> QED
    BY <1>2, <1>3, <1>4 DEF ConnInv

LEMMA SameQueue ==
    ASSUME ConnInv
    PROVE  functors \in Seq(Functors) /\ timers \in 0..1 /\ inputBuffer \in 0..MaxInput
           /\ socket \in Sockets /\ inputBuffer + socket.input <= MaxInput
           /\ owner \in {"holds", "removes", "released", "destroyed"}
           /\ channel \in Interests /\ callback \in BOOLEAN
  BY DEF ConnInv, TypeOK, DataInv, Sockets, Interests

LEMMA Reported ==
    ASSUME ConnInv
    PROVE  /\ handling \in BOOLEAN /\ overtaken \in BOOLEAN
           /\ revents \subseteq {"HUP", "IN", "OUT"}
           /\ "HUP" \in revents \/ "IN" \in revents => Up \/ overtaken
  BY DEF ConnInv, TypeOK, ControlInv

LEMMA ForceCloseTimerKeeps ==
    ASSUME ConnInv, ForceCloseTimer PROVE ConnInv'
  <1>1. /\ revents' = revents /\ handling' = handling /\ timers' = 0 /\ ForceCloseInLoop
        /\ overtaken' = (overtaken \/ (Up /\ {"HUP", "IN"} \cap revents # {}))
        /\ UNCHANGED <<outputBuffer, inputBuffer, functors, foreign, socket, wire, accepted,
                       mangled, alarms>>
    BY DEF ForceCloseTimer
  <1>0. overtaken' \in BOOLEAN /\ (overtaken => overtaken')
    BY <1>1, Reported
  <1>2. CASE Up
    <2>1. HandleClose
      BY <1>1, <1>2 DEF ForceCloseInLoop, Up
    <2>2. "HUP" \in revents' \/ "IN" \in revents' => overtaken'
      BY <1>1, <1>2
    <2> QED
      BY <1>0, <1>1, <1>2, <2>1, <2>2, SameQueue, Reported, CloseKeeps
  <1>3. CASE ~Up
    <2>1. UNCHANGED <<state, channel, callback, owner, aborted>>
      BY <1>1, <1>3 DEF ForceCloseInLoop, Up
    <2> QED
      BY <1>0, <1>1, <2>1, SameQueue, Reported, QuietKeeps
  <1> QED
    BY <1>2, <1>3

LEMMA HandleHupKeeps ==
    ASSUME ConnInv, HandleHup PROVE ConnInv'
  <1>1. /\ "HUP" \in revents /\ revents' = revents \ {"HUP"}
        /\ handling' \in BOOLEAN /\ overtaken' = overtaken
        /\ IF "IN" \notin revents THEN HandleClose
           ELSE UNCHANGED <<state, channel, callback, owner, aborted>>
        /\ UNCHANGED <<outputBuffer, inputBuffer, functors, timers, foreign, socket, wire,
                       accepted, mangled, alarms>>
    BY DEF HandleHup, HandleEvent, EventOrder
  <1>2. (Up \/ overtaken) /\ revents' \subseteq revents
        /\ revents' \subseteq {"HUP", "IN", "OUT"}
    BY <1>1, Reported
  <1>3. CASE "IN" \notin revents
    <2>1. CASE Up
      <3>1. "HUP" \notin revents' /\ "IN" \notin revents'
        BY <1>1, <1>3
      <3> QED
        BY <1>1, <1>2, <1>3, <2>1, <3>1, SameQueue, Reported, CloseKeeps
    <2>2. CASE ~Up
      BY <1>1, <1>2, <1>3, <2>2, SameQueue, Reported, CloseTwiceKeeps
    <2> QED
      BY <2>1, <2>2
  <1>4. CASE "IN" \in revents
    BY <1>1, <1>2, <1>4, SameQueue, Reported, QuietKeeps
  <1> QED
    BY <1>3, <1>4

LEMMA SocketRead ==
    ASSUME NEW s \in Sockets, NEW e \in BOOLEAN
    PROVE  /\ [s EXCEPT !.input = 0, !.error = e] \in Sockets
           /\ [s EXCEPT !.input = 0, !.error = e].shutWr = s.shutWr
           /\ [s EXCEPT !.input = 0, !.error = e].input = 0
  <1> MaxInput \in Nat
    BY ConnAssumption
  <1> DEFINE t == [s EXCEPT !.input = 0]
  <1>1. t \in Sockets /\ t.shutWr = s.shutWr /\ t.input = 0
    BY DEF Sockets
  <1> HIDE DEF t
  <1>2. [t EXCEPT !.error = e] \in Sockets /\ [t EXCEPT !.error = e].shutWr = t.shutWr
        /\ [t EXCEPT !.error = e].input = t.input
    BY <1>1 DEF Sockets
  <1> QED
    BY <1>1, <1>2 DEF t

LEMMA HandleReadKeeps ==
    ASSUME ConnInv, HandleRead PROVE ConnInv'
  <1>1. /\ "IN" \in revents /\ "HUP" \notin revents /\ revents' = revents \ {"IN"}
        /\ handling' \in BOOLEAN /\ overtaken' = overtaken
        /\ inputBuffer' = ReadFd(ReadReturns)
        /\ socket' = [socket EXCEPT !.input = 0, !.error = @ /\ socket.input > 0]
        /\ IF CountsAsData(ReadReturns)
           THEN callback' = TRUE /\ UNCHANGED <<state, channel, owner, aborted>>
           ELSE HandleClose
        /\ UNCHANGED <<outputBuffer, functors, timers, foreign, wire, accepted, mangled, alarms>>
    <2>1. HandleEvent(2)
      BY DEF HandleRead
    <2>2. EventOrder[1] \notin revents /\ EventOrder[2] \in revents
          /\ revents' = revents \ {EventOrder[2]}
          /\ handling' \in BOOLEAN /\ overtaken' = overtaken
      BY <2>1 DEF HandleEvent
    <2>3. EventOrder[1] = "HUP" /\ EventOrder[2] = "IN"
      BY DEF EventOrder
    <2> QED
      BY <2>2, <2>3 DEF HandleRead
  <1>2. (Up \/ overtaken) /\ revents \subseteq {"HUP", "IN", "OUT"}
    BY <1>1, Reported
  <1>3. revents' \subseteq {"OUT"} /\ revents' \subseteq revents
    BY <1>1, <1>2
  <1>4. /\ socket' \in Sockets /\ socket'.shutWr = socket.shutWr /\ socket'.input = 0
    <2>1. (socket.error /\ socket.input > 0) \in BOOLEAN
      OBVIOUS
    <2> QED
      BY <1>1, <2>1, SameQueue, SocketRead
  <1>5. inputBuffer' \in 0..MaxInput
    <2>1. socket.input \in Nat /\ inputBuffer \in Nat /\ MaxInput \in Nat
          /\ inputBuffer + socket.input <= MaxInput
      BY SameQueue, ConnAssumption DEF Sockets
    <2>2. ReadReturns \in {-1, 0, socket.input}
      BY <2>1 DEF ReadReturns
    <2> QED
      BY <1>1, <2>1, <2>2 DEF ReadFd
  <1>6. inputBuffer' + socket'.input <= MaxInput
    BY <1>4, <1>5, ConnAssumption
  <1>7. CASE CountsAsData(ReadReturns)
    <2>1. callback' = TRUE /\ UNCHANGED <<state, channel, owner, aborted>>
      BY <1>1, <1>7
    <2>2. TypeOK'
      BY <1>1, <1>3, <1>4, <1>5, <2>1 DEF ConnInv, TypeOK, Sockets
    <2>3. ControlInv'
      BY <1>1, <1>2, <2>1 DEF ConnInv, ControlInv, Up
    <2>4. DataInv'
      BY <1>1, <1>4, <1>6, <2>1 DEF ConnInv, DataInv, Up
    <2> QED
      BY <2>2, <2>3, <2>4 DEF ConnInv
  <1>8. CASE ~CountsAsData(ReadReturns)
    <2>1. CASE Up
      BY <1>1, <1>3, <1>4, <1>5, <1>6, <1>8, <2>1, SameQueue, Reported, CloseKeeps
    <2>2. CASE ~Up
      BY <1>1, <1>2, <1>3, <1>4, <1>5, <1>6, <1>8, <2>2, SameQueue, Reported, CloseTwiceKeeps
    <2> QED
      BY <2>1, <2>2
  <1> QED
    BY <1>7, <1>8


Written(s, n, e) == [s EXCEPT !.room = @ - n, !.shutWr = e]

LEMMA SocketWritten ==
    ASSUME NEW s \in Sockets, NEW n \in 0..s.room, NEW e \in BOOLEAN
    PROVE  /\ Written(s, n, e) \in Sockets
           /\ Written(s, n, e).shutWr = e
           /\ Written(s, n, e).input = s.input
  <1> Room \in Nat
    BY ConnAssumption
  <1> DEFINE t == [s EXCEPT !.room = s.room - n]
  <1>0. s.room - n \in 0..Room
    BY DEF Sockets
  <1>1. t \in Sockets /\ t.input = s.input
    BY <1>0 DEF Sockets
  <1>2. Written(s, n, e) = [t EXCEPT !.shutWr = e]
    BY DEF Written
  <1> HIDE DEF t
  <1>3. [t EXCEPT !.shutWr = e] \in Sockets /\ [t EXCEPT !.shutWr = e].shutWr = e
        /\ [t EXCEPT !.shutWr = e].input = t.input
    BY <1>1 DEF Sockets
  <1> QED
    BY <1>1, <1>2, <1>3

LEMMA HandleWriteSomeKeeps ==
    ASSUME ConnInv, HandleWriteSome PROVE ConnInv'
  <1> MaxBytes \in Nat /\ HighWaterMark \in Nat \ {0}
    BY ConnAssumption
  <1>t. /\ socket \in Sockets /\ outputBuffer \in Seq(Bytes) /\ wire \in Seq(Bytes)
        /\ accepted \in Nat /\ functors \in Seq(Functors) /\ alarms \in Nat
        /\ socket.shutWr \in BOOLEAN
    BY DEF ConnInv, TypeOK, Sockets, Bytes
  <1> DEFINE m    == Len(outputBuffer)
             n    == WriteReturns(m)
             rest == SubSeq(outputBuffer, n + 1, m)
             last == ~StillWriting(rest)
             shut == socket.shutWr \/ (last /\ ShutdownWaited)
  <1>1. /\ channel.write /\ n > 0
        /\ wire' = wire \o SubSeq(outputBuffer, 1, n)
        /\ outputBuffer' = rest
        /\ channel' = [channel EXCEPT !.write = StillWriting(rest)]
        /\ functors' = IF last THEN Append(functors, "callback") ELSE functors
        /\ socket' = Written(socket, n, shut)
        /\ alarms' = IF Len(rest) < HighWaterMark THEN 0 ELSE alarms
        /\ UNCHANGED <<state, callback, inputBuffer, timers, owner, foreign, accepted, mangled,
                       aborted>>
    BY Zenon DEF HandleWriteSome, Written
  <1>2. revents' \subseteq revents /\ handling' \in BOOLEAN /\ overtaken' = overtaken
    BY DEF HandleWriteSome, HandleEvent
  <1>3. Up /\ outputBuffer # << >> /\ ~socket.shutWr
    BY <1>1 DEF ConnInv, ControlInv, DataInv, Up
  <1>4. m \in Nat /\ n \in 1..m /\ n \in 0..socket.room
    <2>1. m \in Nat /\ socket.room \in Nat
      BY <1>t, ConnAssumption DEF Sockets
    <2> HIDE DEF m
    <2>2. n \in Nat \cup {-1} /\ n <= m /\ n <= socket.room
      BY <1>t, <2>1, WriteBounds
    <2> HIDE DEF n
    <2> QED
      BY <1>1, <2>1, <2>2
  <1>5. /\ rest \in Seq(Bytes) /\ Len(rest) = m - n
        /\ wire' \in Seq(Bytes)
    <2> HIDE DEF n
    <2>1. rest \in Seq(Bytes) /\ Len(rest) = m - n /\ SubSeq(outputBuffer, 1, n) \in Seq(Bytes)
      BY <1>t, <1>4
    <2> HIDE DEF m, rest
    <2> QED
      BY <1>t, <1>1, <2>1
  <1>6. ~mangled => Stream(wire', rest, accepted)
    <2>1. ~mangled => Stream(wire, outputBuffer, accepted)
      BY DEF ConnInv, DataInv
    <2> HIDE DEF n
    <2>2. n \in 0..Len(outputBuffer)
      BY <1>4
    <2> QED
      BY <1>t, <1>1, <2>1, <2>2, StreamMoved
  <1>7. StillWriting(rest) <=> rest # << >>
    BY DEF StillWriting
  <1>8. last <=> rest = << >>
    BY <1>7
  <1>9. shut \in BOOLEAN /\ (shut => rest = << >>)
    BY <1>3, <1>8
  <1>10. /\ socket' \in Sockets /\ socket'.shutWr = shut /\ socket'.input = socket.input
    <2> HIDE DEF shut, n
    <2> QED
      BY <1>t, <1>1, <1>4, <1>9, SocketWritten
  <1>11. /\ channel' \in Interests /\ channel'.read = channel.read
         /\ channel'.write <=> rest # << >>
    <2> HIDE DEF rest
    <2>1. StillWriting(rest) \in BOOLEAN /\ channel \in Interests
      BY SameQueue DEF StillWriting
    <2> QED
      BY <1>1, <1>7, <2>1 DEF Interests
  <1> HIDE DEF rest, last, shut, n, m
  <1>12. /\ functors' \in Seq(Functors)
         /\ \A x \in Functors \ {"callback"} :
              /\ In(functors', x) <=> In(functors, x)
              /\ AtMostOnce(functors, x) => AtMostOnce(functors', x)
    <2>1. "callback" \in Functors
      BY DEF Functors
    <2>2. CASE last
      BY <1>t, <1>1, <2>1, <2>2, AppendHas
    <2>3. CASE ~last
      BY <1>t, <1>1, <2>3
    <2> QED
      BY <2>2, <2>3
  <1>13. alarms' = IF Len(rest) >= HighWaterMark THEN 1 ELSE 0
    <2>1. alarms = IF m >= HighWaterMark THEN 1 ELSE 0
      BY DEF ConnInv, DataInv, m
    <2>2. Len(rest) \in Nat /\ Len(rest) <= m
      BY <1>4, <1>5
    <2> QED
      BY <1>1, <1>4, <2>1, <2>2
  <1>14. TypeOK'
    <2>1. revents' \subseteq {"HUP", "IN", "OUT"} /\ alarms' \in Nat
      BY <1>2, <1>13 DEF ConnInv, TypeOK
    <2> QED
      BY <1>1, <1>2, <1>5, <1>10, <1>11, <1>12, <2>1
      DEF ConnInv, TypeOK, Sockets, Interests, Bytes
  <1>15. ControlInv'
    BY <1>1, <1>2, <1>3, <1>11, <1>12 DEF ConnInv, ControlInv, Up, Functors
  <1>16. DataInv'
    BY <1>1, <1>3, <1>6, <1>9, <1>10, <1>11, <1>13 DEF ConnInv, DataInv, Up
  <1> QED
    BY <1>14, <1>15, <1>16 DEF ConnInv

-----------------------------------------------------------------------------
(* The functors of the loop.                                                  *)

LEMMA RunSendKeeps ==
    ASSUME ConnInv, Idle, functors # << >>, Head(functors) = "sendInLoop",
           SendInLoop(foreign, Tail(functors)), foreign' = -1,
           UNCHANGED <<state, callback, owner, aborted, revents, handling, overtaken,
                       inputBuffer, timers>>
    PROVE  ConnInv'
  <1> DEFINE rest == Tail(functors)
  <1>1. /\ functors \in Seq(Functors) /\ foreign \in -1..MaxMessage /\ accepted \in 0..MaxBytes
        /\ TypeOK /\ ControlInv /\ DataInv
    BY DEF ConnInv, TypeOK
  <1>2. /\ In(functors, "sendInLoop") /\ rest \in Seq(Functors)
        /\ \A x : /\ In(rest, x) => In(functors, x)
                  /\ AtMostOnce(functors, x) => AtMostOnce(rest, x)
                  /\ AtMostOnce(functors, x) /\ x = "sendInLoop" => ~In(rest, x)
    BY <1>1, TailHas
  <1> HIDE DEF rest
  <1>3. foreign >= 0 /\ state # "KConnecting" /\ accepted + foreign <= MaxBytes
    <2>1. foreign >= 0
      BY <1>1, <1>2 DEF ControlInv
    <2>2. state # "KConnecting"
      BY <1>1, <2>1 DEF DataInv
    <2>3. accepted + (IF foreign > 0 THEN foreign ELSE 0) <= MaxBytes
      BY <1>1 DEF DataInv
    <2> QED
      BY <1>1, <2>1, <2>2, <2>3
  <1>4. foreign \in 0..MaxMessage
    BY <1>1, <1>3, ConnAssumption
  <1>5. SendLeaves(rest, foreign)
    BY <1>1, <1>2, <1>3, <1>4, SendEffect DEF rest
  <1>6. TypeOK'
    <2>1. foreign' \in -1..MaxMessage
      BY ConnAssumption
    <2> QED
      BY <1>1, <1>5, <2>1 DEF TypeOK, SendLeaves, Interests, Sockets, Bytes
  <1>7. ~In(rest, "sendInLoop")
    BY <1>1, <1>2 DEF ControlInv, Functors
  <1>8. ControlInv'
    <2>1. \A f \in Functors \ {"callback", "forceCloseInLoop"} : AtMostOnce(functors', f)
      BY <1>1, <1>2, <1>5 DEF ControlInv, SendLeaves
    <2>2. /\ In(functors', "ConnectEstablished") => In(functors, "ConnectEstablished")
          /\ In(functors', "ConnectDestoryed") => In(functors, "ConnectDestoryed")
          /\ ~In(functors', "sendInLoop")
      BY <1>2, <1>5, <1>7 DEF SendLeaves, Functors
    <2> QED
      BY <1>1, <1>5, <2>1, <2>2 DEF ControlInv, SendLeaves, Up
  <1>9. accepted' + (IF foreign' > 0 THEN foreign' ELSE 0) <= MaxBytes
    <2>1. accepted' \in Nat /\ accepted' <= MaxBytes
      BY <1>5 DEF SendLeaves
    <2> QED
      BY <2>1
  <1>10. DataInv'
    BY <1>1, <1>3, <1>5, <1>9 DEF DataInv, SendLeaves, Up
  <1> QED
    BY <1>6, <1>8, <1>10 DEF ConnInv


(* ConnectEstablished, forceCloseInLoop, ConnectDestoryed and the user's      *)
(* callbacks: the queue loses its first functor.                              *)
RunOther ==
    /\ functors # << >> /\ revents = {} /\ ~aborted
    /\ \/ Head(functors) = "callback" /\ callback' = TRUE
          /\ UNCHANGED <<state, channel, owner, aborted>>
       \/ Head(functors) = "ConnectEstablished" /\ ConnectEstablished
       \/ Head(functors) = "forceCloseInLoop" /\ ForceCloseInLoop
       \/ Head(functors) = "ConnectDestoryed" /\ ConnectDestoryed
    /\ functors' = Tail(functors)
    /\ UNCHANGED <<outputBuffer, foreign, socket, wire, accepted, mangled, alarms,
                   revents, handling, overtaken, inputBuffer, timers>>

LEMMA RunOtherKeeps ==
    ASSUME ConnInv, RunOther PROVE ConnInv'
  <1> DEFINE f == Head(functors)
  <1>1. /\ f \in Functors /\ In(functors, f) /\ functors' \in Seq(Functors)
        /\ \A x : /\ In(functors', x) => In(functors, x)
                  /\ AtMostOnce(functors, x) => AtMostOnce(functors', x)
                  /\ AtMostOnce(functors, x) /\ x = f => ~In(functors', x)
    BY TailHas, SameQueue DEF RunOther
  <1> HIDE DEF f
  <1>2. \A x \in Functors \ {"callback", "forceCloseInLoop"} :
          /\ AtMostOnce(functors, x) /\ AtMostOnce(functors', x)
          /\ x = f => ~In(functors', x)
    BY <1>1 DEF ConnInv, ControlInv
  <1>3. /\ UNCHANGED <<outputBuffer, foreign, socket, wire, accepted, mangled, alarms,
                       revents, handling, overtaken, inputBuffer, timers>>
        /\ revents = {} /\ ~aborted
    BY DEF RunOther
  <1>4. CASE UNCHANGED <<state, channel, owner, aborted>> /\ callback' \in BOOLEAN
    <2>1. TypeOK'
      BY <1>1, <1>3, <1>4 DEF ConnInv, TypeOK
    <2>2. ControlInv'
      BY <1>1, <1>2, <1>3, <1>4 DEF ConnInv, ControlInv, Up
    <2>3. DataInv'
      BY <1>3, <1>4 DEF ConnInv, DataInv, Up
    <2> QED
      BY <2>1, <2>2, <2>3 DEF ConnInv
  <1>5. CASE f = "ConnectEstablished" /\ ConnectEstablished
    <2>1. state = "KConnecting"
      BY <1>1, <1>5 DEF ConnInv, ControlInv
    <2>2. /\ state' = "KConnected" /\ callback' = TRUE /\ aborted' = aborted /\ owner' = owner
          /\ channel' = [channel EXCEPT !.read = TRUE, !.added = TRUE]
      BY <1>5, <2>1 DEF ConnectEstablished
    <2>3. channel' \in Interests /\ channel'.write = channel.write
      BY <2>2, SameQueue DEF Interests
    <2>4. TypeOK'
      BY <1>1, <1>3, <2>2, <2>3 DEF ConnInv, TypeOK, States, Interests
    <2>5. ~In(functors', "ConnectEstablished")
      BY <1>2, <1>5 DEF Functors
    <2>6. ControlInv'
      BY <1>1, <1>2, <1>3, <2>1, <2>2, <2>5 DEF ConnInv, ControlInv, Up
    <2>7. ~channel.write /\ outputBuffer = << >> /\ ~socket.shutWr
      BY <2>1 DEF ConnInv, ControlInv, DataInv, Up
    <2>8. DataInv'
      BY <1>3, <2>2, <2>3, <2>7 DEF ConnInv, DataInv, Up
    <2> QED
      BY <2>4, <2>6, <2>8 DEF ConnInv
  <1>6. CASE f = "forceCloseInLoop" /\ ForceCloseInLoop
    <2>1. CASE Up
      <3>1. HandleClose
        BY <1>6, <2>1 DEF ForceCloseInLoop, Up
      <3> QED
        BY <1>1, <1>3, <2>1, <3>1, SameQueue, Reported, CloseKeeps
    <2>2. CASE ~Up
      <3>1. UNCHANGED <<state, channel, callback, owner, aborted>>
        BY <1>6, <2>2 DEF ForceCloseInLoop, Up
      <3> QED
        BY <1>4, <3>1, SameQueue
    <2> QED
      BY <2>1, <2>2
  <1>7. CASE f = "ConnectDestoryed" /\ ConnectDestoryed
    <2>1. owner = "removes" /\ state = "KDisconnected" /\ ~channel.read /\ ~channel.write
      BY <1>1, <1>7 DEF ConnInv, ControlInv, Up, TypeOK
    <2>2. /\ state' = state /\ callback' = callback /\ owner' = "released"
          /\ aborted' = FALSE
          /\ channel' = [channel EXCEPT !.added = FALSE]
      BY <1>7, <2>1 DEF ConnectDestoryed
    <2>3. channel' \in Interests /\ ~channel'.write /\ ~channel'.read
      BY <2>1, <2>2, SameQueue DEF Interests
    <2>4. TypeOK'
      BY <1>1, <1>3, <2>2, <2>3 DEF ConnInv, TypeOK, Interests
    <2>5. ~In(functors', "ConnectDestoryed")
      BY <1>2, <1>7 DEF Functors
    <2>6. ControlInv'
      BY <1>1, <1>2, <1>3, <2>1, <2>2, <2>3, <2>5 DEF ConnInv, ControlInv, Up
    <2>7. DataInv'
      BY <1>3, <2>1, <2>2, <2>3 DEF ConnInv, DataInv, Up
    <2> QED
      BY <2>4, <2>6, <2>7 DEF ConnInv
  <1>8. \/ UNCHANGED <<state, channel, owner, aborted>> /\ callback' \in BOOLEAN
        \/ f = "ConnectEstablished" /\ ConnectEstablished
        \/ f = "forceCloseInLoop" /\ ForceCloseInLoop
        \/ f = "ConnectDestoryed" /\ ConnectDestoryed
    BY Zenon DEF RunOther, f
  <1> QED
    BY <1>4, <1>5, <1>6, <1>7, <1>8

LEMMA RunFunctorKeeps ==
    ASSUME ConnInv, RunFunctor PROVE ConnInv'
  <1>1. CASE Head(functors) = "sendInLoop"
    BY <1>1, RunSendKeeps DEF RunFunctor
  <1>2. CASE Head(functors) # "sendInLoop"
    BY <1>2, RunOtherKeeps DEF RunFunctor, RunOther, Idle, Running
  <1> QED
    BY <1>1, <1>2

LEMMA DestructorKeeps ==
    ASSUME ConnInv, Destructor PROVE ConnInv'
  <1>1. /\ owner = "released" /\ owner' = "destroyed" /\ functors = << >>
        /\ aborted' = (state # "KDisconnected")
        /\ UNCHANGED <<state, channel, revents, handling, callback, outputBuffer, inputBuffer,
                       functors, timers, foreign, socket, wire, accepted, mangled, alarms,
                       overtaken>>
    BY DEF Destructor
  <1>2. state = "KDisconnected" /\ aborted' = FALSE
    <2>1. state = "KDisconnected"
      BY <1>1 DEF ConnInv, ControlInv
    <2>2. (state # "KDisconnected") = FALSE
      BY <2>1
    <2> QED
      BY <1>1, <2>1, <2>2, Zenon
  <1>3. TypeOK'
    BY <1>1, <1>2 DEF ConnInv, TypeOK
  <1>4. ~In(functors, "ConnectDestoryed")
    BY <1>1 DEF ConnInv, ControlInv
  <1>5. ControlInv'
    BY <1>1, <1>2, <1>4 DEF ConnInv, ControlInv, Up
  <1>6. DataInv'
    BY <1>1 DEF ConnInv, DataInv, Up
  <1> QED
    BY <1>3, <1>5, <1>6 DEF ConnInv

(* The peer changes what is ready, never what was sent.                       *)
LEMMA PeerKeeps ==
    ASSUME ConnInv, PeerReads \/ PeerSends \/ PeerCloses \/ PeerResets PROVE ConnInv'
  <1> MaxInput \in Nat /\ Room \in Nat
    BY ConnAssumption
  <1>1. UNCHANGED <<state, channel, revents, handling, callback, outputBuffer, inputBuffer,
                    functors, timers, owner, foreign, wire, accepted, mangled, alarms, overtaken,
                    aborted>>
    BY Zenon DEF PeerReads, PeerSends, PeerCloses, PeerResets, Peer
  <1>2. /\ socket' \in Sockets /\ socket'.shutWr = socket.shutWr
        /\ inputBuffer' + socket'.input <= MaxInput
    <2> DEFINE s == socket
    <2>1. /\ s \in Sockets /\ inputBuffer \in Nat /\ inputBuffer + s.input <= MaxInput
          /\ inputBuffer' = inputBuffer
      BY <1>1, SameQueue
    <2>2. CASE PeerReads
      BY <2>1, <2>2 DEF PeerReads, Peer, Sockets
    <2>3. CASE PeerSends
      <3>1. socket' = [s EXCEPT !.input = s.input + 1] /\ s.input + inputBuffer < MaxInput
        BY <2>3 DEF PeerSends, Peer
      <3>2. s.input + 1 \in 0..MaxInput /\ inputBuffer + (s.input + 1) <= MaxInput
        BY <2>1, <3>1 DEF Sockets
      <3> HIDE DEF s
      <3>3. /\ socket' \in Sockets /\ socket'.shutWr = s.shutWr
            /\ socket'.input = s.input + 1
        BY <2>1, <3>1, <3>2 DEF Sockets
      <3> QED
        BY <2>1, <3>2, <3>3 DEF s
    <2>4. CASE PeerCloses
      BY <2>1, <2>4 DEF PeerCloses, Peer, Sockets
    <2>5. CASE PeerResets
      <3> DEFINE e == s.peer = "open"
      <3>1. socket' = [s EXCEPT !.peer = "reset", !.error = e] /\ e \in BOOLEAN
        BY <2>5 DEF PeerResets, Peer
      <3> HIDE DEF e
      <3> DEFINE t == [s EXCEPT !.peer = "reset"]
      <3>2. t \in Sockets /\ t.shutWr = s.shutWr /\ t.input = s.input
        BY <2>1 DEF Sockets
      <3>3. socket' = [t EXCEPT !.error = e]
        BY <3>1
      <3> HIDE DEF t
      <3>4. socket' \in Sockets /\ socket'.shutWr = t.shutWr /\ socket'.input = t.input
        BY <3>1, <3>2, <3>3 DEF Sockets
      <3> QED
        BY <2>1, <3>2, <3>4
    <2> QED
      BY <2>2, <2>3, <2>4, <2>5
  <1>3. TypeOK'
    BY <1>1, <1>2 DEF ConnInv, TypeOK, Sockets
  <1>4. ControlInv'
    BY <1>1 DEF ConnInv, ControlInv, Up
  <1>5. DataInv'
    BY <1>1, <1>2 DEF ConnInv, DataInv, Up
  <1> QED
    BY <1>3, <1>4, <1>5 DEF ConnInv

-----------------------------------------------------------------------------
(* The theorems                                                               *)

(* The inductive invariant: control and data agree in every reachable state,  *)
(* whichever of the handlers, functors, timers, calls of the user, sends of   *)
(* another thread and events of the peer comes next.                          *)
THEOREM ConnectionInvariant == Spec => []ConnInv
  <1>1. ASSUME ConnInv, [Next]_vars PROVE ConnInv'
    <2>1. CASE UNCHANGED vars
      BY <1>1, <2>1
      DEF vars, ConnInv, TypeOK, ControlInv, DataInv, Up
    <2>2. /\ \A len \in 0..MaxMessage : Send(len) => ConnInv'
          /\ \A len \in ForeignLengths : ForeignSend(len) => ConnInv'
      <3>1. ForeignLengths \subseteq 0..MaxMessage
        BY ConnAssumption
      <3> QED
        BY <1>1, <3>1, SendKeeps, ForeignSendKeeps
    <2>3. CASE Shutdown \/ ForceClose \/ ForceCloseWithDelay \/ CallbackReturns \/ UserTimer
      BY <1>1, <2>3, ShutdownKeeps, ForceCloseKeeps, CallbackStepsKeep
    <2>4. CASE ForceCloseTimer \/ PollChannel \/ HandleHup \/ HandleRead
      BY <1>1, <2>4, ForceCloseTimerKeeps, PollChannelKeeps, HandleHupKeeps, HandleReadKeeps
    <2>5. CASE HandleWriteSome \/ HandleWriteNone \/ RunFunctor
      BY <1>1, <2>5, HandleWriteSomeKeeps, HandleWriteNoneKeeps, RunFunctorKeeps
    <2>6. CASE ForeignSendQueues \/ OwnerRemoves \/ Destructor
      BY <1>1, <2>6, ForeignSendQueuesKeeps, OwnerRemovesKeeps, DestructorKeeps
    <2>7. CASE PeerReads \/ PeerSends \/ PeerCloses \/ PeerResets
      BY <1>1, <2>7, PeerKeeps
    <2> QED
      BY <1>1, <2>1, <2>2, <2>3, <2>4, <2>5, <2>6, <2>7, Zenon DEF Next
  <1> QED
    BY <1>1, InitHolds, PTL DEF Spec

(* sendInLoop and the write handler keep the interest in writing and the      *)
(* buffer together while the connection is up: bytes never wait for an event  *)
(* nobody asked for, and the loop never spins on an empty buffer.             *)
THEOREM InterestFollowsBuffer == Spec => []WriteInterest
  <1>1. ConnInv => WriteInterest
    BY DEF ConnInv, DataInv, WriteInterest
  <1> QED
    BY <1>1, ConnectionInvariant, PTL

(* shutdown, its repetition in the write handler and a late send of another   *)
(* thread never end the stream over bytes still buffered.                     *)
THEOREM FinFollowsData == Spec => []FinAfterData
  <1>1. ConnInv => FinAfterData
    BY DEF ConnInv, DataInv, FinAfterData
  <1> QED
    BY <1>1, ConnectionInvariant, PTL

(* Direct writes, partial writes and the buffer hand the kernel every byte    *)
(* once and in order, unless a direct write returned -1 with a message left   *)
(* to buffer.                                                                 *)
THEOREM StreamStaysIntact == Spec => []StreamIntact
  <1>1. ASSUME ConnInv PROVE StreamIntact
    <2>1. /\ wire \in Seq(Bytes) /\ outputBuffer \in Seq(Bytes) /\ accepted \in Nat
          /\ ~mangled => Stream(wire, outputBuffer, accepted)
      BY <1>1, ConnAssumption DEF ConnInv, TypeOK, DataInv, Bytes
    <2>2. ~mangled => wire \o outputBuffer = [i \in 1..accepted |-> i]
      BY <2>1, StreamIs
    <2> QED
      BY <2>2 DEF StreamIntact, Sent
  <1> QED
    BY <1>1, ConnectionInvariant, PTL

(* The high water callback is queued once for each climb over the mark, for   *)
(* every mark and every way of filling and draining the buffer.               *)
THEOREM HighWaterIsAnEdge == Spec => []HighWaterOnce
  <1>1. ConnInv => HighWaterOnce
    BY DEF ConnInv, DataInv, HighWaterOnce
  <1> QED
    BY <1>1, ConnectionInvariant, PTL

(* Only a delayed close whose timer runs between the poll that reported a     *)
(* hang-up or an end of file and its handler makes an assert of the           *)
(* connection fail: without it handleClose runs once however hang-ups, ends   *)
(* of file, forced closes and delayed closes come together, the channel has   *)
(* no interest left when it leaves the poller, and the destructor finds the   *)
(* state KDisconnected.                                                       *)
THEOREM ConnectionAssertsHold == Spec => []NoAssertFails
  <1>1. ConnInv => NoAssertFails
    BY DEF ConnInv, ControlInv, NoAssertFails
  <1> QED
    BY <1>1, ConnectionInvariant, PTL
=============================================================================
