-------------------------- MODULE TcpStreamProofs --------------------------
(***************************************************************************)
(* The connection of TcpStream for every script, every size of buffer,     *)
(* chunk, transfer and socket, and every number of faults: the positions   *)
(* of tcp_send_buffer trail what send() accepted by less than a chunk, a   *)
(* stream in which no chunk was torn arrives exactly, and the result 0 of  *)
(* tcp_recv_buffer is the end of the stream for a receiver that asks for   *)
(* what its next value lacks.                                              *)
(***************************************************************************)
EXTENDS TcpStream, TLAPS

----------------------------------------------------------------------------
(* The inductive invariant.                                                *)

\* Bytes of the call in progress that send() has accepted, and those of its
\* whole chunks, which are what a failure of the call would report.
Ahead == IF call.active THEN call.total_sent + call.chunk_sent ELSE 0

Whole == IF call.active THEN call.total_sent ELSE 0

\* The unread bytes of the sender's buffer are the last ones of the stream.
SourceInv ==
    /\ readable_bytes(sbuf) <= Len(stream)
    /\ \A i \in 1 .. readable_bytes(sbuf) :
           sbuf.bytes[sbuf.reader_pos + i - 1] = stream[Acknowledged + i]

\* What send() has accepted has no gap and reaches as far as the call has
\* come; it is ahead of the whole chunks by less than one chunk.
LogInv ==
    /\ 1 .. Acknowledged + Ahead \subseteq Accepted
    /\ \A p \in Accepted : /\ p \in 1 .. Len(stream)
                           /\ 1 .. p \subseteq Accepted
                           /\ p < Acknowledged + Whole + ChunkCap

\* With no chunk torn, every byte was accepted once.
UntornInv ==
    ~torn => /\ Len(log) = Acknowledged + Ahead
             /\ \A j \in 1 .. Len(log) : log[j] = j

\* The stream is the values written, one after the other.
Framed ==
    /\ Len(start) = todo
    /\ start[1] = 0
    /\ start[todo] = Len(stream)
    /\ \A k, l \in 1 .. todo : k <= l => start[k] <= start[l]
    /\ \A k \in 1 .. todo - 1 :
           /\ start[k + 1] = start[k] + script[k].width
           /\ script[k].value \in 0 .. MaxValue(script[k].width)
           /\ \A i \in 1 .. script[k].width :
                  stream[start[k] + i] = BigEndian(script[k].width, script[k].value)[i]

\* With no chunk torn, the receiver has decoded the first values of the
\* script, and its buffer and the wire continue the stream from there. A
\* reset takes bytes off the wire, so that less than what was accepted is left.
ReceivedInv ==
    ~torn =>
        /\ Len(got) < todo
        /\ \A i \in 1 .. Len(got) : got[i] = script[i].value
        /\ start[Len(got) + 1] + readable_bytes(rbuf) <= Len(log)
        /\ \A i \in 1 .. readable_bytes(rbuf) :
               rbuf.bytes[rbuf.reader_pos + i - 1] = stream[start[Len(got) + 1] + i]
        /\ link # "reset" =>
               /\ Len(log) = start[Len(got) + 1] + readable_bytes(rbuf) + Len(wire)
               /\ \A i \in 1 .. Len(wire) :
                      wire[i] = stream[start[Len(got) + 1] + readable_bytes(rbuf) + i]

\* The sender shuts down when it is done; a reset connection carries nothing.
LinkInv ==
    /\ link = "shut" => todo > Len(script) /\ readable_bytes(sbuf) = 0 /\ ~call.active
    /\ link = "reset" => wire = <<>>

\* A receiver that asks for what its next value lacks never has more than
\* one value in its buffer, and has it at the start.
ExactInv ==
    policy = "exact" /\ readable_bytes(rbuf) > 0 =>
        rbuf.reader_pos = 0 /\ rbuf.writer_pos <= NextWidth

StreamInv ==
    /\ TypeOK
    /\ SourceInv
    /\ LogInv
    /\ UntornInv
    /\ Framed
    /\ ReceivedInv
    /\ LinkInv
    /\ ExactInv
    /\ EofIsEnd

----------------------------------------------------------------------------
(* The operations of the byte buffer.                                      *)

\* A buffer is a record with its four fields, the positions in order.
LEMMA BufferRecord ==
    ASSUME NEW cap \in Nat \ {0}, NEW f \in [0 .. cap - 1 -> Byte],
           NEW w \in 0 .. cap, NEW r \in 0 .. w
    PROVE  [bytes |-> f, capacity |-> cap, writer_pos |-> w, reader_pos |-> r]
               \in Buffers(cap)
  <1> DEFINE F == [0 .. cap - 1 -> Byte]
             b == [bytes |-> f, capacity |-> cap, writer_pos |-> w, reader_pos |-> r]
  <1>1. f \in F /\ r \in 0 .. cap /\ r <= w
    OBVIOUS
  <1> HIDE DEF F
  <1>2. b \in [bytes : F, capacity : {cap}, writer_pos : 0 .. cap, reader_pos : 0 .. cap]
    BY <1>1
  <1>3. b.reader_pos <= b.writer_pos
    BY <1>1
  <1> QED BY <1>2, <1>3 DEF Buffers, F

\* The positions of a buffer and the bytes it holds.
LEMMA BufferFacts ==
    ASSUME NEW cap \in Nat \ {0}, NEW b \in Buffers(cap)
    PROVE  /\ b = [bytes |-> b.bytes, capacity |-> cap,
                   writer_pos |-> b.writer_pos, reader_pos |-> b.reader_pos]
           /\ b.bytes \in [0 .. cap - 1 -> Byte]
           /\ b.writer_pos \in 0 .. cap
           /\ b.reader_pos \in 0 .. b.writer_pos
           /\ readable_bytes(b) \in 0 .. cap
           /\ readable_bytes(b) = b.writer_pos - b.reader_pos
           /\ writable_bytes(b) = cap - b.writer_pos
           /\ \A i \in 1 .. readable_bytes(b) : b.bytes[b.reader_pos + i - 1] \in Byte
  <1> DEFINE F == [0 .. cap - 1 -> Byte]
  <1>1. /\ b \in [bytes : F, capacity : {cap}, writer_pos : 0 .. cap, reader_pos : 0 .. cap]
        /\ b.reader_pos <= b.writer_pos
    BY DEF Buffers
  <1> HIDE DEF F
  <1>2. /\ b = [bytes |-> b.bytes, capacity |-> b.capacity,
                writer_pos |-> b.writer_pos, reader_pos |-> b.reader_pos]
        /\ b.bytes \in F /\ b.capacity = cap
        /\ b.writer_pos \in 0 .. cap /\ b.reader_pos \in 0 .. cap
    BY <1>1
  <1>3. /\ readable_bytes(b) = b.writer_pos - b.reader_pos
        /\ writable_bytes(b) = cap - b.writer_pos
    BY <1>2 DEF readable_bytes, writable_bytes
  <1>4. /\ b.reader_pos \in 0 .. b.writer_pos /\ readable_bytes(b) \in 0 .. cap
    BY <1>1, <1>2, <1>3
  <1>5. ASSUME NEW i \in 1 .. readable_bytes(b)
        PROVE  b.bytes[b.reader_pos + i - 1] \in Byte
    <2>1. b.reader_pos + i - 1 \in 0 .. cap - 1
      BY <1>2, <1>3, <1>4
    <2> QED BY <2>1, <1>2 DEF F
  <1>6. b.bytes \in [0 .. cap - 1 -> Byte]
    BY <1>2 DEF F
  <1> QED BY <1>2, <1>3, <1>4, <1>5, <1>6

\* A new buffer is empty.
LEMMA NewBuffer ==
    ASSUME NEW cap \in Nat \ {0}
    PROVE  /\ byte_buffer_new(cap) \in Buffers(cap)
           /\ readable_bytes(byte_buffer_new(cap)) = 0
  <1> DEFINE z == [i \in 0 .. cap - 1 |-> 0]
  <1>1. z \in [0 .. cap - 1 -> Byte]
    BY DEF Byte
  <1>2. byte_buffer_new(cap) =
            [bytes |-> z, capacity |-> cap, writer_pos |-> 0, reader_pos |-> 0]
    BY DEF byte_buffer_new
  <1> HIDE DEF z
  <1>3. 0 \in 0 .. cap /\ 0 \in 0 .. 0
    OBVIOUS
  <1>4. byte_buffer_new(cap) \in Buffers(cap)
    BY <1>1, <1>2, <1>3, BufferRecord
  <1> QED BY <1>2, <1>4 DEF readable_bytes

\* Storing bytes leaves the unread ones alone and appends the new ones.
LEMMA FillFacts ==
    ASSUME NEW cap \in Nat \ {0}, NEW b \in Buffers(cap), NEW s \in Seq(Byte),
           Len(s) <= writable_bytes(b)
    PROVE  LET c == Fill(b, s)
           IN  /\ c \in Buffers(cap)
               /\ c.reader_pos = b.reader_pos
               /\ c.writer_pos = b.writer_pos + Len(s)
               /\ readable_bytes(c) = readable_bytes(b) + Len(s)
               /\ \A i \in 1 .. readable_bytes(b) :
                      c.bytes[b.reader_pos + i - 1] = b.bytes[b.reader_pos + i - 1]
               /\ \A i \in 1 .. Len(s) :
                      c.bytes[b.reader_pos + readable_bytes(b) + i - 1] = s[i]
  <1> DEFINE f == [i \in DOMAIN b.bytes |->
                       LET k == i - b.writer_pos + 1
                       IN  IF k \in DOMAIN s THEN s[k] ELSE b.bytes[i]]
             c == Fill(b, s)
  <1>0. b = [bytes |-> b.bytes, capacity |-> cap,
             writer_pos |-> b.writer_pos, reader_pos |-> b.reader_pos]
    BY BufferFacts
  <1>1. /\ b.writer_pos \in 0 .. cap /\ b.reader_pos \in 0 .. b.writer_pos
        /\ b.bytes \in [0 .. cap - 1 -> Byte]
        /\ readable_bytes(b) = b.writer_pos - b.reader_pos
        /\ writable_bytes(b) = cap - b.writer_pos
    BY BufferFacts
  <1>2. /\ Len(s) \in Nat /\ DOMAIN s = 1 .. Len(s)
        /\ \A k \in 1 .. Len(s) : s[k] \in Byte
    OBVIOUS
  <1>3. /\ f \in [0 .. cap - 1 -> Byte]
        /\ \A i \in 0 .. cap - 1 : i - b.writer_pos + 1 \in 1 .. Len(s) =>
               f[i] = s[i - b.writer_pos + 1]
        /\ \A i \in 0 .. cap - 1 : i < b.writer_pos => f[i] = b.bytes[i]
    BY <1>1, <1>2
  <1>4. c = [b EXCEPT !.bytes = f, !.writer_pos = @ + Len(s)]
    BY DEF Fill
  <1> HIDE DEF f, c
  <1>5. c = [bytes |-> f, capacity |-> cap, writer_pos |-> b.writer_pos + Len(s),
             reader_pos |-> b.reader_pos]
    <2> DEFINE e == [b EXCEPT !.bytes = f]
    <2>1. e = [bytes |-> f, capacity |-> cap, writer_pos |-> b.writer_pos,
               reader_pos |-> b.reader_pos]
      BY <1>0
    <2>2. c = [e EXCEPT !.writer_pos = b.writer_pos + Len(s)]
      BY <1>4
    <2> HIDE DEF e
    <2> QED BY <2>1, <2>2
  <1>6. c \in Buffers(cap)
    <2>1. /\ b.writer_pos + Len(s) \in 0 .. cap
          /\ b.reader_pos \in 0 .. b.writer_pos + Len(s)
      BY <1>1, <1>2
    <2> QED BY <1>3, <1>5, <2>1, BufferRecord
  <1>7. /\ c.bytes = f /\ c.reader_pos = b.reader_pos
        /\ c.writer_pos = b.writer_pos + Len(s)
    BY <1>5
  <1>8. readable_bytes(c) = readable_bytes(b) + Len(s)
    BY <1>1, <1>2, <1>7 DEF readable_bytes
  <1>9. ASSUME NEW i \in 1 .. readable_bytes(b)
        PROVE  c.bytes[b.reader_pos + i - 1] = b.bytes[b.reader_pos + i - 1]
    <2>1. b.reader_pos + i - 1 \in 0 .. cap - 1 /\ b.reader_pos + i - 1 < b.writer_pos
      BY <1>1
    <2> QED BY <2>1, <1>3, <1>7
  <1>10. ASSUME NEW i \in 1 .. Len(s)
         PROVE  c.bytes[b.reader_pos + readable_bytes(b) + i - 1] = s[i]
    <2>1. /\ b.reader_pos + readable_bytes(b) + i - 1 = b.writer_pos + i - 1
          /\ b.writer_pos + i - 1 \in 0 .. cap - 1
          /\ (b.writer_pos + i - 1) - b.writer_pos + 1 = i
      BY <1>1, <1>2
    <2> QED BY <2>1, <1>3, <1>7
  <1> QED BY <1>6, <1>7, <1>8, <1>9, <1>10 DEF c

\* Reading n bytes, or sending them, only moves reader_pos.
LEMMA ConsumeFacts ==
    ASSUME NEW cap \in Nat \ {0}, NEW b \in Buffers(cap), NEW n \in 0 .. readable_bytes(b)
    PROVE  LET c == Consume(b, n)
           IN  /\ c \in Buffers(cap)
               /\ c.bytes = b.bytes
               /\ c.reader_pos = b.reader_pos + n
               /\ c.writer_pos = b.writer_pos
               /\ readable_bytes(c) = readable_bytes(b) - n
  <1> DEFINE c == Consume(b, n)
  <1>0. b = [bytes |-> b.bytes, capacity |-> cap,
             writer_pos |-> b.writer_pos, reader_pos |-> b.reader_pos]
    BY BufferFacts
  <1>1. /\ b.writer_pos \in 0 .. cap /\ b.reader_pos \in 0 .. b.writer_pos
        /\ b.bytes \in [0 .. cap - 1 -> Byte]
        /\ readable_bytes(b) = b.writer_pos - b.reader_pos
    BY BufferFacts
  <1>2. c = [b EXCEPT !.reader_pos = @ + n]
    BY DEF Consume
  <1> HIDE DEF c
  <1>3. c = [bytes |-> b.bytes, capacity |-> cap, writer_pos |-> b.writer_pos,
             reader_pos |-> b.reader_pos + n]
    BY <1>0, <1>2
  <1>4. b.reader_pos + n \in 0 .. b.writer_pos
    BY <1>1
  <1>5. c \in Buffers(cap)
    BY <1>1, <1>3, <1>4, BufferRecord
  <1>6. c.bytes = b.bytes /\ c.reader_pos = b.reader_pos + n /\ c.writer_pos = b.writer_pos
    BY <1>3
  <1>7. readable_bytes(c) = readable_bytes(b) - n
    BY <1>1, <1>6 DEF readable_bytes
  <1> QED BY <1>5, <1>6, <1>7 DEF c

\* A reset buffer is empty.
LEMMA ResetFacts ==
    ASSUME NEW cap \in Nat \ {0}, NEW b \in Buffers(cap)
    PROVE  /\ reset(b) \in Buffers(cap)
           /\ readable_bytes(reset(b)) = 0
  <1>1. /\ b = [bytes |-> b.bytes, capacity |-> cap,
                writer_pos |-> b.writer_pos, reader_pos |-> b.reader_pos]
        /\ b.bytes \in [0 .. cap - 1 -> Byte]
    BY BufferFacts
  <1>2. reset(b) = [bytes |-> b.bytes, capacity |-> cap, writer_pos |-> 0, reader_pos |-> 0]
    <2> DEFINE e == [b EXCEPT !.reader_pos = 0]
    <2>1. e = [bytes |-> b.bytes, capacity |-> cap, writer_pos |-> b.writer_pos,
               reader_pos |-> 0]
      BY <1>1
    <2>2. reset(b) = [e EXCEPT !.writer_pos = 0]
      BY DEF reset
    <2> HIDE DEF e
    <2> QED BY <2>1, <2>2
  <1>3. 0 \in 0 .. cap /\ 0 \in 0 .. 0
    OBVIOUS
  <1>4. reset(b) \in Buffers(cap)
    BY <1>1, <1>2, <1>3, BufferRecord
  <1> QED BY <1>2, <1>4 DEF readable_bytes

\* The copy of the unread bytes.
LEMMA UnreadFacts ==
    ASSUME NEW cap \in Nat \ {0}, NEW b \in Buffers(cap)
    PROVE  /\ Unread(b) \in Seq(Byte)
           /\ Len(Unread(b)) = readable_bytes(b)
           /\ \A i \in 1 .. readable_bytes(b) :
                  Unread(b)[i] = b.bytes[b.reader_pos + i - 1]
  <1>1. /\ readable_bytes(b) \in Nat
        /\ \A i \in 1 .. readable_bytes(b) : b.bytes[b.reader_pos + i - 1] \in Byte
    BY BufferFacts
  <1>2. Unread(b) \in [1 .. readable_bytes(b) -> Byte]
    BY <1>1 DEF Unread
  <1>3. Unread(b) \in Seq(Byte) /\ Len(Unread(b)) = readable_bytes(b)
    BY <1>1, <1>2
  <1> QED BY <1>3 DEF Unread

\* A value is written as many bytes as its width.
LEMMA BigEndianFacts ==
    ASSUME NEW w \in Widths, NEW v \in Int
    PROVE  /\ BigEndian(w, v) \in Seq(Byte)
           /\ Len(BigEndian(w, v)) = w
           /\ \A i \in 1 .. w : BigEndian(w, v)[i] = Digit(v, w - i)
  <1>1. \A k \in 0 .. 3 : Weight[k + 1] \in Nat \ {0}
    BY DEF Weight
  <1>2. w \in {1, 2, 4}
    BY DEF Widths
  <1>3. \A i \in 1 .. w : Digit(v, w - i) \in Byte
    <2> TAKE i \in 1 .. w
    <2>1. w - i \in 0 .. 3
      BY <1>2
    <2> DEFINE d == Weight[(w - i) + 1]
    <2>2. d \in Nat \ {0}
      BY <2>1, <1>1
    <2> HIDE DEF d
    <2>3. v \div d \in Int
      BY <2>2
    <2> QED BY <2>3 DEF Digit, d, Byte
  <1>4. BigEndian(w, v) \in [1 .. w -> Byte]
    BY <1>3 DEF BigEndian
  <1> QED BY <1>2, <1>4 DEF BigEndian

\* The digits of a value.
LEMMA DigitValues ==
    ASSUME NEW v \in Int
    PROVE  /\ Digit(v, 0) = v % 256
           /\ Digit(v, 1) = (v \div 256) % 256
           /\ Digit(v, 2) = (v \div 65536) % 256
           /\ Digit(v, 3) = (v \div 16777216) % 256
  <1>1. Weight[1] = 1 /\ Weight[2] = 256 /\ Weight[3] = 65536 /\ Weight[4] = 16777216
    BY SMT DEF Weight
  <1>2. 0 + 1 = 1 /\ 1 + 1 = 2 /\ 2 + 1 = 3 /\ 3 + 1 = 4
    BY SMT
  <1>3. v \div 1 = v
    BY SMT
  <1> QED BY <1>1, <1>2, <1>3, SMT DEF Digit

\* The largest value of each width.
LEMMA MaxValues ==
    /\ MaxValue(1) = 255
    /\ MaxValue(2) = 65535
    /\ MaxValue(4) = 2147483647
  BY SMT DEF MaxValue

\* The remainder by 256 of a number given by its multiple and the rest.
LEMMA Rest ==
    ASSUME NEW x \in Int, NEW q \in Int, 256 * q <= x, x < 256 * q + 256
    PROVE  x % 256 = x - 256 * q
  BY SMT

\* A value is the sum of its digits with their weights.
LEMMA Decoded ==
    ASSUME NEW v \in Nat, NEW d0 \in Int, NEW d1 \in Int, NEW d2 \in Int, NEW d3 \in Int,
           d0 = v % 256,
           d1 = (v \div 256) % 256,
           d2 = (v \div 65536) % 256,
           d3 = (v \div 16777216) % 256
    PROVE  /\ v <= 255 => d0 = v
           /\ v <= 65535 => d1 * 256 + d0 = v
           /\ v <= 2147483647 => d3 * 16777216 + d2 * 65536 + d1 * 256 + d0 = v
  <1> DEFINE a == v \div 256
             b == v \div 65536
             c == v \div 16777216
  <1>0. d0 = v % 256 /\ d1 = a % 256 /\ d2 = b % 256 /\ d3 = c % 256
    OBVIOUS
  <1>1. a \in Int /\ 256 * a <= v /\ v < 256 * a + 256
    BY SMT
  <1>2. b \in Int /\ 65536 * b <= v /\ v < 65536 * b + 65536
    BY SMT
  <1>3. c \in Int /\ 16777216 * c <= v /\ v < 16777216 * c + 16777216
    BY SMT
  <1> HIDE DEF a, b, c
  <1>4. d0 = v - 256 * a
    BY <1>0, <1>1, Rest, SMT
  <1>5. v <= 65535 => d1 = a
    <2>1. v <= 65535 => 256 * 0 <= a /\ a < 256 * 0 + 256
      BY <1>1, SMT
    <2> QED BY <2>1, <1>0, <1>1, Rest, SMT
  <1>6. d1 = a - 256 * b
    <2>1. 256 * b <= a /\ a < 256 * b + 256
      BY <1>1, <1>2, SMT
    <2> QED BY <2>1, <1>0, <1>1, <1>2, Rest, SMT
  <1>7. d2 = b - 256 * c
    <2>1. 256 * c <= b /\ b < 256 * c + 256
      BY <1>2, <1>3, SMT
    <2> QED BY <2>1, <1>0, <1>2, <1>3, Rest, SMT
  <1>8. v <= 2147483647 => d3 = c
    <2>1. v <= 2147483647 => 256 * 0 <= c /\ c < 256 * 0 + 256
      BY <1>3, SMT
    <2> QED BY <2>1, <1>0, <1>3, Rest, SMT
  <1>9. /\ v <= 255 => d0 = v
        /\ v <= 65535 => d1 * 256 + d0 = v
    BY <1>1, <1>4, <1>5, SMT
  <1>10. v <= 2147483647 => d3 * 16777216 + d2 * 65536 + d1 * 256 + d0 = v
    BY <1>1, <1>2, <1>3, <1>4, <1>6, <1>7, <1>8, SMT
  <1> QED BY <1>9, <1>10, SMT

\* What is read back from the bytes of a value is the value.
LEMMA ReadBack ==
    ASSUME NEW cap \in Nat \ {0}, NEW b \in Buffers(cap), NEW w \in Widths,
           NEW v \in 0 .. MaxValue(w),
           \A i \in 1 .. w : b.bytes[b.reader_pos + i - 1] = Digit(v, w - i)
    PROVE  read_be(b, w) = v
  <1> DEFINE d(k) == b.bytes[b.reader_pos + k]
  <1>1. \A k \in 0 .. w - 1 : d(k) = Digit(v, w - (k + 1))
    <2> TAKE k \in 0 .. w - 1
    <2>1. k + 1 \in 1 .. w /\ b.reader_pos + (k + 1) - 1 = b.reader_pos + k
      BY BufferFacts DEF Widths
    <2> QED BY <2>1
  <1>2. /\ v \in Nat
        /\ w = 1 => v <= 255
        /\ w = 2 => v <= 65535
        /\ w = 4 => v <= 2147483647
    BY MaxValues, SMT DEF Widths
  <1>3. v \in Int
    BY <1>2, SMT
  <1> HIDE DEF d
  <1>4. /\ Digit(v, 0) = v % 256
        /\ Digit(v, 1) = (v \div 256) % 256
        /\ Digit(v, 2) = (v \div 65536) % 256
        /\ Digit(v, 3) = (v \div 16777216) % 256
    BY <1>3, DigitValues
  <1>5. /\ Digit(v, 0) \in Int /\ Digit(v, 1) \in Int
        /\ Digit(v, 2) \in Int /\ Digit(v, 3) \in Int
    BY <1>3, <1>4, SMT
  <1>6. /\ v <= 255 => Digit(v, 0) = v
        /\ v <= 65535 => Digit(v, 1) * 256 + Digit(v, 0) = v
        /\ v <= 2147483647 =>
               Digit(v, 3) * 16777216 + Digit(v, 2) * 65536 + Digit(v, 1) * 256 + Digit(v, 0) = v
    BY <1>2, <1>4, <1>5, Decoded
  <1>7. CASE w = 1
    <2>1. d(0) = Digit(v, 0)
      BY <1>1, <1>7, SMT
    <2> QED BY <2>1, <1>2, <1>6, <1>7, SMT DEF read_be, d
  <1>8. CASE w = 2
    <2>1. d(0) = Digit(v, 1) /\ d(1) = Digit(v, 0)
      BY <1>1, <1>8, SMT
    <2> QED BY <2>1, <1>2, <1>6, <1>8, SMT DEF read_be, d
  <1>9. CASE w = 4
    <2>1. d(0) = Digit(v, 3) /\ d(1) = Digit(v, 2) /\ d(2) = Digit(v, 1) /\ d(3) = Digit(v, 0)
      BY <1>1, <1>9, SMT
    <2> QED BY <2>1, <1>2, <1>6, <1>9, SMT DEF read_be, d
  <1> QED BY <1>7, <1>8, <1>9 DEF Widths

\* Whatever bytes are read, they make a natural number.
LEMMA ReadNat ==
    ASSUME NEW cap \in Nat \ {0}, NEW b \in Buffers(cap), NEW w \in Widths,
           readable_bytes(b) >= w
    PROVE  read_be(b, w) \in Nat
  <1> DEFINE d(k) == b.bytes[b.reader_pos + k]
  <1>1. \A k \in 0 .. w - 1 : d(k) \in Nat
    <2> TAKE k \in 0 .. w - 1
    <2>1. /\ k + 1 \in 1 .. readable_bytes(b)
          /\ b.reader_pos + (k + 1) - 1 = b.reader_pos + k
      BY BufferFacts DEF Widths
    <2>2. b.bytes[b.reader_pos + (k + 1) - 1] \in Byte
      BY <2>1, BufferFacts
    <2> QED BY <2>1, <2>2 DEF Byte
  <1> HIDE DEF d
  <1>2. CASE w = 1
    <2>1. d(0) \in Nat
      BY <1>1, <1>2
    <2> QED BY <1>2, <2>1, SMT DEF read_be, d
  <1>3. CASE w = 2
    <2>1. d(0) * 256 + d(1) \in Nat
      BY <1>1, <1>3, SMT
    <2> QED BY <1>3, <2>1, SMT DEF read_be, d
  <1>4. CASE w = 4
    <2>1. d(0) * 16777216 + d(1) * 65536 + d(2) * 256 + d(3) \in Nat
      BY <1>1, <1>4, SMT
    <2> QED BY <1>4, <2>1, SMT DEF read_be, d
  <1> QED BY <1>2, <1>3, <1>4 DEF Widths

----------------------------------------------------------------------------
(* What the types say.                                                     *)

\* The sizes are positive.
LEMMA Sizes ==
    /\ BufferCapacity \in Nat \ {0}
    /\ ChunkCap \in Nat \ {0}
    /\ MaxTransfer \in Nat \ {0}
    /\ SockCap \in Nat \ {0}
    /\ MaxFaults \in Nat
  BY BoundsAssumption

\* The values of a script.
LEMMA ScriptFacts ==
    ASSUME TypeOK
    PROVE  /\ Len(script) \in Nat
           /\ \A k \in 1 .. Len(script) :
                  /\ script[k].width \in Widths
                  /\ script[k].value \in Int
                  /\ script[k].width \in 1 .. 4
                  /\ script[k].width <= BufferCapacity
  <1> DEFINE V == [width : Widths, value : Int]
  <1>1. /\ script \in Seq(V)
        /\ \A k \in 1 .. Len(script) : script[k].width <= BufferCapacity
    BY ScriptsAssumption DEF TypeOK
  <1>2. \A x \in V : x.width \in Widths /\ x.value \in Int
    OBVIOUS
  <1> HIDE DEF V
  <1>3. Widths \subseteq 1 .. 4
    BY DEF Widths
  <1>4. Len(script) \in Nat /\ \A k \in 1 .. Len(script) : script[k] \in V
    BY <1>1
  <1> QED BY <1>1, <1>2, <1>3, <1>4

\* The unread bytes of both buffers.
LEMMA BufferTypes ==
    ASSUME TypeOK
    PROVE  /\ sbuf \in Buffers(BufferCapacity) /\ readable_bytes(sbuf) \in Nat
           /\ Unread(sbuf) \in Seq(Byte) /\ Len(Unread(sbuf)) = readable_bytes(sbuf)
           /\ rbuf \in Buffers(BufferCapacity) /\ readable_bytes(rbuf) \in Nat
           /\ Unread(rbuf) \in Seq(Byte) /\ Len(Unread(rbuf)) = readable_bytes(rbuf)
  <1>1. sbuf \in Buffers(BufferCapacity) /\ rbuf \in Buffers(BufferCapacity)
    BY DEF TypeOK
  <1>2. \A b \in Buffers(BufferCapacity) : readable_bytes(b) \in Nat
    BY BufferFacts, Sizes
  <1>3. \A b \in Buffers(BufferCapacity) :
            Unread(b) \in Seq(Byte) /\ Len(Unread(b)) = readable_bytes(b)
    BY UnreadFacts, Sizes
  <1> QED BY <1>1, <1>2, <1>3

\* The bytes the receiver waits for fit its buffer.
LEMMA NextWidthFacts ==
    ASSUME TypeOK
    PROVE  /\ NextWidth \in Widths
           /\ NextWidth \in 1 .. 4
           /\ NextWidth <= BufferCapacity
  <1>1. Len(got) \in Nat /\ (Len(got) < Len(script) => Len(got) + 1 \in 1 .. Len(script))
    BY ScriptFacts DEF TypeOK
  <1>2. CASE Len(got) < Len(script)
    BY <1>1, <1>2, ScriptFacts DEF NextWidth
  <1>3. CASE ~(Len(got) < Len(script))
    BY <1>3, Sizes DEF NextWidth, Widths
  <1> QED BY <1>2, <1>3

\* The two states of a call.
LEMMA CallFacts ==
    ASSUME TypeOK
    PROVE  /\ ~call.active => call = Idle
           /\ call.active =>
                  /\ call \in Calls
                  /\ call.temp = Unread(sbuf)
                  /\ call.length = Smaller(Len(call.temp), MaxTransfer)
                  /\ call.chunk_cap = Smaller(call.length, ChunkCap)
                  /\ call.to_send = Smaller(call.length - call.total_sent, call.chunk_cap)
                  /\ call.chunk_sent < call.to_send
           /\ call.active \in BOOLEAN
  <1>1. CASE call = Idle
    BY <1>1 DEF Idle
  <1>2. CASE call # Idle
    <2>1. call \in Calls
      BY <1>2 DEF TypeOK, CallOK
    <2>2. call.active = TRUE
      BY <2>1 DEF Calls
    <2> QED BY <1>2, <2>1, <2>2 DEF TypeOK, CallOK
  <1> QED BY <1>1, <1>2

\* A call in progress sends bytes of its buffer, a chunk at a time.
LEMMA CallNumbers ==
    ASSUME TypeOK, call.active
    PROVE  /\ call.length \in Nat /\ call.to_send \in Nat /\ call.total_sent \in Nat
           /\ call.chunk_sent \in Nat /\ call.chunk_cap \in Nat
           /\ call.length <= readable_bytes(sbuf)
           /\ call.to_send <= ChunkCap
           /\ call.total_sent + call.to_send <= call.length
           /\ call.chunk_sent < call.to_send
           /\ call.chunk_sent + call.total_sent <= readable_bytes(sbuf)
  <1>1. /\ call.length \in Nat /\ call.to_send \in Nat /\ call.total_sent \in Nat
        /\ call.chunk_sent \in Nat /\ call.chunk_cap \in Nat
    BY CallFacts DEF Calls
  <1>2. Len(call.temp) = readable_bytes(sbuf) /\ readable_bytes(sbuf) \in Nat
    BY CallFacts, BufferTypes
  <1>3. /\ call.length = Smaller(readable_bytes(sbuf), MaxTransfer)
        /\ call.chunk_cap = Smaller(call.length, ChunkCap)
        /\ call.to_send = Smaller(call.length - call.total_sent, call.chunk_cap)
        /\ call.chunk_sent < call.to_send
    BY CallFacts, <1>2
  <1> QED BY <1>1, <1>2, <1>3, Sizes DEF Smaller

----------------------------------------------------------------------------
(* Parts of the invariant whose variables a step leaves alone.             *)

\* The sender's buffer and the stream.
LEMMA SameSource ==
    ASSUME SourceInv, UNCHANGED <<sbuf, stream>>
    PROVE  SourceInv'
  BY DEF SourceInv, Acknowledged, readable_bytes

\* What send() has accepted.
LEMMA SameLog ==
    ASSUME LogInv, UntornInv, UNCHANGED <<sbuf, stream, call, log, torn>>
    PROVE  LogInv' /\ UntornInv'
  BY DEF LogInv, UntornInv, Acknowledged, readable_bytes, Ahead, Whole, Accepted

\* The values in the stream.
LEMMA SameFrame ==
    ASSUME Framed, UNCHANGED <<script, todo, stream, start>>
    PROVE  Framed'
  BY DEF Framed

\* The receiver's place in the stream.
LEMMA SameReceived ==
    ASSUME ReceivedInv, UNCHANGED <<script, todo, stream, start, log, torn, wire, link, rbuf, got>>
    PROVE  ReceivedInv'
  BY DEF ReceivedInv, readable_bytes

\* The state of the connection.
LEMMA SameLink ==
    ASSUME LinkInv, UNCHANGED <<script, todo, sbuf, call, wire, link>>
    PROVE  LinkInv'
  BY DEF LinkInv, readable_bytes

\* The buffer of a receiver that asks for what it lacks.
LEMMA SameExact ==
    ASSUME ExactInv, UNCHANGED <<script, policy, rbuf, got>>
    PROVE  ExactInv'
  BY DEF ExactInv, readable_bytes, NextWidth

\* The end the receiver has seen.
LEMMA SameEof ==
    ASSUME EofIsEnd, UNCHANGED <<script, policy, link, wire, torn, got, rstate>>
    PROVE  EofIsEnd'
  BY DEF EofIsEnd, Values

----------------------------------------------------------------------------
(* The end of a call.                                                      *)

\* Sending k bytes of the buffer leaves the rest of the stream in it.
LEMMA SourceConsumed ==
    ASSUME TypeOK, SourceInv, NEW k \in 0 .. readable_bytes(sbuf),
           sbuf' = Consume(sbuf, k), stream' = stream
    PROVE  /\ sbuf' \in Buffers(BufferCapacity)
           /\ readable_bytes(sbuf)' = readable_bytes(sbuf) - k
           /\ Acknowledged' = Acknowledged + k
           /\ SourceInv'
  <1>1. /\ sbuf' \in Buffers(BufferCapacity)
        /\ sbuf'.bytes = sbuf.bytes
        /\ sbuf'.reader_pos = sbuf.reader_pos + k
        /\ readable_bytes(sbuf') = readable_bytes(sbuf) - k
    BY ConsumeFacts, BufferTypes, Sizes
  <1>2. readable_bytes(sbuf)' = readable_bytes(sbuf')
    BY DEF readable_bytes
  <1>3. /\ readable_bytes(sbuf) \in Nat /\ Len(stream) \in Nat
        /\ sbuf.reader_pos \in Nat
    <2>1. sbuf \in Buffers(BufferCapacity) /\ readable_bytes(sbuf) \in Nat
      BY BufferTypes
    <2>2. sbuf.reader_pos \in Nat
      BY <2>1, BufferFacts, Sizes
    <2>3. Len(stream) \in Nat
      BY DEF TypeOK
    <2> QED BY <2>1, <2>2, <2>3
  <1>4. Acknowledged' = Acknowledged + k
    BY <1>1, <1>2, <1>3 DEF Acknowledged
  <1>5. Acknowledged \in Int
    BY <1>3 DEF Acknowledged
  <1>6. ASSUME NEW i \in 1 .. readable_bytes(sbuf')
        PROVE  sbuf'.bytes[sbuf'.reader_pos + i - 1] = stream'[Acknowledged' + i]
    <2>1. /\ k + i \in 1 .. readable_bytes(sbuf)
          /\ sbuf'.reader_pos + i - 1 = sbuf.reader_pos + (k + i) - 1
          /\ Acknowledged' + i = Acknowledged + (k + i)
      BY <1>1, <1>3, <1>4, <1>5
    <2>2. sbuf.bytes[sbuf.reader_pos + (k + i) - 1] = stream[Acknowledged + (k + i)]
      BY <2>1 DEF SourceInv
    <2> QED BY <2>1, <2>2, <1>1
  <1>7. readable_bytes(sbuf') <= Len(stream')
    BY <1>1, <1>3 DEF SourceInv
  <1>8. SourceInv'
    BY <1>6, <1>7, <1>2 DEF SourceInv
  <1> QED BY <1>1, <1>2, <1>4, <1>8

\* The bytes written and sent are numbers.
LEMMA Numbers ==
    ASSUME TypeOK, SourceInv
    PROVE  /\ Len(stream) \in Nat /\ readable_bytes(sbuf) \in Nat
           /\ Acknowledged \in Nat
           /\ Acknowledged + readable_bytes(sbuf) = Len(stream)
           /\ Ahead \in Nat /\ Whole \in Nat /\ Whole <= Ahead
           /\ Ahead <= readable_bytes(sbuf)
           /\ Acknowledged + Ahead <= Len(stream)
  <1>1. Len(stream) \in Nat /\ readable_bytes(sbuf) \in Nat
    BY BufferTypes DEF TypeOK
  <1>2. Acknowledged \in Nat /\ Acknowledged + readable_bytes(sbuf) = Len(stream)
    BY <1>1 DEF SourceInv, Acknowledged
  <1>3. /\ Ahead \in Nat /\ Whole \in Nat /\ Whole <= Ahead
        /\ Ahead <= readable_bytes(sbuf)
    <2>1. CASE call.active
      BY <2>1, CallNumbers, <1>1 DEF Ahead, Whole
    <2>2. CASE ~call.active
      BY <2>2, <1>1 DEF Ahead, Whole
    <2> QED BY <2>1, <2>2
  <1> QED BY <1>1, <1>2, <1>3

\* A call that ends early reports its whole chunks.
LEMMA EarlyReturn ==
    ASSUME TypeOK, SourceInv, call.active,
           NEW r \in {FailResult(call), call.total_sent}, Return(r)
    PROVE  /\ call' = Idle
           /\ sbuf' = Consume(sbuf, call.total_sent)
           /\ call.total_sent \in 0 .. readable_bytes(sbuf)
  <1>1. /\ call.total_sent \in Nat
        /\ call.total_sent \in 0 .. readable_bytes(sbuf)
    BY CallNumbers, Numbers
  <1>2. call' = Idle
    BY DEF Return
  <1>3. CASE call.total_sent > 0
    <2>1. r = call.total_sent
      BY <1>3 DEF FailResult
    <2> QED BY <1>1, <1>2, <1>3, <2>1 DEF Return
  <1>4. CASE call.total_sent = 0
    <2>1. r = -1 \/ r = 0
      BY <1>4 DEF FailResult
    <2>2. sbuf' = sbuf
      BY <2>1 DEF Return
    <2>3. Consume(sbuf, 0) = sbuf
      <3>1. /\ sbuf = [bytes |-> sbuf.bytes, capacity |-> BufferCapacity,
                       writer_pos |-> sbuf.writer_pos, reader_pos |-> sbuf.reader_pos]
            /\ sbuf.reader_pos \in Nat
        BY BufferFacts, BufferTypes, Sizes
      <3>2. sbuf.reader_pos + 0 = sbuf.reader_pos
        BY <3>1
      <3> QED BY <3>1, <3>2 DEF Consume
    <2> QED BY <1>1, <1>2, <1>4, <2>2, <2>3
  <1> QED BY <1>1, <1>3, <1>4

\* The step that ends a call early keeps the invariant.
LEMMA CallEnds ==
    ASSUME StreamInv, call.active,
           NEW r \in {FailResult(call), call.total_sent}, Return(r),
           torn' = (torn \/ call.chunk_sent > 0), faults' \in 0 .. MaxFaults,
           UNCHANGED <<script, policy, todo, wire, link, receiver, stream, start, log>>
    PROVE  StreamInv'
  <1>1. /\ call' = Idle
        /\ sbuf' = Consume(sbuf, call.total_sent)
        /\ call.total_sent \in 0 .. readable_bytes(sbuf)
    BY EarlyReturn DEF StreamInv
  <1>2. /\ sbuf' \in Buffers(BufferCapacity)
        /\ readable_bytes(sbuf)' = readable_bytes(sbuf) - call.total_sent
        /\ Acknowledged' = Acknowledged + call.total_sent
        /\ SourceInv'
    BY <1>1, SourceConsumed DEF StreamInv
  <1>3. rbuf' = rbuf /\ got' = got /\ rstate' = rstate
    BY DEF receiver
  <1>4. TypeOK'
    BY <1>1, <1>2, <1>3 DEF TypeOK, StreamInv, CallOK
  <1>5. /\ Ahead' = 0 /\ Whole' = 0 /\ Whole = call.total_sent
        /\ Ahead = call.total_sent + call.chunk_sent
    BY <1>1 DEF Ahead, Whole, Idle
  <1>6. /\ Acknowledged \in Nat /\ call.total_sent \in Nat /\ call.chunk_sent \in Nat
        /\ Acknowledged' + Ahead' = Acknowledged + Whole
        /\ Acknowledged' + Whole' = Acknowledged + Whole
        /\ Acknowledged + Whole <= Acknowledged + Ahead
    <2>1. Acknowledged \in Nat /\ call.total_sent \in Nat /\ call.chunk_sent \in Nat
      BY Numbers, CallNumbers DEF StreamInv
    <2> QED BY <2>1, <1>2, <1>5
  <1>7. LogInv'
    <2>1. Accepted' = Accepted
      BY DEF Accepted
    <2>2. 1 .. Acknowledged + Whole \subseteq 1 .. Acknowledged + Ahead
      BY <1>6, Numbers DEF StreamInv
    <2> QED BY <1>6, <2>1, <2>2 DEF LogInv, StreamInv
  <1>8. UntornInv'
    <2> SUFFICES ASSUME ~torn' PROVE Len(log) = Acknowledged' + Ahead'
                                      /\ \A j \in 1 .. Len(log) : log[j] = j
      BY DEF UntornInv
    <2>1. ~torn /\ ~(call.chunk_sent > 0)
      OBVIOUS
    <2>2. call.chunk_sent = 0
      BY <2>1, <1>6
    <2>3. Len(log) = Acknowledged + Ahead /\ \A j \in 1 .. Len(log) : log[j] = j
      BY <2>1 DEF UntornInv, StreamInv
    <2> QED BY <2>2, <2>3, <1>5, <1>6
  <1>9. Framed'
    BY SameFrame DEF StreamInv
  <1>10. ReceivedInv'
    BY <1>3 DEF ReceivedInv, StreamInv, readable_bytes
  <1>11. LinkInv'
    BY DEF LinkInv, StreamInv
  <1>12. ExactInv'
    BY <1>3, SameExact DEF StreamInv
  <1>13. EofIsEnd'
    BY <1>3 DEF EofIsEnd, StreamInv, Values
  <1> QED BY <1>2, <1>4, <1>7, <1>8, <1>9, <1>10, <1>11, <1>12, <1>13 DEF StreamInv

\* A send that fails ends the call.
LEMMA SendFailsStep ==
    ASSUME StreamInv, SendFails
    PROVE  StreamInv'
  <1>1. faults' \in 0 .. MaxFaults
    BY Sizes DEF SendFails, StreamInv, TypeOK
  <1> QED BY <1>1, CallEnds DEF SendFails

\* A send that returns 0 ends the call.
LEMMA SendZeroStep ==
    ASSUME StreamInv, SendZero
    PROVE  StreamInv'
  <1>1. faults' \in 0 .. MaxFaults
    BY Sizes DEF SendZero, StreamInv, TypeOK
  <1> QED BY <1>1, CallEnds DEF SendZero

----------------------------------------------------------------------------
(* send() accepts a part of a chunk.                                       *)

\* Appending n elements to a sequence.
LEMMA Appended ==
    ASSUME NEW S, NEW s \in Seq(S), NEW n \in Nat, NEW f \in [1 .. n -> S]
    PROVE  /\ s \o f \in Seq(S)
           /\ Len(s \o f) = Len(s) + n
           /\ \A j \in 1 .. Len(s) : (s \o f)[j] = s[j]
           /\ \A i \in 1 .. n : (s \o f)[Len(s) + i] = f[i]
  <1>1. f \in Seq(S) /\ Len(f) = n
    OBVIOUS
  <1>2. s \o f \in Seq(S) /\ Len(s \o f) = Len(s) + n
    BY <1>1
  <1>3. \A j \in 1 .. Len(s) : (s \o f)[j] = s[j]
    BY <1>1
  <1>4. ASSUME NEW i \in 1 .. n PROVE (s \o f)[Len(s) + i] = f[i]
    <2>1. /\ Len(s) + i \in 1 .. Len(s) + Len(f)
          /\ ~(Len(s) + i <= Len(s)) /\ (Len(s) + i) - Len(s) = i
      BY <1>1
    <2> QED BY <2>1, <1>1
  <1> QED BY <1>2, <1>3, <1>4

\* The three ways in which the loops of net_send_bytes continue.
LEMMA SendCases ==
    ASSUME TypeOK, SourceInv, NEW n, SendSome(n)
    PROVE  /\ call.active /\ link = "up"
           /\ n \in Nat \ {0} /\ n <= call.to_send - call.chunk_sent /\ n <= SockCap - Len(wire)
           /\ \/ /\ call.chunk_sent + n < call.to_send
                 /\ call' = [call EXCEPT !.chunk_sent = @ + n]
                 /\ sbuf' = sbuf
              \/ /\ call.chunk_sent + n = call.to_send
                 /\ call.total_sent + call.to_send < call.length
                 /\ call' = [call EXCEPT !.total_sent = call.total_sent + call.to_send,
                                         !.chunk_sent = 0,
                                         !.to_send = Smaller(call.length -
                                             (call.total_sent + call.to_send), call.chunk_cap)]
                 /\ sbuf' = sbuf
              \/ /\ call.chunk_sent + n = call.to_send
                 /\ call.total_sent + call.to_send = call.length
                 /\ call' = Idle
                 /\ sbuf' = Consume(sbuf, call.length)
  <1>1. call.active /\ link = "up" /\ Len(wire) \in Nat
    BY DEF SendSome, TypeOK
  <1>2. /\ call.to_send \in Nat /\ call.chunk_sent \in Nat /\ call.total_sent \in Nat
        /\ call.length \in Nat /\ call.total_sent + call.to_send <= call.length
        /\ call.chunk_sent < call.to_send
    BY <1>1, CallNumbers
  <1>3. n \in 1 .. Smaller(call.to_send - call.chunk_sent, SockCap - Len(wire))
    BY DEF SendSome
  <1>4. /\ n \in Nat \ {0} /\ n <= call.to_send - call.chunk_sent /\ n <= SockCap - Len(wire)
    BY <1>1, <1>2, <1>3, Sizes DEF Smaller
  <1>5. CASE call.chunk_sent + n < call.to_send
    BY <1>1, <1>2, <1>4, <1>5 DEF SendSome
  <1>6. CASE call.chunk_sent + n = call.to_send /\ call.total_sent + call.to_send < call.length
    BY <1>1, <1>2, <1>4, <1>6 DEF SendSome
  <1>7. CASE call.chunk_sent + n = call.to_send /\ call.total_sent + call.to_send = call.length
    <2>1. Return(call.total_sent + call.to_send)
      BY <1>1, <1>2, <1>4, <1>7 DEF SendSome
    <2> QED BY <2>1, <1>1, <1>2, <1>4, <1>7 DEF Return
  <1> QED BY <1>2, <1>4, <1>5, <1>6, <1>7

\* Sums of positions can be regrouped.
LEMMA SumAssoc ==
    ASSUME NEW a \in Nat, NEW b \in Nat, NEW c \in Nat
    PROVE  a + b + c = a + (b + c)
  OBVIOUS

\* A place inside the current chunk is inside the stream and less than a
\* chunk ahead of the whole ones.
LEMMA WithinChunk ==
    ASSUME NEW a \in Nat, NEW t \in Nat, NEW m \in Nat, NEW s \in Nat, NEW c \in Nat,
           NEW l \in Nat, NEW r \in Nat, NEW e \in Nat,
           m < s, s <= c, t + s <= l, l <= r, a + r = e
    PROVE  a + (t + m) < a + t + c /\ a + (t + m) <= e
  OBVIOUS

\* Whichever it is, the call has come n bytes further in the stream.
LEMMA SendEffect ==
    ASSUME TypeOK, SourceInv, NEW n, SendSome(n)
    PROVE  /\ sbuf' \in Buffers(BufferCapacity)
           /\ SourceInv'
           /\ CallOK'
           /\ Acknowledged' + Ahead' = Acknowledged + Ahead + n
           /\ Acknowledged + Whole <= Acknowledged' + Whole'
           /\ Acknowledged + Ahead + n < Acknowledged' + Whole' + ChunkCap
           /\ Acknowledged + Ahead + n <= Len(stream)
  <1>0. /\ call.active /\ n \in Nat /\ n > 0 /\ n <= call.to_send - call.chunk_sent
    BY SendCases
  <1>1. /\ call.to_send \in Nat /\ call.chunk_sent \in Nat /\ call.total_sent \in Nat
        /\ call.length \in Nat /\ call.total_sent + call.to_send <= call.length
        /\ call.chunk_sent < call.to_send /\ call.to_send <= ChunkCap
        /\ call.length <= readable_bytes(sbuf) /\ call.chunk_cap \in Nat
    BY <1>0, CallNumbers
  <1>2. stream' = stream
    BY DEF SendSome
  <1>3. /\ Acknowledged \in Nat /\ Acknowledged + readable_bytes(sbuf) = Len(stream)
        /\ readable_bytes(sbuf) \in Nat
    BY Numbers
  <1>4. Ahead = call.total_sent + call.chunk_sent /\ Whole = call.total_sent
    BY <1>0 DEF Ahead, Whole
  <1>10. Ahead \in Nat /\ Whole \in Nat
    BY Numbers
  <1>5. /\ call \in Calls /\ call.temp = Unread(sbuf)
        /\ call.length = Smaller(Len(call.temp), MaxTransfer)
        /\ call.chunk_cap = Smaller(call.length, ChunkCap)
        /\ call.to_send = Smaller(call.length - call.total_sent, call.chunk_cap)
    BY <1>0, CallFacts
  <1>6. sbuf' = sbuf => /\ sbuf' \in Buffers(BufferCapacity) /\ SourceInv'
                        /\ Acknowledged' = Acknowledged /\ Unread(sbuf)' = Unread(sbuf)
    BY <1>2, SameSource DEF TypeOK, Acknowledged, readable_bytes, Unread
  <1>7. CASE /\ call.chunk_sent + n < call.to_send
             /\ call' = [call EXCEPT !.chunk_sent = @ + n]
             /\ sbuf' = sbuf
    <2> DEFINE m == call.chunk_sent + n
    <2>1. /\ m \in Nat /\ m < call.to_send
          /\ call' = [call EXCEPT !.chunk_sent = m]
      BY <1>0, <1>1, <1>7
    <2>2. Ahead + n = call.total_sent + m
      BY <1>0, <1>1, <1>4
    <2> HIDE DEF m
    <2>3. /\ call' \in Calls /\ call'.active /\ call'.temp = call.temp
          /\ call'.length = call.length /\ call'.chunk_cap = call.chunk_cap
          /\ call'.to_send = call.to_send /\ call'.total_sent = call.total_sent
          /\ call'.chunk_sent = m
      BY <2>1, <1>5 DEF Calls
    <2>4. CallOK'
      BY <2>1, <2>3, <1>5, <1>6, <1>7 DEF CallOK
    <2>5. Ahead' = call.total_sent + m /\ Whole' = call.total_sent
      BY <2>3 DEF Ahead, Whole
    <2>6. sbuf' \in Buffers(BufferCapacity) /\ SourceInv' /\ Acknowledged' = Acknowledged
      BY <1>6, <1>7
    <2>7. Acknowledged + Ahead + n = Acknowledged + (call.total_sent + m)
      BY <2>2, <1>0, <1>3, <1>10, SumAssoc
    <2>8. /\ Acknowledged + (call.total_sent + m) < Acknowledged + call.total_sent + ChunkCap
          /\ Acknowledged + (call.total_sent + m) <= Len(stream)
      <3>1. Len(stream) \in Nat /\ ChunkCap \in Nat
        BY Sizes DEF TypeOK
      <3> QED BY <3>1, <2>1, <1>1, <1>3, WithinChunk
    <2>9. Acknowledged + Whole <= Acknowledged + call.total_sent
      BY <1>1, <1>3, <1>4
    <2> QED BY <2>4, <2>5, <2>6, <2>7, <2>8, <2>9
  <1>8. CASE /\ call.chunk_sent + n = call.to_send
             /\ call.total_sent + call.to_send < call.length
             /\ call' = [call EXCEPT !.total_sent = call.total_sent + call.to_send,
                                     !.chunk_sent = 0,
                                     !.to_send = Smaller(call.length -
                                         (call.total_sent + call.to_send), call.chunk_cap)]
             /\ sbuf' = sbuf
    <2> DEFINE t == Smaller(call.length - (call.total_sent + call.to_send), call.chunk_cap)
               u == call.total_sent + call.to_send
    <2>1. t \in Nat \ {0} /\ u \in Nat
      <3>1. u \in Nat /\ u < call.length
        BY <1>1, <1>8
      <3>2. call.chunk_cap \in Nat \ {0}
        BY <3>1, <1>1, <1>5, Sizes DEF Smaller
      <3> HIDE DEF u
      <3>3. t = Smaller(call.length - u, call.chunk_cap)
        BY DEF u
      <3>4. call.length - u \in Nat \ {0}
        BY <3>1, <1>1
      <3> QED BY <3>1, <3>2, <3>3, <3>4 DEF Smaller
    <2>2. call' = [call EXCEPT !.total_sent = u, !.chunk_sent = 0, !.to_send = t]
      BY <1>8
    <2> HIDE DEF t, u
    <2>3. /\ call' \in Calls /\ call'.active /\ call'.temp = call.temp
          /\ call'.length = call.length /\ call'.chunk_cap = call.chunk_cap
          /\ call'.to_send = t /\ call'.total_sent = u /\ call'.chunk_sent = 0
      BY <2>1, <2>2, <1>1, <1>5 DEF Calls
    <2>4. CallOK'
      BY <2>1, <2>3, <1>5, <1>6, <1>8 DEF CallOK, t, u
    <2>5. Ahead' = u /\ Whole' = u
      BY <2>1, <2>3 DEF Ahead, Whole
    <2>6. u = call.total_sent + call.chunk_sent + n
      BY <1>0, <1>1, <1>8 DEF u
    <2>7. sbuf' \in Buffers(BufferCapacity) /\ SourceInv' /\ Acknowledged' = Acknowledged
      BY <1>6, <1>8
    <2>8. /\ Acknowledged + Ahead + n = Acknowledged + u
          /\ Acknowledged + Whole <= Acknowledged + u
          /\ Acknowledged + u < Acknowledged + u + ChunkCap
      <3>1. Ahead + n = u /\ Whole <= u
        BY <2>6, <1>0, <1>1, <1>4
      <3> QED BY <3>1, <2>1, <1>0, <1>3, <1>10, Sizes
    <2>9. Acknowledged + u <= Len(stream)
      BY <1>1, <1>3, <1>8 DEF u
    <2> QED BY <2>4, <2>5, <2>7, <2>8, <2>9
  <1>9. CASE /\ call.chunk_sent + n = call.to_send
             /\ call.total_sent + call.to_send = call.length
             /\ call' = Idle
             /\ sbuf' = Consume(sbuf, call.length)
    <2>1. call.length \in 0 .. readable_bytes(sbuf)
      BY <1>1, <1>3
    <2>2. /\ sbuf' \in Buffers(BufferCapacity) /\ SourceInv'
          /\ Acknowledged' = Acknowledged + call.length
      BY <2>1, <1>2, <1>9, SourceConsumed
    <2>3. CallOK' /\ Ahead' = 0 /\ Whole' = 0
      BY <1>9 DEF CallOK, Ahead, Whole, Idle
    <2>4. /\ Acknowledged + Ahead + n = Acknowledged + call.length + 0
          /\ Acknowledged + Whole <= Acknowledged + call.length + 0
      <3>1. Ahead + n = call.length /\ Whole <= call.length
        BY <1>0, <1>1, <1>4, <1>9
      <3>2. Acknowledged + Ahead + n = Acknowledged + call.length
        BY <3>1, <1>0, <1>3, <1>10, SumAssoc
      <3>3. Acknowledged + call.length + 0 = Acknowledged + call.length
        BY <1>1, <1>3
      <3> QED BY <3>1, <3>2, <3>3, <1>1, <1>3, <1>10
    <2>5. /\ Acknowledged + call.length + 0 < Acknowledged + call.length + 0 + ChunkCap
          /\ Acknowledged + call.length + 0 <= Len(stream)
      BY <1>1, <1>3, Sizes
    <2> QED BY <2>2, <2>3, <2>4, <2>5
  <1> QED BY <1>7, <1>8, <1>9, SendCases

\* What send() takes is the next part of the stream.
LEMMA SendAppends ==
    ASSUME TypeOK, SourceInv, NEW n, SendSome(n)
    PROVE  /\ log' \in Seq(Nat) /\ Len(log') = Len(log) + n
           /\ \A j \in 1 .. Len(log) : log'[j] = log[j]
           /\ \A i \in 1 .. n : log'[Len(log) + i] = Acknowledged + Ahead + i
           /\ wire' \in Seq(Byte) /\ Len(wire') = Len(wire) + n
           /\ \A j \in 1 .. Len(wire) : wire'[j] = wire[j]
           /\ \A i \in 1 .. n : wire'[Len(wire) + i] = stream[Acknowledged + Ahead + i]
  <1>1. /\ call.active /\ n \in Nat /\ n <= call.to_send - call.chunk_sent
    BY SendCases
  <1>2. /\ Acknowledged \in Nat /\ Ahead \in Nat
        /\ Ahead = call.total_sent + call.chunk_sent
    BY <1>1, Numbers DEF Ahead
  <1>3. /\ call.to_send \in Nat /\ call.chunk_sent \in Nat /\ call.total_sent \in Nat
        /\ call.total_sent + call.to_send <= call.length
        /\ call.length \in Nat /\ call.length <= readable_bytes(sbuf)
    BY <1>1, CallNumbers
  <1>4. /\ log \in Seq(Nat) /\ wire \in Seq(Byte) /\ readable_bytes(sbuf) \in Nat
    BY BufferTypes DEF TypeOK
  <1>5. ASSUME NEW i \in 1 .. n
        PROVE  /\ Taken(call, i) = Ahead + i
               /\ Ahead + i \in 1 .. readable_bytes(sbuf)
    <2>1. Taken(call, i) = Ahead + i
      BY <1>2, <1>3 DEF Taken
    <2>2. Ahead + i <= call.total_sent + call.to_send
      BY <1>1, <1>2, <1>3
    <2> QED BY <2>1, <2>2, <1>2, <1>3, <1>4
  <1>6. ASSUME NEW i \in 1 .. n
        PROVE  /\ call.temp[Taken(call, i)] = stream[Acknowledged + Ahead + i]
               /\ call.temp[Taken(call, i)] \in Byte
    <2>1. /\ Taken(call, i) = Ahead + i
          /\ Ahead + i \in 1 .. readable_bytes(sbuf)
      BY <1>5
    <2>2. call.temp = Unread(sbuf)
      BY <1>1, CallFacts
    <2>3. Unread(sbuf)[Ahead + i] = sbuf.bytes[sbuf.reader_pos + (Ahead + i) - 1]
      BY <2>1, UnreadFacts, Sizes DEF TypeOK
    <2>4. sbuf.bytes[sbuf.reader_pos + (Ahead + i) - 1] = stream[Acknowledged + (Ahead + i)]
      BY <2>1 DEF SourceInv
    <2>5. Unread(sbuf)[Ahead + i] \in Byte
      BY <2>1, BufferTypes
    <2>6. Acknowledged + (Ahead + i) = Acknowledged + Ahead + i
      BY <1>2
    <2> QED BY <2>1, <2>2, <2>3, <2>4, <2>5, <2>6
  <1> DEFINE f == [i \in 1 .. n |-> call.temp[Taken(call, i)]]
             g == [i \in 1 .. n |-> Acknowledged + Taken(call, i)]
  <1>7. /\ f \in [1 .. n -> Byte]
        /\ \A i \in 1 .. n : f[i] = stream[Acknowledged + Ahead + i]
    BY <1>6
  <1>8. /\ g \in [1 .. n -> Nat]
        /\ \A i \in 1 .. n : g[i] = Acknowledged + Ahead + i
    BY <1>1, <1>2, <1>5
  <1>9. wire' = wire \o f /\ log' = log \o g
    BY DEF SendSome
  <1> HIDE DEF f, g
  <1>10. /\ wire' \in Seq(Byte) /\ Len(wire') = Len(wire) + n
         /\ \A j \in 1 .. Len(wire) : wire'[j] = wire[j]
         /\ \A i \in 1 .. n : wire'[Len(wire) + i] = f[i]
    BY <1>1, <1>4, <1>7, <1>9, Appended
  <1>11. /\ log' \in Seq(Nat) /\ Len(log') = Len(log) + n
         /\ \A j \in 1 .. Len(log) : log'[j] = log[j]
         /\ \A i \in 1 .. n : log'[Len(log) + i] = g[i]
    BY <1>1, <1>4, <1>8, <1>9, Appended
  <1> QED BY <1>7, <1>8, <1>10, <1>11

\* A send that accepts bytes keeps the invariant.
LEMMA SendSomeStep ==
    ASSUME StreamInv, NEW n, SendSome(n)
    PROVE  StreamInv'
  <1> DEFINE now == Acknowledged + Ahead
  <1>1. /\ call.active /\ link = "up" /\ n \in Nat /\ n > 0 /\ n <= SockCap - Len(wire)
    BY SendCases DEF StreamInv
  <1>2. /\ sbuf' \in Buffers(BufferCapacity) /\ SourceInv' /\ CallOK'
        /\ Acknowledged' + Ahead' = now + n
        /\ Acknowledged + Whole <= Acknowledged' + Whole'
        /\ now + n < Acknowledged' + Whole' + ChunkCap
        /\ now + n <= Len(stream)
    BY SendEffect DEF StreamInv
  <1>3. /\ log' \in Seq(Nat) /\ Len(log') = Len(log) + n
        /\ \A j \in 1 .. Len(log) : log'[j] = log[j]
        /\ \A i \in 1 .. n : log'[Len(log) + i] = now + i
        /\ wire' \in Seq(Byte) /\ Len(wire') = Len(wire) + n
        /\ \A j \in 1 .. Len(wire) : wire'[j] = wire[j]
        /\ \A i \in 1 .. n : wire'[Len(wire) + i] = stream[now + i]
    BY SendAppends DEF StreamInv
  <1>4. /\ UNCHANGED <<script, policy, todo, link, faults, stream, start, torn>>
        /\ rbuf' = rbuf /\ got' = got /\ rstate' = rstate
    BY DEF SendSome, receiver
  <1>5. /\ now \in Nat /\ Acknowledged \in Nat /\ Whole \in Nat /\ Len(stream) \in Nat
        /\ Len(log) \in Nat /\ Len(wire) \in Nat
    BY Numbers DEF StreamInv, TypeOK
  <1>6. Acknowledged' \in Int /\ Whole' \in Int
    <2>1. readable_bytes(sbuf') \in Nat /\ readable_bytes(sbuf)' = readable_bytes(sbuf')
      BY <1>2, BufferFacts, Sizes DEF readable_bytes
    <2>2. Acknowledged' \in Int
      BY <2>1, <1>4, <1>5 DEF Acknowledged
    <2>3. Whole' \in Int
      <3>1. CASE call' = Idle
        BY <3>1 DEF Whole, Idle
      <3>2. CASE call' # Idle
        <4>1. call' \in Calls
          BY <3>2, <1>2 DEF CallOK
        <4>2. call'.total_sent \in Nat
          BY <4>1 DEF Calls
        <4> QED BY <4>2 DEF Whole
      <3> QED BY <3>1, <3>2
    <2> QED BY <2>2, <2>3
  <1> HIDE DEF now
  <1>7. TypeOK'
    BY <1>1, <1>2, <1>3, <1>4, <1>5, Sizes DEF StreamInv, TypeOK
  <1>8. Accepted' = Accepted \cup (now + 1 .. now + n)
    <2>1. ASSUME NEW p \in Accepted PROVE p \in Accepted'
      <3>1. PICK j \in 1 .. Len(log) : p = log[j]
        BY <2>1 DEF Accepted
      <3>2. j \in 1 .. Len(log') /\ p = log'[j]
        BY <3>1, <1>1, <1>3, <1>5
      <3> QED BY <3>2 DEF Accepted
    <2>2. ASSUME NEW p \in now + 1 .. now + n PROVE p \in Accepted'
      <3>1. /\ p - now \in 1 .. n /\ Len(log) + (p - now) \in 1 .. Len(log')
            /\ now + (p - now) = p
        <4>1. Len(log') = Len(log) + n
          BY <1>3
        <4> QED BY <4>1, <1>1, <1>5
      <3>2. log'[Len(log) + (p - now)] = p
        BY <3>1, <1>3
      <3> QED BY <3>1, <3>2 DEF Accepted
    <2>3. ASSUME NEW p \in Accepted' PROVE p \in Accepted \cup (now + 1 .. now + n)
      <3>1. PICK j \in 1 .. Len(log') : p = log'[j]
        BY <2>3 DEF Accepted
      <3>2. CASE j \in 1 .. Len(log)
        BY <3>1, <3>2, <1>3 DEF Accepted
      <3>3. CASE j \notin 1 .. Len(log)
        <4>1. j - Len(log) \in 1 .. n /\ Len(log) + (j - Len(log)) = j
          BY <3>3, <1>1, <1>3, <1>5
        <4>2. p = now + (j - Len(log))
          BY <4>1, <3>1, <1>3
        <4> QED BY <4>1, <4>2, <1>1, <1>5
      <3> QED BY <3>2, <3>3
    <2> QED BY <2>1, <2>2, <2>3
  <1>9. LogInv'
    <2>1. /\ 1 .. now \subseteq Accepted
          /\ \A p \in Accepted : /\ p \in 1 .. Len(stream) /\ 1 .. p \subseteq Accepted
                                 /\ p < Acknowledged + Whole + ChunkCap
      BY DEF LogInv, StreamInv, now
    <2> DEFINE old == Acknowledged + Whole
               new == Acknowledged' + Whole'
    <2>4. old \in Int /\ new \in Int /\ old <= new /\ now + n < new + ChunkCap
      <3>1. old \in Int /\ new \in Int
        BY <1>5, <1>6
      <3>2. old <= new /\ now + n < new + ChunkCap
        BY <1>2
      <3> QED BY <3>1, <3>2
    <2>5. \A p \in Accepted : p < old + ChunkCap
      BY <2>1
    <2> HIDE DEF old, new
    <2>2. 1 .. now + n \subseteq Accepted'
      BY <2>1, <1>1, <1>5, <1>8
    <2>3. ASSUME NEW p \in Accepted'
          PROVE  /\ p \in 1 .. Len(stream) /\ 1 .. p \subseteq Accepted'
                 /\ p < new + ChunkCap
      <3>1. CASE p \in Accepted
        <4>1. p \in 1 .. Len(stream) /\ p < old + ChunkCap /\ 1 .. p \subseteq Accepted
          BY <3>1, <2>1, <2>5
        <4>2. p < new + ChunkCap
          BY <4>1, <2>4, <1>5, Sizes
        <4> QED BY <4>1, <4>2, <1>8
      <3>2. CASE p \in now + 1 .. now + n
        <4>1. p \in 1 .. Len(stream) /\ p < new + ChunkCap
          <5>1. now + n <= Len(stream)
            BY <1>2
          <5> QED BY <5>1, <3>2, <2>4, <1>1, <1>5, Sizes
        <4>2. 1 .. p \subseteq 1 .. now + n
          BY <3>2, <1>1, <1>5
        <4> QED BY <4>1, <4>2, <2>2
      <3> QED BY <3>1, <3>2, <1>8
    <2> QED BY <2>2, <2>3, <1>2, <1>4 DEF LogInv, new
  <1>10. UntornInv'
    <2> SUFFICES ASSUME ~torn
                 PROVE  Len(log') = now + n /\ \A j \in 1 .. Len(log') : log'[j] = j
      BY <1>2, <1>4 DEF UntornInv
    <2>1. Len(log) = now /\ \A j \in 1 .. Len(log) : log[j] = j
      BY DEF UntornInv, StreamInv, now
    <2>2. Len(log') = now + n
      BY <2>1, <1>3
    <2>3. ASSUME NEW j \in 1 .. Len(log') PROVE log'[j] = j
      <3>1. CASE j \in 1 .. Len(log)
        BY <3>1, <2>1, <1>3
      <3>2. CASE j \notin 1 .. Len(log)
        <4>1. j - Len(log) \in 1 .. n /\ Len(log) + (j - Len(log)) = j
          BY <3>2, <1>1, <1>3, <1>5
        <4>2. log'[j] = now + (j - Len(log))
          BY <4>1, <1>3
        <4> QED BY <4>1, <4>2, <2>1, <1>5
      <3> QED BY <3>1, <3>2
    <2> QED BY <2>2, <2>3
  <1>11. Framed'
    BY <1>4, SameFrame DEF StreamInv
  <1>12. ReceivedInv'
    <2> DEFINE D == start[Len(got) + 1]
               R == readable_bytes(rbuf)
    <2> SUFFICES ASSUME ~torn
                 PROVE  /\ Len(got) < todo
                        /\ \A i \in 1 .. Len(got) : got[i] = script[i].value
                        /\ D + R <= Len(log')
                        /\ \A i \in 1 .. R : rbuf.bytes[rbuf.reader_pos + i - 1] = stream[D + i]
                        /\ Len(log') = D + R + Len(wire')
                        /\ \A i \in 1 .. Len(wire') : wire'[i] = stream[D + R + i]
      BY <1>4 DEF ReceivedInv, readable_bytes
    <2>1. Len(log) = now
      BY DEF UntornInv, StreamInv, now
    <2>2. /\ Len(got) < todo
          /\ \A i \in 1 .. Len(got) : got[i] = script[i].value
          /\ \A i \in 1 .. R : rbuf.bytes[rbuf.reader_pos + i - 1] = stream[D + i]
          /\ Len(log) = D + R + Len(wire)
          /\ \A i \in 1 .. Len(wire) : wire[i] = stream[D + R + i]
      BY <1>1 DEF ReceivedInv, StreamInv
    <2>3. D \in Nat /\ R \in Nat
      <3>1. Len(got) + 1 \in 1 .. Len(start)
        BY <2>2 DEF StreamInv, Framed, TypeOK
      <3> QED BY <3>1, BufferTypes DEF StreamInv, TypeOK
    <2> HIDE DEF D, R
    <2>4. D + R <= Len(log') /\ Len(log') = D + R + Len(wire')
      BY <2>2, <2>3, <1>1, <1>3, <1>5
    <2>5. ASSUME NEW i \in 1 .. Len(wire') PROVE wire'[i] = stream[D + R + i]
      <3>1. CASE i \in 1 .. Len(wire)
        BY <3>1, <2>2, <1>3
      <3>2. CASE i \notin 1 .. Len(wire)
        <4>1. /\ i - Len(wire) \in 1 .. n /\ Len(wire) + (i - Len(wire)) = i
              /\ now + (i - Len(wire)) = D + R + i
          BY <3>2, <2>1, <2>2, <2>3, <1>1, <1>3, <1>5
        <4> QED BY <4>1, <1>3
      <3> QED BY <3>1, <3>2
    <2> QED BY <2>2, <2>4, <2>5
  <1>13. LinkInv'
    BY <1>1, <1>4 DEF LinkInv
  <1>14. ExactInv'
    BY <1>4, SameExact DEF StreamInv
  <1>15. EofIsEnd'
    BY <1>1, <1>4 DEF EofIsEnd, StreamInv
  <1> QED BY <1>2, <1>7, <1>9, <1>10, <1>11, <1>12, <1>13, <1>14, <1>15 DEF StreamInv

----------------------------------------------------------------------------
(* The sending program between two calls.                                  *)

\* Storing a value in the buffer appends its bytes to the stream.
LEMMA WriteStep ==
    ASSUME StreamInv, Write
    PROVE  StreamInv'
  <1> DEFINE w == script[todo].width
             v == script[todo].value
             e == BigEndian(w, v)
  <1>1. /\ call = Idle /\ todo \in 1 .. Len(script) /\ todo \in Nat
        /\ todo \in 1 .. Len(script) + 1
    BY CallFacts, ScriptFacts DEF Write, StreamInv, TypeOK
  <1>2. /\ w \in Widths /\ v \in Int /\ w \in 1 .. 4 /\ Len(script) \in Nat
    BY <1>1, ScriptFacts DEF StreamInv
  <1>3. /\ v \in 0 .. MaxValue(w) /\ w <= writable_bytes(sbuf)
        /\ sbuf' = Fill(sbuf, e) /\ todo' = todo + 1
        /\ stream' = stream \o e /\ start' = Append(start, Len(stream) + w)
    <2>1. writable_bytes(sbuf) \in Int
      BY BufferFacts, BufferTypes, Sizes DEF StreamInv
    <2> QED BY <1>2, <2>1 DEF Write, CanWrite, write_be
  <1>4. UNCHANGED <<script, policy, call, wire, link, rbuf, got, rstate, faults, log, torn>>
    BY DEF Write, receiver
  <1>5. e \in Seq(Byte) /\ Len(e) = w
    BY <1>2, BigEndianFacts
  <1> HIDE DEF w, v, e
  <1>6. /\ sbuf' \in Buffers(BufferCapacity)
        /\ sbuf'.reader_pos = sbuf.reader_pos
        /\ readable_bytes(sbuf') = readable_bytes(sbuf) + w
        /\ \A i \in 1 .. readable_bytes(sbuf) :
               sbuf'.bytes[sbuf.reader_pos + i - 1] = sbuf.bytes[sbuf.reader_pos + i - 1]
        /\ \A i \in 1 .. w :
               sbuf'.bytes[sbuf.reader_pos + readable_bytes(sbuf) + i - 1] = e[i]
    <2>1. sbuf \in Buffers(BufferCapacity) /\ Len(e) <= writable_bytes(sbuf)
      BY <1>3, <1>5, BufferTypes DEF StreamInv
    <2> DEFINE c == Fill(sbuf, e)
    <2>2. /\ c \in Buffers(BufferCapacity)
          /\ c.reader_pos = sbuf.reader_pos
          /\ readable_bytes(c) = readable_bytes(sbuf) + Len(e)
          /\ \A i \in 1 .. readable_bytes(sbuf) :
                 c.bytes[sbuf.reader_pos + i - 1] = sbuf.bytes[sbuf.reader_pos + i - 1]
          /\ \A i \in 1 .. Len(e) :
                 c.bytes[sbuf.reader_pos + readable_bytes(sbuf) + i - 1] = e[i]
      BY <2>1, <1>5, FillFacts, Sizes
    <2> HIDE DEF c
    <2>3. sbuf' = c
      BY <1>3 DEF c
    <2> QED BY <2>2, <2>3, <1>5
  <1>7. /\ stream \in Seq(Byte) /\ Len(stream) \in Nat /\ start \in Seq(Nat)
        /\ readable_bytes(sbuf) \in Nat /\ Acknowledged \in Nat
        /\ Acknowledged + readable_bytes(sbuf) = Len(stream)
        /\ sbuf.reader_pos \in Nat
    <2>0. TypeOK /\ SourceInv
      BY DEF StreamInv
    <2>1. sbuf \in Buffers(BufferCapacity)
      BY <2>0, BufferTypes
    <2>2. sbuf.reader_pos \in Nat
      BY <2>1, BufferFacts, Sizes
    <2>3. stream \in Seq(Byte) /\ Len(stream) \in Nat /\ start \in Seq(Nat)
      BY <2>0 DEF TypeOK
    <2>4. /\ readable_bytes(sbuf) \in Nat /\ Acknowledged \in Nat
          /\ Acknowledged + readable_bytes(sbuf) = Len(stream)
      BY <2>0, Numbers
    <2> QED BY <2>2, <2>3, <2>4
  <1>8. /\ stream' \in Seq(Byte) /\ Len(stream') = Len(stream) + w
        /\ \A j \in 1 .. Len(stream) : stream'[j] = stream[j]
        /\ \A i \in 1 .. w : stream'[Len(stream) + i] = e[i]
    <2>1. e \in [1 .. w -> Byte] /\ w \in Nat
      BY <1>2, <1>5
    <2> DEFINE t == stream \o e
    <2>2. /\ t \in Seq(Byte) /\ Len(t) = Len(stream) + w
          /\ \A j \in 1 .. Len(stream) : t[j] = stream[j]
          /\ \A i \in 1 .. w : t[Len(stream) + i] = e[i]
      BY <2>1, <1>7, Appended
    <2>3. stream' = t
      BY <1>3
    <2> HIDE DEF t
    <2> QED BY <2>2, <2>3
  <1>9. /\ readable_bytes(sbuf)' = readable_bytes(sbuf) + w
        /\ Acknowledged' = Acknowledged
    <2>1. readable_bytes(sbuf)' = readable_bytes(sbuf) + w
      BY <1>6 DEF readable_bytes
    <2>2. Len(stream') - (readable_bytes(sbuf) + w) = Len(stream) - readable_bytes(sbuf)
      BY <1>2, <1>7, <1>8
    <2> QED BY <2>1, <2>2 DEF Acknowledged
  <1>10. SourceInv'
    <2>1. readable_bytes(sbuf) + w <= Len(stream')
      BY <1>2, <1>7, <1>8
    <2>2. ASSUME NEW i \in 1 .. readable_bytes(sbuf) + w
          PROVE  sbuf'.bytes[sbuf.reader_pos + i - 1] = stream'[Acknowledged + i]
      <3>1. CASE i \in 1 .. readable_bytes(sbuf)
        <4>1. sbuf.bytes[sbuf.reader_pos + i - 1] = stream[Acknowledged + i]
          BY <3>1 DEF SourceInv, StreamInv
        <4>2. Acknowledged + i \in 1 .. Len(stream)
          BY <3>1, <1>7
        <4> QED BY <3>1, <4>1, <4>2, <1>6, <1>8
      <3>2. CASE i \notin 1 .. readable_bytes(sbuf)
        <4> DEFINE k == i - readable_bytes(sbuf)
        <4>1. /\ k \in 1 .. w
              /\ sbuf.reader_pos + i - 1 = sbuf.reader_pos + readable_bytes(sbuf) + k - 1
              /\ Acknowledged + i = Len(stream) + k
          <5>1. w \in Nat
            BY <1>2
          <5> QED BY <5>1, <3>2, <1>7
        <4> HIDE DEF k
        <4> QED BY <4>1, <1>6, <1>8
      <3> QED BY <3>1, <3>2
    <2> QED BY <2>1, <2>2, <1>6, <1>9 DEF SourceInv
  <1>11. TypeOK'
    <2>1. start' \in Seq(Nat) /\ Len(stream) + w \in Nat
      BY <1>2, <1>3, <1>7
    <2>2. todo' \in 1 .. Len(script) + 1
      BY <1>1, <1>2, <1>3
    <2>3. CallOK'
      BY <1>1, <1>4 DEF CallOK
    <2> QED BY <2>1, <2>2, <2>3, <1>4, <1>6, <1>8 DEF TypeOK, StreamInv
  <1>12. Ahead' = Ahead /\ Whole' = Whole /\ Accepted' = Accepted
    BY <1>4 DEF Ahead, Whole, Accepted
  <1>13. LogInv'
    <2>1. \A p \in Accepted : p \in 1 .. Len(stream')
      BY <1>2, <1>7, <1>8 DEF LogInv, StreamInv
    <2> QED BY <2>1, <1>9, <1>12 DEF LogInv, StreamInv
  <1>14. UntornInv'
    BY <1>4, <1>9, <1>12 DEF UntornInv, StreamInv
  <1>15. /\ Len(start') = todo + 1 /\ start'[todo + 1] = Len(stream) + w
         /\ \A k \in 1 .. todo : start'[k] = start[k] /\ start[k] \in Nat /\ start[k] <= Len(stream)
    <2>1. Len(start) = todo /\ start[todo] = Len(stream)
          /\ \A k, l \in 1 .. todo : k <= l => start[k] <= start[l]
      BY DEF StreamInv, Framed
    <2>2. Len(stream) + w \in Nat
      BY <1>2, <1>7
    <2>3. /\ Len(start') = todo + 1 /\ start'[todo + 1] = Len(stream) + w
          /\ \A k \in 1 .. todo : start'[k] = start[k] /\ start[k] \in Nat
      BY <2>1, <2>2, <1>1, <1>3, <1>7
    <2>4. \A k \in 1 .. todo : start[k] <= Len(stream)
      BY <2>1, <1>1
    <2> QED BY <2>3, <2>4
  <1>16. Framed'
    <2>1. Len(start') = todo' /\ start'[1] = 0 /\ start'[todo'] = Len(stream')
      BY <1>1, <1>3, <1>8, <1>15 DEF StreamInv, Framed
    <2>2. ASSUME NEW k \in 1 .. todo', NEW l \in 1 .. todo', k <= l
          PROVE  start'[k] <= start'[l]
      <3>1. CASE l \in 1 .. todo
        <4>1. k \in 1 .. todo
          BY <3>1, <2>2, <1>1
        <4>2. start[k] <= start[l]
          BY <3>1, <4>1, <2>2 DEF StreamInv, Framed
        <4> QED BY <3>1, <4>1, <4>2, <1>15
      <3>2. CASE l = todo + 1 /\ k \in 1 .. todo
        BY <3>2, <1>2, <1>7, <1>15
      <3>3. CASE l = todo + 1 /\ k = todo + 1
        BY <3>3, <1>2, <1>7, <1>15
      <3>4. l \in 1 .. todo + 1 /\ k \in 1 .. todo + 1
        BY <2>2, <1>3
      <3>5. l \in 1 .. todo \/ (l = todo + 1 /\ (k \in 1 .. todo \/ k = todo + 1))
        BY <3>4, <1>1
      <3> QED BY <3>1, <3>2, <3>3, <3>5
    <2>3. ASSUME NEW k \in 1 .. todo' - 1
          PROVE  /\ start'[k + 1] = start'[k] + script[k].width
                 /\ script[k].value \in 0 .. MaxValue(script[k].width)
                 /\ \A i \in 1 .. script[k].width :
                        stream'[start'[k] + i] = BigEndian(script[k].width, script[k].value)[i]
      <3>1. CASE k \in 1 .. todo - 1
        <4>1. k \in 1 .. todo /\ k + 1 \in 1 .. todo
          BY <3>1, <1>1
        <4>2. /\ start[k + 1] = start[k] + script[k].width
              /\ script[k].value \in 0 .. MaxValue(script[k].width)
              /\ \A i \in 1 .. script[k].width :
                     stream[start[k] + i] = BigEndian(script[k].width, script[k].value)[i]
          BY <3>1 DEF StreamInv, Framed
        <4>3. script[k].width \in 1 .. 4
          BY <3>1, <1>1, <1>2, ScriptFacts DEF StreamInv
        <4>4. ASSUME NEW i \in 1 .. script[k].width
              PROVE  start[k] + i \in 1 .. Len(stream)
          <5>1. start[k + 1] <= Len(stream) /\ start[k] \in Nat
            BY <4>1, <1>15
          <5>2. start[k] + script[k].width <= Len(stream)
            BY <5>1, <4>2
          <5> DEFINE x == script[k].width
                     y == start[k]
          <5>3. x \in Nat /\ y \in Nat /\ y + x <= Len(stream) /\ i \in 1 .. x
            BY <5>1, <5>2, <4>3, <4>4
          <5> HIDE DEF x, y
          <5>4. y + i \in 1 .. Len(stream)
            BY <5>3, <1>7
          <5> QED BY <5>4 DEF y
        <4> QED BY <4>1, <4>2, <4>4, <1>8, <1>15
      <3>2. CASE k = todo
        <4>1. start[todo] = Len(stream) /\ start'[todo] = start[todo]
          BY <1>1, <1>15 DEF StreamInv, Framed
        <4>2. start'[todo + 1] = start'[todo] + w
          BY <4>1, <1>15
        <4>3. \A i \in 1 .. w : stream'[start'[todo] + i] = e[i]
          BY <4>1, <1>8
        <4> QED BY <3>2, <4>2, <4>3, <1>3 DEF w, v, e
      <3>3. todo' - 1 = todo
        BY <1>1, <1>3
      <3>4. k \in 1 .. todo - 1 \/ k = todo
        BY <3>3, <1>1
      <3> QED BY <3>1, <3>2, <3>4
    <2> QED BY <2>1, <2>2, <2>3, <1>4 DEF Framed
  <1>17. ReceivedInv'
    <2> DEFINE D == start[Len(got) + 1]
               R == readable_bytes(rbuf)
    <2> SUFFICES ASSUME ~torn
                 PROVE  /\ Len(got) < todo'
                        /\ \A i \in 1 .. Len(got) : got[i] = script[i].value
                        /\ start'[Len(got) + 1] = D
                        /\ D + R <= Len(log)
                        /\ \A i \in 1 .. R : rbuf.bytes[rbuf.reader_pos + i - 1] = stream'[D + i]
                        /\ link # "reset" =>
                               /\ Len(log) = D + R + Len(wire)
                               /\ \A i \in 1 .. Len(wire) : wire[i] = stream'[D + R + i]
      BY <1>4 DEF ReceivedInv, readable_bytes
    <2>1. /\ Len(got) < todo
          /\ \A i \in 1 .. Len(got) : got[i] = script[i].value
          /\ D + R <= Len(log)
          /\ \A i \in 1 .. R : rbuf.bytes[rbuf.reader_pos + i - 1] = stream[D + i]
          /\ link # "reset" =>
                 /\ Len(log) = D + R + Len(wire)
                 /\ \A i \in 1 .. Len(wire) : wire[i] = stream[D + R + i]
      BY DEF ReceivedInv, StreamInv
    <2>2. Len(got) \in Nat /\ R \in Nat /\ Len(wire) \in Nat /\ Len(log) \in Nat
      BY BufferTypes DEF StreamInv, TypeOK
    <2>3. Len(got) + 1 \in 1 .. todo /\ Len(got) < todo'
      BY <2>1, <2>2, <1>1, <1>3
    <2>4. D \in Nat /\ start'[Len(got) + 1] = D
      BY <2>3, <1>15
    <2>5. Len(log) <= Len(stream)
      <3>1. Len(log) = Acknowledged + Ahead
        BY DEF UntornInv, StreamInv
      <3> QED BY <3>1, Numbers DEF StreamInv
    <2> HIDE DEF D, R
    <2>6. ASSUME NEW i \in 1 .. R PROVE stream'[D + i] = stream[D + i]
      <3>1. D + i \in 1 .. Len(stream)
        BY <2>1, <2>2, <2>4, <2>5, <1>7
      <3> QED BY <3>1, <1>8
    <2>7. ASSUME link # "reset", NEW i \in 1 .. Len(wire)
          PROVE  stream'[D + R + i] = stream[D + R + i]
      <3>1. D + R + i \in 1 .. Len(stream)
        BY <2>1, <2>2, <2>4, <2>5, <2>7, <1>7
      <3> QED BY <3>1, <1>8
    <2> QED BY <2>1, <2>3, <2>4, <2>6, <2>7
  <1>18. LinkInv'
    <2>1. link # "shut"
      BY <1>1, <1>2 DEF LinkInv, StreamInv
    <2> QED BY <2>1, <1>4 DEF LinkInv, StreamInv
  <1>19. ExactInv'
    BY <1>4, SameExact DEF StreamInv
  <1>20. EofIsEnd'
    BY <1>4, SameEof DEF StreamInv
  <1> QED BY <1>10, <1>11, <1>13, <1>14, <1>16, <1>17, <1>18, <1>19, <1>20 DEF StreamInv

\* Resetting a drained buffer changes no byte that is still to be sent.
LEMMA ResetDrainedStep ==
    ASSUME StreamInv, ResetDrained
    PROVE  StreamInv'
  <1>1. /\ UNCHANGED <<script, policy, todo, call, wire, link, rbuf, got, rstate, faults,
                       stream, start, log, torn>>
        /\ sbuf' = reset(sbuf) /\ readable_bytes(sbuf) = 0 /\ ~call.active
    BY DEF ResetDrained, receiver, history
  <1>2. /\ sbuf' \in Buffers(BufferCapacity) /\ readable_bytes(sbuf') = 0
    BY <1>1, ResetFacts, BufferTypes, Sizes DEF StreamInv
  <1>3. readable_bytes(sbuf)' = 0
    BY <1>2 DEF readable_bytes
  <1>4. Acknowledged' = Acknowledged
    BY <1>1, <1>3 DEF Acknowledged
  <1>5. call = Idle
    BY <1>1, CallFacts DEF StreamInv
  <1>6. TypeOK'
    BY <1>1, <1>2, <1>5 DEF TypeOK, CallOK, StreamInv
  <1>7. SourceInv'
    BY <1>1, <1>3, Numbers DEF SourceInv, StreamInv
  <1>8. Ahead' = Ahead /\ Whole' = Whole /\ Accepted' = Accepted
    BY <1>1 DEF Ahead, Whole, Accepted
  <1>9. LogInv' /\ UntornInv'
    BY <1>1, <1>4, <1>8 DEF LogInv, UntornInv, StreamInv
  <1>10. Framed' /\ ReceivedInv' /\ ExactInv' /\ EofIsEnd'
    BY <1>1, SameFrame, SameReceived, SameExact, SameEof DEF StreamInv
  <1>11. LinkInv'
    BY <1>1, <1>3 DEF LinkInv, StreamInv
  <1> QED BY <1>6, <1>7, <1>9, <1>10, <1>11 DEF StreamInv

\* The sender shuts down its side once all is sent.
LEMMA ShutdownStep ==
    ASSUME StreamInv, Shutdown
    PROVE  StreamInv'
  <1>1. /\ UNCHANGED <<script, policy, sbuf, todo, call, wire, rbuf, got, rstate, faults,
                       stream, start, log, torn>>
        /\ link = "up" /\ link' = "shut" /\ readable_bytes(sbuf) = 0 /\ ~call.active
        /\ todo > Len(script)
    BY DEF Shutdown, sender, receiver, history
  <1>2. TypeOK'
    BY <1>1 DEF TypeOK, CallOK, StreamInv, Unread, readable_bytes
  <1>3. SourceInv' /\ LogInv' /\ UntornInv' /\ Framed' /\ ExactInv'
    BY <1>1, SameSource, SameLog, SameFrame, SameExact DEF StreamInv
  <1>4. ReceivedInv'
    BY <1>1 DEF ReceivedInv, StreamInv, readable_bytes
  <1>5. LinkInv'
    BY <1>1 DEF LinkInv, readable_bytes
  <1>6. EofIsEnd'
    BY <1>1 DEF EofIsEnd, StreamInv
  <1> QED BY <1>2, <1>3, <1>4, <1>5, <1>6 DEF StreamInv

\* A call begins with a copy of the unread bytes.
LEMMA SendBufferStep ==
    ASSUME StreamInv, SendBuffer
    PROVE  StreamInv'
  <1> DEFINE len == Smaller(readable_bytes(sbuf), MaxTransfer)
             cap == Smaller(len, ChunkCap)
  <1>1. /\ UNCHANGED <<script, policy, sbuf, todo, wire, link, rbuf, got, rstate, faults,
                       stream, start, log, torn>>
        /\ readable_bytes(sbuf) > 0 /\ ~call.active
        /\ call' = [active |-> TRUE, temp |-> Unread(sbuf), length |-> len,
                    chunk_cap |-> cap, to_send |-> cap, total_sent |-> 0, chunk_sent |-> 0]
    BY DEF SendBuffer, receiver, history
  <1>2. /\ Unread(sbuf) \in Seq(Byte) /\ Len(Unread(sbuf)) = readable_bytes(sbuf)
        /\ readable_bytes(sbuf) \in Nat
    BY BufferTypes DEF StreamInv
  <1>3. len \in Nat /\ cap \in Nat /\ cap > 0 /\ cap <= len
    BY <1>1, <1>2, Sizes DEF Smaller
  <1>4. Smaller(len - 0, cap) = cap
    BY <1>3 DEF Smaller
  <1> HIDE DEF len, cap
  <1>5. /\ call' \in Calls /\ call'.active /\ call'.temp = Unread(sbuf)
        /\ call'.length = len /\ call'.chunk_cap = cap
        /\ call'.to_send = cap /\ call'.total_sent = 0 /\ call'.chunk_sent = 0
    BY <1>1, <1>2, <1>3 DEF Calls
  <1>6. CallOK'
    <2>1. Unread(sbuf)' = Unread(sbuf)
      BY <1>1 DEF Unread, readable_bytes
    <2> QED BY <2>1, <1>2, <1>3, <1>4, <1>5 DEF CallOK, len, cap
  <1>7. TypeOK'
    BY <1>1, <1>6 DEF TypeOK, StreamInv
  <1>8. /\ Ahead' = Ahead /\ Whole' = Whole /\ Accepted' = Accepted
        /\ Acknowledged' = Acknowledged
    BY <1>1, <1>5 DEF Ahead, Whole, Accepted, Acknowledged, readable_bytes
  <1>9. LogInv' /\ UntornInv'
    BY <1>1, <1>8 DEF LogInv, UntornInv, StreamInv
  <1>10. SourceInv' /\ Framed' /\ ReceivedInv' /\ ExactInv' /\ EofIsEnd'
    BY <1>1, SameSource, SameFrame, SameReceived, SameExact, SameEof DEF StreamInv
  <1>11. LinkInv'
    <2>1. link # "shut"
      BY <1>1, <1>2 DEF LinkInv, StreamInv
    <2> QED BY <2>1, <1>1 DEF LinkInv, StreamInv
  <1> QED BY <1>7, <1>9, <1>10, <1>11 DEF StreamInv

----------------------------------------------------------------------------
(* Faults of the connection.                                               *)

\* An interrupted call is repeated.
LEMMA InterruptedStep ==
    ASSUME StreamInv, Interrupted
    PROVE  StreamInv'
  <1>1. /\ UNCHANGED <<script, policy, sbuf, todo, call, wire, link, rbuf, got, rstate,
                       stream, start, log, torn>>
        /\ faults' \in 0 .. MaxFaults
    BY Sizes DEF Interrupted, sender, receiver, history, StreamInv, TypeOK
  <1>2. TypeOK'
    BY <1>1 DEF TypeOK, CallOK, StreamInv, Unread, readable_bytes
  <1> QED BY <1>1, <1>2, SameSource, SameLog, SameFrame, SameReceived, SameLink,
             SameExact, SameEof DEF StreamInv

\* A reset loses what is under way and nothing else.
LEMMA ResetStep ==
    ASSUME StreamInv, Reset
    PROVE  StreamInv'
  <1>1. /\ UNCHANGED <<script, policy, sbuf, todo, call, rbuf, got, rstate,
                       stream, start, log, torn>>
        /\ faults' \in 0 .. MaxFaults /\ link' = "reset" /\ wire' = <<>>
    BY Sizes DEF Reset, sender, receiver, history, StreamInv, TypeOK
  <1>2. wire' \in Seq(Byte) /\ Len(wire') <= SockCap
    BY <1>1, Sizes
  <1>3. TypeOK'
    BY <1>1, <1>2 DEF TypeOK, CallOK, StreamInv, Unread, readable_bytes
  <1>4. SourceInv' /\ LogInv' /\ UntornInv' /\ Framed' /\ ExactInv'
    BY <1>1, SameSource, SameLog, SameFrame, SameExact DEF StreamInv
  <1>5. ReceivedInv'
    BY <1>1 DEF ReceivedInv, StreamInv, readable_bytes
  <1>6. LinkInv'
    BY <1>1 DEF LinkInv
  <1>7. EofIsEnd'
    BY <1>1 DEF EofIsEnd, StreamInv, Values
  <1> QED BY <1>3, <1>4, <1>5, <1>6, <1>7 DEF StreamInv

----------------------------------------------------------------------------
(* The receiving program.                                                  *)

\* Where the receiver is in the stream while no chunk is torn.
LEMMA ReceiverFacts ==
    ASSUME StreamInv, ~torn
    PROVE  LET D == start[Len(got) + 1]
               R == readable_bytes(rbuf)
           IN  /\ Len(got) < todo
               /\ \A i \in 1 .. Len(got) : got[i] = script[i].value
               /\ D \in Nat /\ R \in Nat /\ Len(log) \in Nat /\ Len(got) + 1 \in 1 .. todo
               /\ D + R <= Len(log) /\ Len(log) <= Len(stream)
               /\ \A i \in 1 .. R : rbuf.bytes[rbuf.reader_pos + i - 1] = stream[D + i]
               /\ link # "reset" =>
                      /\ Len(log) = D + R + Len(wire)
                      /\ \A i \in 1 .. Len(wire) : wire[i] = stream[D + R + i]
  <1>1. Len(got) < todo
    BY DEF ReceivedInv, StreamInv
  <1>2. Len(got) + 1 \in 1 .. Len(start) /\ Len(start) = todo
    BY <1>1 DEF StreamInv, Framed, TypeOK
  <1>3. start[Len(got) + 1] \in Nat /\ readable_bytes(rbuf) \in Nat /\ Len(log) \in Nat
    BY <1>2, BufferTypes DEF StreamInv, TypeOK
  <1>4. Len(log) <= Len(stream)
    <2>1. Len(log) = Acknowledged + Ahead
      BY DEF UntornInv, StreamInv
    <2> QED BY <2>1, Numbers DEF StreamInv
  <1> QED BY <1>1, <1>2, <1>3, <1>4 DEF ReceivedInv, StreamInv

\* A receiver that has the bytes of a value decodes the next value written.
LEMMA DecodeStep ==
    ASSUME StreamInv, Decode
    PROVE  StreamInv'
  <1> DEFINE w == NextWidth
             k == Len(got) + 1
             v == read_be(rbuf, w)
  <1>1. /\ UNCHANGED <<script, policy, sbuf, todo, call, wire, link, rstate, faults,
                       stream, start, log, torn>>
        /\ rstate = "open" /\ Len(got) < Len(script) /\ w <= readable_bytes(rbuf)
        /\ got' = Append(got, v) /\ rbuf' = Consume(rbuf, w)
    <2>1. readable_bytes(rbuf) \in Nat /\ w \in 1 .. 4
      BY BufferTypes, NextWidthFacts DEF StreamInv
    <2> QED BY <2>1 DEF Decode, sender, history, CanRead
  <1>2. /\ w \in Widths /\ w \in 1 .. 4 /\ w = script[k].width
        /\ k \in 1 .. Len(script) /\ Len(script) \in Nat /\ Len(got) \in Nat
    BY <1>1, NextWidthFacts, ScriptFacts DEF StreamInv, NextWidth, TypeOK
  <1>3. v \in Nat
    BY <1>1, <1>2, ReadNat, BufferTypes, Sizes DEF StreamInv
  <1>4. /\ rbuf \in Buffers(BufferCapacity) /\ readable_bytes(rbuf) \in Nat
        /\ w \in 0 .. readable_bytes(rbuf) /\ rbuf.reader_pos \in Nat
        /\ readable_bytes(rbuf) = rbuf.writer_pos - rbuf.reader_pos
        /\ rbuf.writer_pos \in Nat
    <2>1. rbuf \in Buffers(BufferCapacity) /\ readable_bytes(rbuf) \in Nat
      BY BufferTypes DEF StreamInv
    <2>2. w \in 0 .. readable_bytes(rbuf)
      BY <2>1, <1>1, <1>2
    <2> QED BY <2>1, <2>2, BufferFacts, Sizes
  <1> HIDE DEF w, v
  <1>5. /\ rbuf' \in Buffers(BufferCapacity) /\ rbuf'.bytes = rbuf.bytes
        /\ rbuf'.reader_pos = rbuf.reader_pos + w
        /\ rbuf'.writer_pos = rbuf.writer_pos
        /\ readable_bytes(rbuf') = readable_bytes(rbuf) - w
    BY <1>1, <1>4, ConsumeFacts, Sizes
  <1>6. /\ got' \in Seq(Nat) /\ Len(got') = k /\ got'[k] = v
        /\ \A i \in 1 .. Len(got) : got'[i] = got[i]
    <2>1. got \in Seq(Nat)
      BY DEF StreamInv, TypeOK
    <2> QED BY <2>1, <1>1, <1>3
  <1>7. TypeOK'
    BY <1>1, <1>2, <1>5, <1>6 DEF TypeOK, CallOK, StreamInv, Unread, readable_bytes
  <1>8. SourceInv' /\ LogInv' /\ UntornInv' /\ Framed' /\ LinkInv'
    BY <1>1, SameSource, SameLog, SameFrame, SameLink DEF StreamInv
  <1>9. EofIsEnd'
    BY <1>1 DEF EofIsEnd
  <1>10. ExactInv'
    <2> SUFFICES ASSUME policy = "exact", readable_bytes(rbuf') > 0 PROVE FALSE
      BY <1>1 DEF ExactInv, readable_bytes
    <2>1. rbuf.reader_pos = 0 /\ rbuf.writer_pos <= w
      BY <1>2, <1>4 DEF ExactInv, StreamInv, w
    <2> QED BY <2>1, <1>2, <1>4, <1>5
  <1>11. ReceivedInv'
    <2> DEFINE D == start[k]
               R == readable_bytes(rbuf)
               E == start[k + 1]
    <2> SUFFICES ASSUME ~torn
                 PROVE  /\ k < todo
                        /\ \A i \in 1 .. k : got'[i] = script[i].value
                        /\ E + (R - w) <= Len(log)
                        /\ \A i \in 1 .. R - w :
                               rbuf.bytes[rbuf.reader_pos + w + i - 1] = stream[E + i]
                        /\ link # "reset" =>
                               /\ Len(log) = E + (R - w) + Len(wire)
                               /\ \A i \in 1 .. Len(wire) : wire[i] = stream[E + (R - w) + i]
      <3>1. readable_bytes(rbuf)' = R - w
        BY <1>5 DEF readable_bytes
      <3> QED BY <3>1, <1>1, <1>5, <1>6 DEF ReceivedInv
    <2>1. /\ \A i \in 1 .. Len(got) : got[i] = script[i].value
          /\ D \in Nat /\ R \in Nat /\ Len(log) \in Nat /\ k \in 1 .. todo
          /\ D + R <= Len(log) /\ Len(log) <= Len(stream)
          /\ \A i \in 1 .. R : rbuf.bytes[rbuf.reader_pos + i - 1] = stream[D + i]
          /\ link # "reset" =>
                 /\ Len(log) = D + R + Len(wire)
                 /\ \A i \in 1 .. Len(wire) : wire[i] = stream[D + R + i]
      BY ReceiverFacts
    <2>2. /\ todo \in Nat /\ start[todo] = Len(stream) /\ Len(stream) \in Nat
          /\ Len(wire) \in Nat
      BY ScriptFacts DEF StreamInv, Framed, TypeOK
    <2>3. k < todo
      <3>1. CASE k = todo
        <4>1. D = Len(stream) /\ D + R <= Len(stream)
          BY <3>1, <2>1, <2>2
        <4>2. R >= 1
          BY <1>2, <1>4
        <4> QED BY <4>1, <4>2, <2>1, <2>2
      <3>2. CASE k # todo
        BY <3>2, <2>1, <2>2
      <3> QED BY <3>1, <3>2
    <2>4. /\ E = D + w
          /\ script[k].value \in 0 .. MaxValue(w)
          /\ \A i \in 1 .. w : stream[D + i] = BigEndian(w, script[k].value)[i]
      <3>1. k \in 1 .. todo - 1
        BY <2>1, <2>2, <2>3
      <3> QED BY <3>1, <1>2 DEF StreamInv, Framed
    <2>5. v = script[k].value
      <3>1. script[k].value \in Int
        BY <1>2, ScriptFacts DEF StreamInv
      <3>2. ASSUME NEW i \in 1 .. w
            PROVE  rbuf.bytes[rbuf.reader_pos + i - 1] = Digit(script[k].value, w - i)
        <4>1. i \in 1 .. R
          BY <1>2, <1>4
        <4>2. BigEndian(w, script[k].value)[i] = Digit(script[k].value, w - i)
          BY <3>1, <1>2, BigEndianFacts
        <4> QED BY <4>1, <4>2, <2>1, <2>4
      <3>3. read_be(rbuf, w) = script[k].value
        BY <3>2, <2>4, <1>2, <1>4, ReadBack, Sizes
      <3> QED BY <3>3 DEF v
    <2>6. ASSUME NEW i \in 1 .. k PROVE got'[i] = script[i].value
      <3>1. i \in 1 .. Len(got) \/ i = k
        BY <1>2
      <3> QED BY <3>1, <2>1, <2>5, <1>6
    <2> HIDE DEF D, R, E, k
    <2>7. /\ E + (R - w) = D + R /\ E \in Nat
      <3>1. D \in Nat /\ R \in Nat /\ w \in Nat /\ E = D + w
        BY <2>1, <2>4, <1>2
      <3> QED BY <3>1
    <2>8. ASSUME NEW i \in 1 .. R - w
          PROVE  rbuf.bytes[rbuf.reader_pos + w + i - 1] = stream[E + i]
      <3>1. /\ w + i \in 1 .. R
            /\ rbuf.reader_pos + w + i - 1 = rbuf.reader_pos + (w + i) - 1
            /\ E + i = D + (w + i)
        <4>1. D \in Nat /\ R \in Nat /\ w \in Nat /\ E = D + w /\ rbuf.reader_pos \in Nat
          BY <2>1, <2>4, <1>2, <1>4
        <4> QED BY <4>1
      <3> QED BY <3>1, <2>1
    <2> QED BY <2>1, <2>3, <2>6, <2>7, <2>8
  <1> QED BY <1>7, <1>8, <1>9, <1>10, <1>11 DEF StreamInv

\* A step that only ends the receiver's reading.
LEMMA ReceiverEnds ==
    ASSUME StreamInv, rstate' \in {"eof", "error"}, EofIsEnd',
           UNCHANGED <<script, policy, sender, wire, link, rbuf, got, faults, history>>
    PROVE  StreamInv'
  <1>1. UNCHANGED <<script, policy, sbuf, todo, call, wire, link, rbuf, got, faults,
                    stream, start, log, torn>>
    BY DEF sender, history
  <1>2. TypeOK'
    BY <1>1 DEF TypeOK, CallOK, StreamInv, Unread, readable_bytes
  <1> QED BY <1>1, <1>2, SameSource, SameLog, SameFrame, SameReceived, SameLink,
             SameExact DEF StreamInv

\* A receiver that is sent too much gives up.
LEMMA SurplusStep ==
    ASSUME StreamInv, Surplus
    PROVE  StreamInv'
  <1>1. EofIsEnd'
    BY DEF EofIsEnd, Surplus
  <1> QED BY <1>1, ReceiverEnds DEF Surplus

\* A receiver on a reset connection gives up.
LEMMA RecvErrorStep ==
    ASSUME StreamInv, RecvError
    PROVE  StreamInv'
  <1>1. EofIsEnd'
    BY DEF EofIsEnd, RecvError
  <1> QED BY <1>1, ReceiverEnds DEF RecvError

\* Resetting a drained buffer loses no byte.
LEMMA ResetReceivedStep ==
    ASSUME StreamInv, ResetReceived
    PROVE  StreamInv'
  <1>1. /\ UNCHANGED <<script, policy, sbuf, todo, call, wire, link, got, rstate, faults,
                       stream, start, log, torn>>
        /\ rbuf' = reset(rbuf) /\ readable_bytes(rbuf) = 0
    BY DEF ResetReceived, sender, history
  <1>2. rbuf' \in Buffers(BufferCapacity) /\ readable_bytes(rbuf') = 0
    BY <1>1, ResetFacts, BufferTypes, Sizes DEF StreamInv
  <1>3. readable_bytes(rbuf)' = 0
    BY <1>2 DEF readable_bytes
  <1>4. TypeOK'
    BY <1>1, <1>2 DEF TypeOK, CallOK, StreamInv, Unread, readable_bytes
  <1>5. SourceInv' /\ LogInv' /\ UntornInv' /\ Framed' /\ LinkInv' /\ EofIsEnd'
    BY <1>1, SameSource, SameLog, SameFrame, SameLink, SameEof DEF StreamInv
  <1>6. ReceivedInv'
    BY <1>1, <1>3 DEF ReceivedInv, StreamInv
  <1>7. ExactInv'
    BY <1>3 DEF ExactInv
  <1> QED BY <1>4, <1>5, <1>6, <1>7 DEF StreamInv

\* A receiver that asks for what its next value lacks has room for it.
LEMMA ExactWants ==
    ASSUME StreamInv, policy = "exact", WantsBytes
    PROVE  /\ rbuf.reader_pos = 0
           /\ readable_bytes(rbuf) = rbuf.writer_pos
           /\ readable_bytes(rbuf) < NextWidth
           /\ MaxLen = NextWidth - readable_bytes(rbuf)
           /\ writable_bytes(rbuf) > 0
  <1>1. /\ rbuf.writer_pos \in Nat /\ rbuf.reader_pos \in 0 .. rbuf.writer_pos
        /\ readable_bytes(rbuf) = rbuf.writer_pos - rbuf.reader_pos
        /\ writable_bytes(rbuf) = BufferCapacity - rbuf.writer_pos
    BY BufferTypes, BufferFacts, Sizes DEF StreamInv
  <1>2. NextWidth \in Nat /\ NextWidth <= BufferCapacity
    BY NextWidthFacts DEF StreamInv
  <1>3. readable_bytes(rbuf) < NextWidth
    BY <1>1, <1>2 DEF WantsBytes, CanRead
  <1>4. rbuf.reader_pos = 0
    BY <1>1 DEF WantsBytes, ExactInv, StreamInv
  <1> QED BY <1>1, <1>2, <1>3, <1>4, Sizes DEF MaxLen

\* The first n bytes of a sequence and the rest.
LEMMA Split ==
    ASSUME NEW S, NEW s \in Seq(S), NEW n \in 1 .. Len(s)
    PROVE  /\ SubSeq(s, 1, n) \in Seq(S) /\ Len(SubSeq(s, 1, n)) = n
           /\ \A i \in 1 .. n : SubSeq(s, 1, n)[i] = s[i]
           /\ SubSeq(s, n + 1, Len(s)) \in Seq(S)
           /\ Len(SubSeq(s, n + 1, Len(s))) = Len(s) - n
           /\ \A i \in 1 .. Len(s) - n : SubSeq(s, n + 1, Len(s))[i] = s[n + i]
  <1>1. /\ SubSeq(s, 1, n) \in Seq(S) /\ Len(SubSeq(s, 1, n)) = n
        /\ \A i \in 1 .. n : SubSeq(s, 1, n)[i] = s[i]
    OBVIOUS
  <1>2. /\ SubSeq(s, n + 1, Len(s)) \in Seq(S)
        /\ Len(SubSeq(s, n + 1, Len(s))) = Len(s) - n
    OBVIOUS
  <1>3. ASSUME NEW i \in 1 .. Len(s) - n
        PROVE  SubSeq(s, n + 1, Len(s))[i] = s[n + i]
    <2>1. (n + 1) + i - 1 = n + i
      OBVIOUS
    <2> QED BY <2>1
  <1> QED BY <1>1, <1>2, <1>3

\* Bytes move from the wire to the end of the receiver's buffer.
LEMMA RecvSomeStep ==
    ASSUME StreamInv, NEW n, RecvSome(n)
    PROVE  StreamInv'
  <1> DEFINE e == SubSeq(wire, 1, n)
  <1>1. /\ UNCHANGED <<script, policy, sbuf, todo, call, link, got, rstate, faults,
                       stream, start, log, torn>>
        /\ WantsBytes /\ rstate = "open" /\ writable_bytes(rbuf) > 0
        /\ n \in 1 .. Smaller(ToRead(rbuf, MaxLen), Len(wire))
        /\ rbuf' = Fill(rbuf, e) /\ wire' = SubSeq(wire, n + 1, Len(wire))
    BY DEF RecvSome, WantsBytes, sender, history
  <1>2. /\ rbuf \in Buffers(BufferCapacity) /\ readable_bytes(rbuf) \in Nat
        /\ writable_bytes(rbuf) \in Int /\ rbuf.writer_pos \in Nat /\ rbuf.reader_pos \in Nat
        /\ wire \in Seq(Byte) /\ Len(wire) \in Nat
    <2>1. rbuf \in Buffers(BufferCapacity) /\ readable_bytes(rbuf) \in Nat
      BY BufferTypes DEF StreamInv
    <2>2. /\ writable_bytes(rbuf) = BufferCapacity - rbuf.writer_pos
          /\ rbuf.writer_pos \in 0 .. BufferCapacity
          /\ rbuf.reader_pos \in 0 .. rbuf.writer_pos
      BY <2>1, BufferFacts, Sizes
    <2>3. wire \in Seq(Byte) /\ Len(wire) \in Nat
      BY DEF StreamInv, TypeOK
    <2> QED BY <2>1, <2>2, <2>3, Sizes
  <1>3. MaxLen \in Int
    BY <1>2, NextWidthFacts DEF MaxLen, StreamInv
  <1>4. /\ n \in 1 .. Len(wire) /\ n <= writable_bytes(rbuf)
        /\ MaxLen > 0 => n <= MaxLen
    <2>1. /\ ToRead(rbuf, MaxLen) \in Int /\ ToRead(rbuf, MaxLen) <= writable_bytes(rbuf)
          /\ MaxLen > 0 => ToRead(rbuf, MaxLen) <= MaxLen
      BY <1>2, <1>3, Sizes DEF ToRead, Smaller
    <2> QED BY <2>1, <1>1, <1>2, <1>3 DEF Smaller
  <1>5. /\ e \in Seq(Byte) /\ Len(e) = n /\ \A i \in 1 .. n : e[i] = wire[i]
        /\ wire' \in Seq(Byte) /\ Len(wire') = Len(wire) - n
        /\ \A i \in 1 .. Len(wire) - n : wire'[i] = wire[n + i]
    BY <1>1, <1>2, <1>4, Split
  <1> HIDE DEF e
  <1>6. /\ rbuf' \in Buffers(BufferCapacity)
        /\ rbuf'.reader_pos = rbuf.reader_pos
        /\ rbuf'.writer_pos = rbuf.writer_pos + n
        /\ readable_bytes(rbuf') = readable_bytes(rbuf) + n
        /\ \A i \in 1 .. readable_bytes(rbuf) :
               rbuf'.bytes[rbuf.reader_pos + i - 1] = rbuf.bytes[rbuf.reader_pos + i - 1]
        /\ \A i \in 1 .. n :
               rbuf'.bytes[rbuf.reader_pos + readable_bytes(rbuf) + i - 1] = wire[i]
    <2>1. Len(e) <= writable_bytes(rbuf)
      BY <1>4, <1>5
    <2> DEFINE c == Fill(rbuf, e)
    <2>2. /\ c \in Buffers(BufferCapacity)
          /\ c.reader_pos = rbuf.reader_pos
          /\ c.writer_pos = rbuf.writer_pos + Len(e)
          /\ readable_bytes(c) = readable_bytes(rbuf) + Len(e)
          /\ \A i \in 1 .. readable_bytes(rbuf) :
                 c.bytes[rbuf.reader_pos + i - 1] = rbuf.bytes[rbuf.reader_pos + i - 1]
          /\ \A i \in 1 .. Len(e) :
                 c.bytes[rbuf.reader_pos + readable_bytes(rbuf) + i - 1] = e[i]
      BY <2>1, <1>2, <1>5, FillFacts, Sizes
    <2> HIDE DEF c
    <2>3. rbuf' = c
      BY <1>1 DEF c
    <2> QED BY <2>2, <2>3, <1>5
  <1>7. readable_bytes(rbuf)' = readable_bytes(rbuf) + n
    BY <1>6 DEF readable_bytes
  <1>8. TypeOK'
    <2>1. Len(wire') <= SockCap
      BY <1>2, <1>4, <1>5, Sizes DEF StreamInv, TypeOK
    <2> QED BY <2>1, <1>1, <1>5, <1>6 DEF TypeOK, CallOK, StreamInv, Unread, readable_bytes
  <1>9. SourceInv' /\ LogInv' /\ UntornInv' /\ Framed'
    BY <1>1, SameSource, SameLog, SameFrame DEF StreamInv
  <1>10. link # "reset"
    <2>1. Len(wire) # 0
      BY <1>2, <1>4
    <2>2. Len(<<>>) = 0
      OBVIOUS
    <2> QED BY <2>1, <2>2 DEF LinkInv, StreamInv
  <1>11. LinkInv'
    BY <1>1, <1>10 DEF LinkInv, StreamInv, readable_bytes
  <1>12. EofIsEnd'
    BY <1>1 DEF EofIsEnd
  <1>13. ExactInv'
    <2> SUFFICES ASSUME policy = "exact"
                 PROVE  rbuf'.reader_pos = 0 /\ rbuf'.writer_pos <= NextWidth
      BY <1>1 DEF ExactInv, NextWidth
    <2>1. /\ rbuf.reader_pos = 0 /\ readable_bytes(rbuf) = rbuf.writer_pos
          /\ readable_bytes(rbuf) < NextWidth /\ MaxLen = NextWidth - readable_bytes(rbuf)
      BY <1>1, ExactWants
    <2>2. NextWidth \in Nat
      BY NextWidthFacts DEF StreamInv
    <2>3. n <= NextWidth - rbuf.writer_pos
      BY <2>1, <2>2, <1>2, <1>4
    <2> QED BY <2>1, <2>2, <2>3, <1>2, <1>4, <1>6
  <1>14. ReceivedInv'
    <2> DEFINE D == start[Len(got) + 1]
               R == readable_bytes(rbuf)
    <2> SUFFICES ASSUME ~torn
                 PROVE  /\ Len(got) < todo
                        /\ \A i \in 1 .. Len(got) : got[i] = script[i].value
                        /\ D + (R + n) <= Len(log)
                        /\ \A i \in 1 .. R + n :
                               rbuf'.bytes[rbuf.reader_pos + i - 1] = stream[D + i]
                        /\ Len(log) = D + (R + n) + Len(wire')
                        /\ \A i \in 1 .. Len(wire') : wire'[i] = stream[D + (R + n) + i]
      BY <1>1, <1>6, <1>7 DEF ReceivedInv
    <2>1. /\ Len(got) < todo
          /\ \A i \in 1 .. Len(got) : got[i] = script[i].value
          /\ D \in Nat /\ R \in Nat
          /\ \A i \in 1 .. R : rbuf.bytes[rbuf.reader_pos + i - 1] = stream[D + i]
          /\ Len(log) = D + R + Len(wire)
          /\ \A i \in 1 .. Len(wire) : wire[i] = stream[D + R + i]
      BY <1>10, ReceiverFacts
    <2>2. \A i \in 1 .. R :
              rbuf'.bytes[rbuf.reader_pos + i - 1] = rbuf.bytes[rbuf.reader_pos + i - 1]
      BY <1>6
    <2>3. \A i \in 1 .. n : rbuf'.bytes[rbuf.reader_pos + R + i - 1] = wire[i]
      BY <1>6
    <2> HIDE DEF D, R
    <2>4. Len(log) = D + (R + n) + Len(wire') /\ D + (R + n) <= Len(log)
      <3>1. Len(wire') = Len(wire) - n
        BY <1>5
      <3> QED BY <3>1, <2>1, <1>2, <1>4
    <2>5. ASSUME NEW i \in 1 .. R + n
          PROVE  rbuf'.bytes[rbuf.reader_pos + i - 1] = stream[D + i]
      <3>1. CASE i \in 1 .. R
        BY <3>1, <2>1, <2>2
      <3>2. CASE i \notin 1 .. R
        <4>1. /\ i - R \in 1 .. n /\ i - R \in 1 .. Len(wire)
              /\ rbuf.reader_pos + R + (i - R) - 1 = rbuf.reader_pos + i - 1
              /\ D + R + (i - R) = D + i
          BY <3>2, <2>1, <1>2, <1>4
        <4>2. rbuf'.bytes[rbuf.reader_pos + R + (i - R) - 1] = wire[i - R]
          BY <4>1, <2>3
        <4>3. wire[i - R] = stream[D + R + (i - R)]
          BY <4>1, <2>1
        <4> QED BY <4>1, <4>2, <4>3
      <3> QED BY <3>1, <3>2
    <2>6. ASSUME NEW i \in 1 .. Len(wire') PROVE wire'[i] = stream[D + (R + n) + i]
      <3>1. i \in 1 .. Len(wire) - n
        BY <1>5
      <3>2. n + i \in 1 .. Len(wire) /\ D + R + (n + i) = D + (R + n) + i
        BY <3>1, <2>1, <1>2, <1>4
      <3> QED BY <3>1, <3>2, <2>1, <1>5
    <2> QED BY <2>1, <2>4, <2>5, <2>6
  <1> QED BY <1>8, <1>9, <1>11, <1>12, <1>13, <1>14 DEF StreamInv

\* The result 0: the sender is done and every value has been decoded.
LEMMA RecvEndStep ==
    ASSUME StreamInv, RecvEnd
    PROVE  StreamInv'
  <1>1. /\ UNCHANGED <<script, policy, sender, wire, link, rbuf, got, faults, history>>
        /\ torn' = torn /\ WantsBytes /\ ReturnsZero /\ rstate' = "eof"
    BY DEF RecvEnd, history
  <1>2. ASSUME policy = "exact" PROVE wire = <<>> /\ link = "shut"
    <2>1. writable_bytes(rbuf) > 0 /\ writable_bytes(rbuf) \in Int
      BY <1>1, <1>2, ExactWants, BufferTypes, BufferFacts, Sizes DEF StreamInv
    <2> QED BY <2>1, <1>1 DEF ReturnsZero
  <1>3. ASSUME policy = "exact", ~torn PROVE got = Values(script)
    <2> DEFINE D == start[Len(got) + 1]
               R == readable_bytes(rbuf)
    <2>1. /\ wire = <<>> /\ link = "shut"
      BY <1>2, <1>3
    <2>2. /\ Len(got) < todo
          /\ \A i \in 1 .. Len(got) : got[i] = script[i].value
          /\ D \in Nat /\ R \in Nat /\ Len(got) + 1 \in 1 .. todo
          /\ Len(log) = D + R + Len(wire)
      BY <2>1, <1>3, ReceiverFacts
    <2>3. /\ todo = Len(script) + 1 /\ Len(script) \in Nat /\ readable_bytes(sbuf) = 0
          /\ ~call.active /\ Len(got) \in Nat /\ Len(got) <= Len(script) /\ Len(wire) = 0
      BY <2>1, ScriptFacts DEF LinkInv, StreamInv, TypeOK
    <2>4. Len(log) = Len(stream) /\ Len(stream) \in Nat
      <3>1. Len(log) = Acknowledged + Ahead
        BY <1>3 DEF UntornInv, StreamInv
      <3>2. Ahead = 0 /\ Acknowledged = Len(stream) /\ Len(stream) \in Nat
        BY <2>3, Numbers DEF Ahead, Acknowledged, StreamInv
      <3> QED BY <3>1, <3>2
    <2>5. Len(got) = Len(script)
      <3> SUFFICES ASSUME Len(got) < Len(script) PROVE FALSE
        BY <2>3
      <3>1. /\ Len(got) + 1 \in 1 .. todo - 1 /\ Len(got) + 2 \in 1 .. todo
            /\ (Len(got) + 1) + 1 = Len(got) + 2 /\ todo \in 1 .. todo /\ Len(got) + 2 <= todo
        BY <2>3
      <3>2. start[Len(got) + 2] = D + NextWidth
        BY <3>1 DEF Framed, StreamInv, NextWidth
      <3>3. start[Len(got) + 2] <= start[todo] /\ start[todo] = Len(stream)
        BY <3>1 DEF Framed, StreamInv
      <3>4. NextWidth \in Nat /\ R < NextWidth
        BY <2>2, <1>1, NextWidthFacts DEF StreamInv, WantsBytes, CanRead
      <3>5. Len(stream) = D + R
        BY <2>2, <2>3, <2>4
      <3> HIDE DEF D, R
      <3> QED BY <3>2, <3>3, <3>4, <3>5, <2>2
    <2>6. got \in [1 .. Len(script) -> Nat] /\ DOMAIN script = 1 .. Len(script)
      <3>1. got \in Seq(Nat)
        BY DEF StreamInv, TypeOK
      <3>2. script \in Seq([width : Widths, value : Int])
        BY ScriptsAssumption DEF StreamInv, TypeOK
      <3>3. DOMAIN script = 1 .. Len(script)
        BY <3>2
      <3> QED BY <3>1, <3>3, <2>5
    <2> QED BY <2>2, <2>5, <2>6 DEF Values
  <1>4. EofIsEnd'
    BY <1>1, <1>2, <1>3 DEF EofIsEnd, Values
  <1> QED BY <1>1, <1>4, ReceiverEnds

----------------------------------------------------------------------------
(* The theorems.                                                           *)

\* The connection starts with empty buffers and nothing sent.
LEMMA StreamInit ==
    ASSUME Init
    PROVE  StreamInv
  <1>1. /\ sbuf = byte_buffer_new(BufferCapacity) /\ rbuf = byte_buffer_new(BufferCapacity)
        /\ todo = 1 /\ call = Idle /\ wire = <<>> /\ link = "up" /\ got = <<>>
        /\ rstate = "open" /\ faults = 0 /\ stream = <<>> /\ start = <<0>> /\ log = <<>>
        /\ torn = FALSE /\ script \in Scripts /\ policy \in Policies
    BY DEF Init
  <1>2. /\ sbuf \in Buffers(BufferCapacity) /\ readable_bytes(sbuf) = 0
        /\ rbuf \in Buffers(BufferCapacity) /\ readable_bytes(rbuf) = 0
    BY <1>1, NewBuffer, Sizes
  <1>3. Len(script) \in Nat
    BY <1>1, ScriptsAssumption
  <1>4. /\ Len(wire) = 0 /\ Len(got) = 0 /\ Len(stream) = 0 /\ Len(log) = 0
        /\ Len(start) = 1 /\ start[1] = 0
        /\ wire \in Seq(Byte) /\ stream \in Seq(Byte) /\ got \in Seq(Nat)
        /\ log \in Seq(Nat) /\ start \in Seq(Nat)
    BY <1>1
  <1>5. TypeOK
    <2>1. /\ todo \in 1 .. Len(script) + 1 /\ Len(wire) <= SockCap
          /\ Len(got) <= Len(script) /\ faults \in 0 .. MaxFaults
      BY <1>1, <1>3, <1>4, Sizes
    <2>2. /\ link \in {"up", "shut", "reset"} /\ rstate \in {"open", "eof", "error"}
          /\ torn \in BOOLEAN /\ CallOK
      BY <1>1 DEF CallOK
    <2> QED BY <2>1, <2>2, <1>1, <1>2, <1>4 DEF TypeOK
  <1>6. Acknowledged = 0 /\ Ahead = 0 /\ Whole = 0
    BY <1>1, <1>2, <1>4 DEF Acknowledged, Ahead, Whole, Idle
  <1>7. SourceInv
    BY <1>2, <1>4 DEF SourceInv
  <1>8. LogInv /\ UntornInv
    <2>1. Accepted = {}
      BY <1>4 DEF Accepted
    <2> QED BY <2>1, <1>4, <1>6 DEF LogInv, UntornInv
  <1>9. Framed
    BY <1>1, <1>4 DEF Framed
  <1>10. ReceivedInv
    BY <1>1, <1>2, <1>4 DEF ReceivedInv
  <1>11. LinkInv /\ ExactInv /\ EofIsEnd
    BY <1>1, <1>2 DEF LinkInv, ExactInv, EofIsEnd
  <1> QED BY <1>5, <1>7, <1>8, <1>9, <1>10, <1>11 DEF StreamInv

\* The invariant of the connection holds in every state, whatever the sizes
\* of buffers, chunks and socket and however often the connection fails.
THEOREM StreamSafe == Spec => []StreamInv
  <1>1. Init => StreamInv
    BY StreamInit
  <1>2. StreamInv /\ [Next]_vars => StreamInv'
    <2> SUFFICES ASSUME StreamInv, [Next]_vars PROVE StreamInv'
      OBVIOUS
    <2>1. CASE Write
      BY <2>1, WriteStep
    <2>2. CASE ResetDrained
      BY <2>2, ResetDrainedStep
    <2>3. CASE Shutdown
      BY <2>3, ShutdownStep
    <2>4. CASE SendBuffer
      BY <2>4, SendBufferStep
    <2>5. CASE Send
      BY <2>5, SendSomeStep DEF Send
    <2>6. CASE Decode
      BY <2>6, DecodeStep
    <2>7. CASE Surplus
      BY <2>7, SurplusStep
    <2>8. CASE ResetReceived
      BY <2>8, ResetReceivedStep
    <2>9. CASE Recv
      BY <2>9, RecvSomeStep DEF Recv
    <2>10. CASE RecvEnd
      BY <2>10, RecvEndStep
    <2>11. CASE RecvError
      BY <2>11, RecvErrorStep
    <2>12. CASE SendFails
      BY <2>12, SendFailsStep
    <2>13. CASE SendZero
      BY <2>13, SendZeroStep
    <2>14. CASE Interrupted
      BY <2>14, InterruptedStep
    <2>15. CASE Reset
      BY <2>15, ResetStep
    <2>16. CASE UNCHANGED vars
      <3>1. UNCHANGED <<script, policy, sbuf, todo, call, wire, link, rbuf, got, rstate,
                        faults, stream, start, log, torn>>
        BY <2>16 DEF vars, sender, receiver, history
      <3>2. TypeOK'
        BY <3>1 DEF TypeOK, CallOK, StreamInv, Unread, readable_bytes
      <3> QED BY <3>1, <3>2, SameSource, SameLog, SameFrame, SameReceived, SameLink,
                 SameExact, SameEof DEF StreamInv
    <2> QED BY <2>1, <2>2, <2>3, <2>4, <2>5, <2>6, <2>7, <2>8, <2>9, <2>10, <2>11,
               <2>12, <2>13, <2>14, <2>15, <2>16 DEF Next, Sender, Receiver, Faults
  <1> QED BY <1>1, <1>2, PTL DEF Spec

\* tcp_send_buffer never counts a byte as sent that send() has not accepted,
\* leaves none out, and a retry repeats less than a chunk.
THEOREM TrailsSafe == Spec => []ReaderTrailsSent
  <1>1. StreamInv => ReaderTrailsSent
    <2> SUFFICES ASSUME StreamInv PROVE ReaderTrailsSent
      OBVIOUS
    <2>1. /\ Acknowledged \in Nat /\ Ahead \in Nat /\ Len(stream) \in Nat
          /\ Whole \in Nat
      BY Numbers DEF StreamInv
    <2>2. /\ 1 .. Acknowledged + Ahead \subseteq Accepted
          /\ \A p \in Accepted : /\ p \in 1 .. Len(stream) /\ 1 .. p \subseteq Accepted
                                 /\ p < Acknowledged + Whole + ChunkCap
      BY DEF LogInv, StreamInv
    <2>3. 1 .. Acknowledged \subseteq Accepted
      <3>1. 1 .. Acknowledged \subseteq 1 .. Acknowledged + Ahead
        BY <2>1
      <3> QED BY <3>1, <2>2
    <2>4. \A p \in Accepted : p <= Len(stream) /\ 1 .. p \subseteq Accepted
      BY <2>1, <2>2
    <2>5. ~call.active => \A p \in Accepted : p < Acknowledged + ChunkCap
      <3>1. ~call.active => Whole = 0
        BY DEF Whole
      <3> QED BY <3>1, <2>1, <2>2, Sizes
    <2> QED BY <2>3, <2>4, <2>5 DEF ReaderTrailsSent, StreamInv
  <1> QED BY <1>1, StreamSafe, PTL

\* With no chunk torn the receiver gets the bytes written, once and in order,
\* and decodes the values written.
THEOREM ExactSafe == Spec => []ExactStream
  <1>1. StreamInv => ExactStream
    <2> SUFFICES ASSUME StreamInv, ~torn
                 PROVE  /\ log = [j \in 1 .. Len(log) |-> j]
                        /\ got = SubSeq(Values(script), 1, Len(got))
                        /\ link # "reset" =>
                               Unread(rbuf) \o wire =
                                   SubSeq(stream, start[Len(got) + 1] + 1, Len(log))
      BY DEF ExactStream
    <2> DEFINE D == start[Len(got) + 1]
               R == readable_bytes(rbuf)
    <2>1. /\ \A i \in 1 .. Len(got) : got[i] = script[i].value
          /\ D \in Nat /\ R \in Nat /\ Len(log) \in Nat
          /\ D + R <= Len(log) /\ Len(log) <= Len(stream)
          /\ \A i \in 1 .. R : rbuf.bytes[rbuf.reader_pos + i - 1] = stream[D + i]
          /\ link # "reset" =>
                 /\ Len(log) = D + R + Len(wire)
                 /\ \A i \in 1 .. Len(wire) : wire[i] = stream[D + R + i]
      BY ReceiverFacts
    <2>2. log = [j \in 1 .. Len(log) |-> j]
      <3>1. log \in [1 .. Len(log) -> Nat]
        BY DEF StreamInv, TypeOK
      <3>2. \A j \in 1 .. Len(log) : log[j] = j
        BY DEF UntornInv, StreamInv
      <3> QED BY <3>1, <3>2
    <2>3. got = SubSeq(Values(script), 1, Len(got))
      <3>1. /\ got \in Seq(Nat) /\ Len(got) \in Nat /\ Len(got) <= Len(script)
            /\ Len(script) \in Nat
        BY ScriptFacts DEF StreamInv, TypeOK
      <3>2. script \in Seq([width : Widths, value : Int])
        BY ScriptsAssumption DEF StreamInv, TypeOK
      <3>3. DOMAIN script = 1 .. Len(script)
        BY <3>2
      <3>4. \A i \in 1 .. Len(script) : script[i].value \in Int
        BY ScriptFacts DEF StreamInv
      <3>5. Values(script) \in [1 .. Len(script) -> Int]
            /\ \A i \in 1 .. Len(script) : Values(script)[i] = script[i].value
        BY <3>3, <3>4 DEF Values
      <3> DEFINE u == Values(script)
      <3>6. u \in Seq(Int) /\ Len(u) = Len(script)
        BY <3>1, <3>5
      <3>7. ASSUME NEW i \in 1 .. Len(got) PROVE u[i] = got[i]
        <4>1. i \in 1 .. Len(script)
          BY <3>1
        <4>2. got[i] = script[i].value
          BY <2>1
        <4> QED BY <4>1, <4>2, <3>5
      <3> HIDE DEF u
      <3>8. /\ SubSeq(u, 1, Len(got)) \in Seq(Int) /\ Len(SubSeq(u, 1, Len(got))) = Len(got)
            /\ \A i \in 1 .. Len(got) : SubSeq(u, 1, Len(got))[i] = u[i]
        BY <3>1, <3>6
      <3> QED BY <3>1, <3>7, <3>8 DEF u
    <2>4. ASSUME link # "reset"
          PROVE  Unread(rbuf) \o wire = SubSeq(stream, D + 1, Len(log))
      <3> DEFINE u == Unread(rbuf)
                 l == u \o wire
                 r == SubSeq(stream, D + 1, Len(log))
      <3>1. /\ u \in Seq(Byte) /\ Len(u) = R /\ wire \in Seq(Byte) /\ stream \in Seq(Byte)
            /\ Len(wire) \in Nat /\ Len(stream) \in Nat
        BY BufferTypes DEF StreamInv, TypeOK
      <3>2. \A i \in 1 .. R : u[i] = stream[D + i]
        <4>1. \A i \in 1 .. R : u[i] = rbuf.bytes[rbuf.reader_pos + i - 1]
          BY UnreadFacts, BufferTypes, Sizes DEF StreamInv
        <4> QED BY <4>1, <2>1
      <3>3. Len(log) = D + R + Len(wire) /\ \A i \in 1 .. Len(wire) : wire[i] = stream[D + R + i]
        BY <2>1, <2>4
      <3> HIDE DEF u, D, R
      <3>4. /\ l \in Seq(Byte) /\ Len(l) = R + Len(wire)
            /\ \A i \in 1 .. R : l[i] = u[i]
            /\ \A i \in 1 .. Len(wire) : l[R + i] = wire[i]
        <4>1. wire \in [1 .. Len(wire) -> Byte]
          BY <3>1
        <4> QED BY <4>1, <3>1, Appended
      <3>5. /\ r \in Seq(Byte) /\ Len(r) = R + Len(wire)
            /\ \A i \in 1 .. R + Len(wire) : r[i] = stream[D + i]
        <4>1. /\ D + 1 \in 1 .. Len(stream) + 1 /\ Len(log) \in D .. Len(stream)
              /\ Len(log) - (D + 1) + 1 = R + Len(wire)
          BY <2>1, <3>1, <3>3
        <4>2. r \in Seq(Byte) /\ Len(r) = R + Len(wire)
          BY <4>1, <2>1, <3>1
        <4>3. ASSUME NEW i \in 1 .. R + Len(wire) PROVE r[i] = stream[D + i]
          <5>1. (D + 1) + i - 1 = D + i /\ i \in 1 .. Len(log) - (D + 1) + 1
            BY <4>1, <2>1, <3>1
          <5> QED BY <5>1, <4>1, <2>1, <3>1
        <4> QED BY <4>2, <4>3
      <3> HIDE DEF l, r
      <3>6. ASSUME NEW i \in 1 .. R + Len(wire) PROVE l[i] = r[i]
        <4>1. CASE i \in 1 .. R
          BY <4>1, <3>2, <3>4, <3>5
        <4>2. CASE i \notin 1 .. R
          <5>1. i - R \in 1 .. Len(wire) /\ R + (i - R) = i /\ D + R + (i - R) = D + i
            BY <4>2, <2>1, <3>1
          <5>2. l[R + (i - R)] = wire[i - R] /\ wire[i - R] = stream[D + R + (i - R)]
            BY <5>1, <3>3, <3>4
          <5> QED BY <5>1, <5>2, <3>5
        <4> QED BY <4>1, <4>2
      <3>7. l = r
        BY <3>4, <3>5, <3>6
      <3> QED BY <3>7 DEF l, r, u
    <2> QED BY <2>2, <2>3, <2>4
  <1> QED BY <1>1, StreamSafe, PTL

\* For a receiver that asks for what its next value lacks, the result 0 of
\* tcp_recv_buffer is the end of the stream.
THEOREM EofSafe == Spec => []EofIsEnd
  <1>1. StreamInv => EofIsEnd
    BY DEF StreamInv
  <1> QED BY <1>1, StreamSafe, PTL

============================================================================
