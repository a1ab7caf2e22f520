---------------------------- MODULE ByteBuffer ----------------------------
(***************************************************************************)
(* The fixed-capacity byte buffer of std/buffer.cco as operators on a      *)
(* record with the class's four fields.  An operation that returns false,  *)
(* -1 or None leaves the buffer as it is: its condition is the operator    *)
(* CanWrite or CanRead, and the callers' actions are guarded by it.        *)
(***************************************************************************)
EXTENDS Integers, Sequences

\* The widths, in bytes, of write_u8, write_u16_be and write_u32_be.
Widths == {1, 2, 4}

Byte == 0 .. 255

byte_buffer_new(capacity) ==
    LET cap == IF capacity <= 0 THEN 1 ELSE capacity
    IN  [bytes |-> [i \in 0 .. cap - 1 |-> 0], capacity |-> cap,
         writer_pos |-> 0, reader_pos |-> 0]

readable_bytes(b) == b.writer_pos - b.reader_pos

writable_bytes(b) == b.capacity - b.writer_pos

MaxValue(w) == IF w = 1 THEN 255 ELSE IF w = 2 THEN 65535 ELSE 2147483647

\* The weights of the bytes of a value, the least significant one first.
Weight == <<1, 256, 65536, 16777216>>

\* The k-th byte of a value, counted from the least significant one.
Digit(v, k) == (v \div Weight[k + 1]) % 256

\* The w bytes of a value, most significant first.
BigEndian(w, v) == [i \in 1 .. w |-> Digit(v, w - i)]

\* The bytes s stored from writer_pos on.
Fill(b, s) ==
    [b EXCEPT !.bytes = [i \in DOMAIN b.bytes |->
                            LET k == i - b.writer_pos + 1
                            IN  IF k \in DOMAIN s THEN s[k] ELSE b.bytes[i]],
              !.writer_pos = @ + Len(s)]

CanWrite(b, w, v) == v \in 0 .. MaxValue(w) /\ writable_bytes(b) >= w

write_be(b, w, v) == Fill(b, BigEndian(w, v))

CanRead(b, w) == readable_bytes(b) >= w

read_be(b, w) ==
    LET d(i) == b.bytes[b.reader_pos + i]
    IN  CASE w = 1 -> d(0)
          [] w = 2 -> d(0) * 256 + d(1)
          [] w = 4 -> d(0) * 16777216 + d(1) * 65536 + d(2) * 256 + d(3)

\* What a successful read, or a send of n bytes, does to reader_pos.
Consume(b, n) == [b EXCEPT !.reader_pos = @ + n]

\* The unread bytes in order.
Unread(b) == [i \in 1 .. readable_bytes(b) |-> b.bytes[b.reader_pos + i - 1]]

reset(b) == [b EXCEPT !.reader_pos = 0, !.writer_pos = 0]

\* The buffers of a capacity: both positions within it, in their order.
Buffers(cap) ==
    {b \in [bytes : [0 .. cap - 1 -> Byte], capacity : {cap},
            writer_pos : 0 .. cap, reader_pos : 0 .. cap] :
        b.reader_pos <= b.writer_pos}
===========================================================================
