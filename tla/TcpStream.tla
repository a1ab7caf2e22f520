----------------------------- MODULE TcpStream -----------------------------
(***************************************************************************)
(* Two programs that exchange values over one TCP connection with the byte *)
(* buffers of std/buffer.cco and the calls tcp_send_buffer and             *)
(* tcp_recv_buffer of std/net.cco, down to the loops around send() and     *)
(* recv() that the runtime prelude emits for net_send_bytes and            *)
(* net_recv_bytes.                                                         *)
(*                                                                         *)
(* The kernel is the environment: send() accepts any non-empty part of     *)
(* what it is given, is interrupted (EINTR), times out on a full socket    *)
(* buffer (EAGAIN, SO_SNDTIMEO), returns 0, or fails because the peer has  *)
(* reset the connection; recv() returns any non-empty part of what has     *)
(* arrived.  The sending program writes the values of a script and calls   *)
(* tcp_send_buffer until its buffer is drained, again after a call that    *)
(* failed; the receiving program decodes the same script.                  *)
(***************************************************************************)
EXTENDS ByteBuffer

CONSTANTS
    Scripts,          \* sequences of [width, value]: what the sender writes
    BufferCapacity,   \* capacity of both buffers
    ChunkCap,         \* bytes net_send_bytes gives to one send() (4096)
    MaxTransfer,      \* bytes one call transfers at most (16777216)
    SockCap,          \* bytes the socket holds between the two programs
    MaxFaults,        \* interrupts, timeouts, failures in a behaviour
    Policies          \* how the receiver chooses max_len

ASSUME BoundsAssumption ==
    /\ {BufferCapacity, ChunkCap, MaxTransfer, SockCap} \subseteq Nat \ {0}
    /\ MaxFaults \in Nat

ASSUME PoliciesAssumption == Policies \subseteq {"exact", "greedy"}

\* A value that is wider than the buffers could never be sent.
ASSUME ScriptsAssumption ==
    \A s \in Scripts :
        /\ s \in Seq([width : Widths, value : Int])
        /\ \A i \in 1 .. Len(s) : s[i].width <= BufferCapacity

VARIABLES
    script,     \* the values of this behaviour
    policy,     \* the receiver's policy
    sbuf,       \* the sender's ByteBuffer
    todo,       \* index of the next value the sender writes
    call,       \* the sender's activation of tcp_send_buffer
    wire,       \* bytes accepted by send() and not yet returned by recv()
    link,       \* "up", "shut" (the sender's shutdown(1)) or "reset"
    rbuf,       \* the receiver's ByteBuffer
    got,        \* values the receiver decoded
    rstate,     \* "open", "eof" (a call returned 0) or "error" (-1 for good)
    faults,     \* faults so far
    stream,     \* history: the bytes written so far, sent or not
    start,      \* history: start[k] bytes were written before the k-th value
    log,        \* history: the positions in stream of the bytes that send()
                \* accepted, in the order in which it did
    torn        \* history: a call failed after part of a chunk was accepted

sender == <<sbuf, todo, call>>
receiver == <<rbuf, got, rstate>>
history == <<stream, start, log, torn>>
vars == <<script, policy, sender, wire, link, receiver, faults, history>>

Smaller(a, b) == IF a < b THEN a ELSE b

Idle == [active |-> FALSE]

Values(s) == [i \in DOMAIN s |-> s[i].value]

\* The bytes written that reader_pos has left behind.
Acknowledged == Len(stream) - readable_bytes(sbuf)

Init ==
    /\ script \in Scripts
    /\ policy \in Policies
    /\ sbuf = byte_buffer_new(BufferCapacity)
    /\ rbuf = byte_buffer_new(BufferCapacity)
    /\ todo = 1
    /\ call = Idle
    /\ wire = <<>>
    /\ link = "up"
    /\ got = <<>>
    /\ rstate = "open"
    /\ faults = 0
    /\ stream = <<>>
    /\ start = <<0>>
    /\ log = <<>>
    /\ torn = FALSE

----------------------------------------------------------------------------
(* The sending program between two calls.                                  *)

Write ==
    /\ ~call.active
    /\ todo <= Len(script)
    /\ CanWrite(sbuf, script[todo].width, script[todo].value)
    /\ sbuf' = write_be(sbuf, script[todo].width, script[todo].value)
    /\ todo' = todo + 1
    /\ stream' = stream \o BigEndian(script[todo].width, script[todo].value)
    /\ start' = Append(start, Len(stream) + script[todo].width)
    /\ UNCHANGED <<script, policy, call, wire, link, receiver, faults, log, torn>>

\* reset() makes room again once everything in the buffer has been sent.
ResetDrained ==
    /\ ~call.active
    /\ sbuf.writer_pos > 0
    /\ readable_bytes(sbuf) = 0
    /\ sbuf' = reset(sbuf)
    /\ UNCHANGED <<script, policy, todo, call, wire, link, receiver, faults, history>>

\* shutdown_write() after the last value.
Shutdown ==
    /\ ~call.active
    /\ todo > Len(script)
    /\ readable_bytes(sbuf) = 0
    /\ link = "up"
    /\ link' = "shut"
    /\ UNCHANGED <<script, policy, sender, wire, receiver, faults, history>>

----------------------------------------------------------------------------
(* tcp_send_buffer: the unread bytes are copied, net_send_bytes sends the  *)
(* copy chunk by chunk, and its result moves reader_pos.                   *)

SendBuffer ==
    /\ ~call.active
    /\ readable_bytes(sbuf) > 0
    /\ LET length    == Smaller(readable_bytes(sbuf), MaxTransfer)
           chunk_cap == Smaller(length, ChunkCap)
       IN  call' = [active |-> TRUE, temp |-> Unread(sbuf), length |-> length,
                    chunk_cap |-> chunk_cap, to_send |-> chunk_cap,
                    total_sent |-> 0, chunk_sent |-> 0]
    /\ UNCHANGED <<script, policy, sbuf, todo, wire, link, receiver, faults, history>>

\* Mutant: a partial send continues at the start of the chunk.
FromChunkStart(c, i) == c.total_sent + i

\* The index in temp of the i-th byte of chunk + chunk_sent.
Taken(c, i) == c.total_sent + c.chunk_sent + i

\* The end of the call: reader_pos moves by a positive result only.
Return(result) ==
    /\ sbuf' = IF result > 0 THEN Consume(sbuf, result) ELSE sbuf
    /\ call' = Idle

\* send() accepts n bytes; the loops continue, or the call returns.
SendSome(n) ==
    /\ call.active
    /\ link = "up"
    /\ n \in 1 .. Smaller(call.to_send - call.chunk_sent, SockCap - Len(wire))
    /\ wire' = wire \o [i \in 1 .. n |-> call.temp[Taken(call, i)]]
    /\ log' = log \o [i \in 1 .. n |-> Acknowledged + Taken(call, i)]
    /\ LET total == call.total_sent + call.to_send
       IN  CASE call.chunk_sent + n < call.to_send ->
                    /\ call' = [call EXCEPT !.chunk_sent = @ + n]
                    /\ sbuf' = sbuf
             [] call.chunk_sent + n = call.to_send /\ total < call.length ->
                    /\ call' = [call EXCEPT !.total_sent = total, !.chunk_sent = 0,
                                            !.to_send = Smaller(call.length - total, call.chunk_cap)]
                    /\ sbuf' = sbuf
             [] OTHER -> Return(total)
    /\ UNCHANGED <<script, policy, todo, link, receiver, faults, stream, start, torn>>

\* Mutant: a call that fails forgets the chunks it has completed.
FailForgets(c) == -1

FailResult(c) == IF c.total_sent > 0 THEN c.total_sent ELSE -1

\* send() fails: a timeout on a full socket or a connection that was reset.
\* A call of more than one chunk may also fail to allocate its chunk.
SendFails ==
    /\ call.active
    /\ \/ link = "up" /\ Len(wire) = SockCap /\ faults < MaxFaults /\ faults' = faults + 1
       \/ link = "reset" /\ faults' = faults
       \/ /\ call.total_sent + call.chunk_sent = 0
          /\ call.length > ChunkCap
          /\ faults < MaxFaults
          /\ faults' = faults + 1
    /\ Return(FailResult(call))
    /\ torn' = (torn \/ call.chunk_sent > 0)
    /\ UNCHANGED <<script, policy, todo, wire, link, receiver, stream, start, log>>

\* send() returns 0, which the code treats as the end of the call.
SendZero ==
    /\ call.active
    /\ link = "up"
    /\ faults < MaxFaults
    /\ faults' = faults + 1
    /\ Return(call.total_sent)
    /\ torn' = (torn \/ call.chunk_sent > 0)
    /\ UNCHANGED <<script, policy, todo, wire, link, receiver, stream, start, log>>

\* send() or recv() is interrupted and called again, or recv() times out
\* with -1, which leaves the buffer alone.
Interrupted ==
    /\ faults < MaxFaults
    /\ \/ call.active
       \/ rstate = "open" /\ wire = <<>> /\ link = "up"
    /\ faults' = faults + 1
    /\ UNCHANGED <<script, policy, sender, wire, link, receiver, history>>

\* The connection is reset: what is under way is lost.
Reset ==
    /\ link # "reset"
    /\ faults < MaxFaults
    /\ link' = "reset"
    /\ wire' = <<>>
    /\ faults' = faults + 1
    /\ UNCHANGED <<script, policy, sender, receiver, history>>

----------------------------------------------------------------------------
(* The receiving program: it decodes a value as soon as all of its bytes   *)
(* are in the buffer, resets a drained buffer, and otherwise calls         *)
(* tcp_recv_buffer; it takes the result 0 for the end of the stream.       *)

\* The width of the next value, 1 when only the end of the stream is left.
NextWidth == IF Len(got) < Len(script) THEN script[Len(got) + 1].width ELSE 1

MaxLen == IF policy = "exact" THEN NextWidth - readable_bytes(rbuf) ELSE 0

Decode ==
    /\ rstate = "open"
    /\ Len(got) < Len(script)
    /\ CanRead(rbuf, NextWidth)
    /\ got' = Append(got, read_be(rbuf, NextWidth))
    /\ rbuf' = Consume(rbuf, NextWidth)
    /\ UNCHANGED <<script, policy, sender, wire, link, rstate, faults, history>>

\* With all its values read, the receiver rejects a stream that goes on.
Surplus ==
    /\ rstate = "open"
    /\ Len(got) = Len(script)
    /\ CanRead(rbuf, NextWidth)
    /\ rstate' = "error"
    /\ UNCHANGED <<script, policy, sender, wire, link, rbuf, got, faults, history>>

ResetReceived ==
    /\ rstate = "open"
    /\ rbuf.writer_pos > 0
    /\ readable_bytes(rbuf) = 0
    /\ rbuf' = reset(rbuf)
    /\ UNCHANGED <<script, policy, sender, wire, link, got, rstate, faults, history>>

WantsBytes ==
    /\ rstate = "open"
    /\ readable_bytes(rbuf) > 0 \/ rbuf.writer_pos = 0
    /\ ~CanRead(rbuf, NextWidth)

\* The bytes tcp_recv_buffer asks for: max_len, or all that is writable.
ToRead(b, max_len) ==
    Smaller(IF max_len <= 0 \/ max_len > writable_bytes(b)
            THEN writable_bytes(b) ELSE max_len, MaxTransfer)

\* tcp_recv_buffer with n bytes returned by recv().
RecvSome(n) ==
    /\ WantsBytes
    /\ writable_bytes(rbuf) > 0
    /\ n \in 1 .. Smaller(ToRead(rbuf, MaxLen), Len(wire))
    /\ rbuf' = Fill(rbuf, SubSeq(wire, 1, n))
    /\ wire' = SubSeq(wire, n + 1, Len(wire))
    /\ UNCHANGED <<script, policy, sender, link, got, rstate, faults, history>>

\* Mutant: recv() on an open connection with nothing to read ends the stream.
ZeroWhenEmpty == writable_bytes(rbuf) <= 0 \/ wire = <<>>

\* Mutant: the end of the stream is taken for nothing to read yet.
NeverEof == writable_bytes(rbuf) <= 0

\* tcp_recv_buffer returns 0: the peer has shut down its side and all bytes
\* were read, or the buffer is full.
ReturnsZero ==
    \/ writable_bytes(rbuf) <= 0
    \/ wire = <<>> /\ link = "shut"

RecvEnd ==
    /\ WantsBytes
    /\ ReturnsZero
    /\ rstate' = "eof"
    /\ UNCHANGED <<script, policy, sender, wire, link, rbuf, got, faults, history>>

RecvError ==
    /\ WantsBytes
    /\ writable_bytes(rbuf) > 0
    /\ link = "reset"
    /\ rstate' = "error"
    /\ UNCHANGED <<script, policy, sender, wire, link, rbuf, got, faults, history>>

----------------------------------------------------------------------------
Send == \E n \in 1 .. SockCap : SendSome(n)

Recv == \E n \in 1 .. SockCap : RecvSome(n)

Sender == Write \/ ResetDrained \/ Shutdown \/ SendBuffer \/ Send

Receiver == Decode \/ Surplus \/ ResetReceived \/ Recv \/ RecvEnd \/ RecvError

Faults == SendFails \/ SendZero \/ Interrupted \/ Reset

Next == Sender \/ Receiver \/ Faults

(***************************************************************************)
(* Both programs keep running and the kernel moves bytes when it can.      *)
(* Faults are never owed.                                                  *)
(***************************************************************************)
Fairness ==
    /\ WF_vars(Write) /\ WF_vars(ResetDrained) /\ WF_vars(Shutdown)
    /\ WF_vars(SendBuffer) /\ WF_vars(Send)
    /\ WF_vars(Receiver)

Spec == Init /\ [][Next]_vars /\ Fairness

----------------------------------------------------------------------------
(* Properties.                                                             *)

Calls ==
    [active : {TRUE}, temp : Seq(Byte), length : Nat, chunk_cap : Nat,
     to_send : Nat, total_sent : Nat, chunk_sent : Nat]

CallOK ==
    \/ call = Idle
    \/ /\ call \in Calls
       /\ call.temp = Unread(sbuf)
       /\ call.length = Smaller(Len(call.temp), MaxTransfer)
       /\ call.chunk_cap = Smaller(call.length, ChunkCap)
       /\ call.to_send = Smaller(call.length - call.total_sent, call.chunk_cap)
       /\ call.chunk_sent < call.to_send

\* Every variable has its type: the positions of both buffers are ordered and
\* within the capacity, and a call in progress sends bytes of its copy only.
TypeOK ==
    /\ script \in Scripts
    /\ policy \in Policies
    /\ sbuf \in Buffers(BufferCapacity)
    /\ rbuf \in Buffers(BufferCapacity)
    /\ todo \in 1 .. Len(script) + 1
    /\ CallOK
    /\ wire \in Seq(Byte) /\ Len(wire) <= SockCap
    /\ link \in {"up", "shut", "reset"}
    /\ got \in Seq(Nat) /\ Len(got) <= Len(script)
    /\ rstate \in {"open", "eof", "error"}
    /\ faults \in 0 .. MaxFaults
    /\ stream \in Seq(Byte)
    /\ start \in Seq(Nat)
    /\ log \in Seq(Nat)
    /\ torn \in BOOLEAN

\* The bytes of the stream that send() has accepted at least once.
Accepted == {log[j] : j \in 1 .. Len(log)}

\* However sends are cut, interrupted or failed, tcp_send_buffer leaves no
\* byte behind: what it counts as sent was accepted by send(), and no byte
\* is accepted before all the bytes ahead of it. A failed call counts whole
\* chunks only, so the retry sends again what the last chunk had delivered,
\* but never as much as a chunk (net_send_bytes' total_sent and chunk_sent,
\* tcp_send_buffer's reader_pos). The positions of both buffers stay in order
\* and within the capacity.
ReaderTrailsSent ==
    /\ TypeOK
    /\ 1 .. Acknowledged \subseteq Accepted
    /\ \A p \in Accepted : p <= Len(stream) /\ 1 .. p \subseteq Accepted
    /\ ~call.active => \A p \in Accepted : p < Acknowledged + ChunkCap

\* While no call has failed inside a chunk, the connection carries exactly
\* the bytes written, once and in order, and the values decoded are the
\* values written, wherever send() and recv() cut the stream: what the
\* receiver has not decoded yet, in its buffer or under way, is the rest of
\* what was sent.
ExactStream ==
    ~torn => /\ log = [j \in 1 .. Len(log) |-> j]
             /\ got = SubSeq(Values(script), 1, Len(got))
             /\ link # "reset" =>
                    Unread(rbuf) \o wire = SubSeq(stream, start[Len(got) + 1] + 1, Len(log))

\* A receiver that asks for what its next value lacks takes 0 for the end
\* only when the sender has shut down and nothing is under way; unless a
\* chunk was torn it then has every value (tcp_recv_buffer's result 0).
EofIsEnd ==
    policy = "exact" /\ rstate = "eof" =>
        /\ link \in {"shut", "reset"}
        /\ wire = <<>>
        /\ ~torn => got = Values(script)

\* Timeouts, interrupts and partial sends delay the values but never stop
\* them: unless the connection is reset, the receiver sees the end of the
\* stream and has every value, or a chunk was torn and the receiver, which
\* reads a stream with a repeated part, ends in one way or the other.
Delivered ==
    (policy = "exact") ~> \/ link = "reset"
                          \/ rstate = "eof" /\ got = Values(script)
                          \/ torn /\ rstate # "open"
============================================================================
