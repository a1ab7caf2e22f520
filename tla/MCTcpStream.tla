---------------------------- MODULE MCTcpStream ----------------------------
(***************************************************************************)
(* TcpStream on small instances.  The bytes of a script are all distinct,  *)
(* so that no two parts of the stream look alike.  Buffers of five bytes   *)
(* hold two chunks and a part of a third; a value of four bytes meets a    *)
(* buffer with too little room and is written after the reset.             *)
(***************************************************************************)
EXTENDS TcpStream

U8(v) == [width |-> 1, value |-> v]
U16(hi, lo) == [width |-> 2, value |-> hi * 256 + lo]
U32(v) == [width |-> 4, value |-> v]

\* 16909060 has the bytes 1, 2, 3, 4.
MCScripts == {
    <<U16(11, 12), U8(13), U16(0, 255)>>,
    <<U8(9), U32(16909060), U16(21, 22)>> }
============================================================================
