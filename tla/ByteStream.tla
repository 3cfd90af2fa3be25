----------------------------- MODULE ByteStream -----------------------------
(***************************************************************************)
(* What a buffer queue of sos promises its users: a stream of bytes.  A    *)
(* write adds its bytes at the end in one piece or not at all, a read      *)
(* takes as many bytes as there are, up to the number asked for, from the  *)
(* front in one piece, and a flush drops everything.                       *)
(*                                                                         *)
(* A byte is its position in the stream, so the stream is the interval of  *)
(* the positions that are still queued.                                    *)
(***************************************************************************)
EXTENDS Naturals

CONSTANT Sizes      \* the sizes that writes and reads ask for

VARIABLES first,    \* position of the first byte in the stream
          end       \* position of the next byte to be written

stream == <<first, end>>

StreamInit == first = 0 /\ end = 0

Write(n) == end' = end + n /\ UNCHANGED first

Read(n) == /\ first' = IF end - first < n THEN end ELSE first + n
           /\ UNCHANGED end

Drop == first' = end /\ UNCHANGED end

StreamNext == (\E n \in Sizes : Write(n) \/ Read(n)) \/ Drop

StreamSpec == StreamInit /\ [][StreamNext]_stream
============================================================================
