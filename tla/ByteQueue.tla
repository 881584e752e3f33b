------------------------------ MODULE ByteQueue ------------------------------
(***************************************************************************)
(* What a Buffer promises (src/webserver/base/Buffer.h): the bytes that are *)
(* put in come out in the same order, each once, whatever their memory is   *)
(* moved to and however they are divided into calls; but in a call, or in   *)
(* the part of a read that did not fit, a NUL makes NULs of all behind it.  *)
(*                                                                         *)
(* The bytes of the stream are 1, 2, 3, ... in the order they are put in,   *)
(* but for its NULs.                                                        *)
(***************************************************************************)
EXTENDS Integers, Sequences

CONSTANTS
    Nuls,           \* where the stream has a NUL
    MaxWritten      \* bound: the last byte put in

VARIABLES
    queue,      \* the bytes not taken out yet
    written     \* the last byte put in

Init == queue = <<>> /\ written = 0

NUL == 0

\* The n bytes that follow the first m of the stream.
Stream(m, n) == [i \in 1..n |-> IF m + i \in Nuls THEN NUL ELSE m + i]

\* What is left of data cut at its first NUL.
CutAtNul(data) ==
    [i \in DOMAIN data |-> IF \E j \in 1..i : data[j] = NUL THEN NUL ELSE data[i]]

\* Of n bytes, the first k arrive as they are.
Put(n, k) ==
    /\ n \in 0..(MaxWritten - written) /\ k \in 0..n
    /\ queue' = queue \o (Stream(written, k) \o CutAtNul(Stream(written + k, n - k)))
    /\ written' = written + n

Get(n) ==
    /\ n \in 0..Len(queue)
    /\ queue' = SubSeq(queue, n + 1, Len(queue))
    /\ UNCHANGED written

Next == \E n \in 0..MaxWritten : Get(n) \/ \E k \in 0..n : Put(n, k)

Spec == Init /\ [][Next]_<<queue, written>>
==============================================================================
