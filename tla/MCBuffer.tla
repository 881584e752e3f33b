------------------------------- MODULE MCBuffer -------------------------------
(* A block of two bytes at first: appends grow it, below KMaxPreAlloc by     *)
(* doubling and above it by a constant; a read may need all of extrabuf.     *)
(* Two of nine bytes are NUL, met at any place of a call.                    *)
EXTENDS Buffer
===============================================================================
