--------------------------- MODULE MCAsyncLogging ---------------------------
(* Two lines to a buffer and a batch of at most three buffers: a batch may  *)
(* be one partly filled buffer, several, or too long.                       *)
EXTENDS AsyncLogging
=============================================================================
