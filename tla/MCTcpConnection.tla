--------------------------- MODULE MCTcpConnection ---------------------------
(* TcpConnection with a send buffer of two units: enough for a message read in *)
(* two parts and for one the socket takes in part.                          *)
EXTENDS TcpConnection
=============================================================================
