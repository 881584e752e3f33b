---------------------------- MODULE MCWebBench ----------------------------
(* Command lines: -k of HTTP/1.1, HTTP/0.9, a method that needs HTTP/1.1,   *)
(* and -f.  A client with -k of HTTP/1.0, the default, takes the same steps *)
(* and has more to expect of the server, which ends its connections.        *)
EXTENDS WebBench

Line(k, f, h, m) ==
    [keepAlive |-> k, force |-> f, noCache |-> FALSE, http10 |-> h, method |-> m]

MCOptions ==
    {Line(TRUE, FALSE, 2, "GET"), Line(FALSE, FALSE, 0, "GET"),
     Line(FALSE, FALSE, 1, "OPTIONS"), Line(FALSE, TRUE, 0, "HEAD")}
===========================================================================
