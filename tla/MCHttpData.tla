------------------------------ MODULE MCHttpData ------------------------------
(* Requests with up to two header lines, whole or cut after any line, and   *)
(* request lines that fail in each way, followed by a header or not.        *)
EXTENDS HttpData

MCLines ==
    {[method |-> m, path |-> p, version |-> v] :
        m \in {"GET", "other"}, p \in Paths \cup {None}, v \in {"1.0", "1.1", "other"}}

Connection(v) == [field |-> "Connection", value |-> v]

MCHeaders ==
    {<<>>, <<Connection("close")>>, <<Connection("Keep-Alive")>>,
     <<[field |-> "other", value |-> "other"]>>,
     <<Connection("close"), Connection("Keep-Alive")>>,
     <<Connection("Keep-Alive"), Connection("close")>>}

MCReads ==
    {NoRead} \cup
    {r \in [line : MCLines, headers : MCHeaders, ended : BOOLEAN] :
        \/ MethodOf(r.line.method) # "kInvalid" /\ WellFormed(r.line)
        \/ Len(r.headers) <= 1 /\ r.ended}
===============================================================================
