------------------------------- MODULE HttpData -------------------------------
(***************************************************************************)
(* HttpData (HttpData.cc, HttpData.h): the parser and the answers of one   *)
(* TcpConnection object.  The object is pooled: the clients it is given to, *)
(* one after the other, share this HttpData, as do the reads of a client.  *)
(*                                                                         *)
(* A read is what handleRead finds in the input buffer: perhaps a request  *)
(* line, header lines, and perhaps the line that ends them.  onRequest     *)
(* parses what there is, answers, and throws away the rest.  The text of a *)
(* page is named by its path.                                              *)
(***************************************************************************)
EXTENDS Sequences, Naturals

CONSTANTS
    Root, Icon,     \* the paths "/" and "/favicon.ico"
    OtherPaths,     \* paths without a page
    None,           \* the empty string, or a line that is not there
    Reads,          \* what a read may find
    MaxClients      \* bound: so many clients are given the object

Pages == {Root, Icon}
Paths == Pages \cup OtherPaths
Methods == {"kGet", "kPost", "kPut", "kDelete"}

\* A request line as processRequestLine takes it apart: a method it does not
\* know, no second space, and any version but 1.0 and 1.1 are errors.
RequestLines ==
    [method : {"GET", "POST", "HEAD", "PUT", "DELETE", "other"},
     path : Paths \cup {None},
     version : {"1.0", "1.1", "other"}]

\* A header line with a colon: another one ends the headers.
HeaderLines ==
    [field : {"Connection", "other"}, value : {"close", "Keep-Alive", "other"}]

ASSUME HandlerAssumption ==
    /\ Root # Icon /\ Pages \cap OtherPaths = {} /\ None \notin Paths
    /\ MaxClients \in Nat
    /\ \A r \in Reads :
          /\ r \in [line : RequestLines \cup {None}, headers : Seq(HeaderLines),
                   ended : BOOLEAN]
          /\ r.line = None => r.headers = <<>> /\ ~r.ended

VARIABLES
    clients,        \* how many clients have had the object
    connected,      \* state_ of the TcpConnection: KConnected or KDisconnecting
    phase,          \* where onRequest is: idle, parse, answer
    read,           \* the read it works on
    input,          \* what is left of its lines
    reply,          \* what the last call sent, and whether it called shutdown()
    closeConnection, method, version, state, path,
    statusCode, statusMessage, body, requestHeaders

requestVars == <<method, version, state, path, requestHeaders>>
responseVars == <<closeConnection, statusCode, statusMessage, body>>
handlerVars == <<clients, connected, phase, read, input, reply, requestVars, responseVars>>

NoRead == [line |-> None, headers |-> <<>>, ended |-> FALSE]
NoReply == [sent |-> FALSE, shutdown |-> FALSE]
NoHeaders == [f \in {"Connection", "other"} |-> None]

HandlerInit ==
    /\ clients = 1
    /\ connected = TRUE
    /\ phase = "idle"
    /\ read = NoRead
    /\ input = NoRead
    /\ reply = NoReply
    /\ closeConnection = FALSE
    /\ method = "kInvalid"
    /\ version = "kUnknownVersion"
    /\ state = "kExpectRequestLine"
    /\ path = None
    /\ statusCode = "kUnknownState"
    /\ statusMessage = None
    /\ body = None
    /\ requestHeaders = NoHeaders

-----------------------------------------------------------------------------
(* The client and the pool.                                                 *)

\* handleRead calls onRequest.
Receive(r) ==
    /\ phase = "idle"
    /\ read' = r
    /\ input' = r
    /\ phase' = "parse"
    /\ UNCHANGED <<clients, connected, reply, requestVars, responseVars>>

\* handleClose, and the object is given to another client: HttpData keeps
\* what it has.
NextClient ==
    /\ phase = "idle" /\ clients < MaxClients
    /\ clients' = clients + 1
    /\ connected' = TRUE
    /\ read' = NoRead
    /\ input' = NoRead
    /\ reply' = NoReply
    /\ UNCHANGED <<phase, requestVars, responseVars>>

-----------------------------------------------------------------------------
(* parseRequest: one turn of its loop after the other.                      *)

\* "HEAD" is taken for kDelete.
MethodOf(m) ==
    CASE m = "GET" -> "kGet"
      [] m = "POST" -> "kPost"
      [] m \in {"HEAD", "DELETE"} -> "kDelete"
      [] m = "PUT" -> "kPut"
      [] OTHER -> "kInvalid"

VersionOf(v) ==
    CASE v = "1.0" -> "kHttp10" [] v = "1.1" -> "kHttp11" [] OTHER -> version

\* processRequestLine sets what it has found, also when it fails later.
ProcessRequestLine(line) ==
    LET known == MethodOf(line.method) # "kInvalid"
        whole == known /\ line.path # None
    IN
    /\ method' = MethodOf(line.method)
    /\ path' = IF whole THEN line.path ELSE path
    /\ version' = IF whole THEN VersionOf(line.version) ELSE version

WellFormed(line) ==
    MethodOf(line.method) # "kInvalid" /\ line.path # None /\ line.version # "other"

\* A line that fails ends the parsing and is not consumed.
ParseRequestLine ==
    /\ phase = "parse" /\ state = "kExpectRequestLine"
    /\ input.line # None
    /\ ProcessRequestLine(input.line)
    /\ IF WellFormed(input.line)
          THEN /\ state' = "kExpectHeaders"
               /\ input' = [input EXCEPT !.line = None]
               /\ UNCHANGED phase
          ELSE phase' = "answer" /\ UNCHANGED <<state, input>>
    /\ UNCHANGED <<clients, connected, read, reply, requestHeaders, responseVars>>

\* addReqHeader: of two lines with one field the last counts.
ParseHeader ==
    /\ phase = "parse" /\ state = "kExpectHeaders"
    /\ input.headers # <<>>
    /\ LET h == Head(input.headers) IN
         requestHeaders' = [requestHeaders EXCEPT ![h.field] = h.value]
    /\ input' = [input EXCEPT !.headers = Tail(@)]
    /\ UNCHANGED <<clients, connected, phase, read, reply,
                   method, version, state, path, responseVars>>

EndOfHeaders ==
    /\ phase = "parse" /\ state = "kExpectHeaders"
    /\ input.headers = <<>> /\ input.ended
    /\ state' = "kGotAll"
    /\ phase' = "answer"
    /\ UNCHANGED <<clients, connected, read, input, reply,
                   method, version, path, requestHeaders, responseVars>>

\* There is no further line in the buffer.
NoMoreLines ==
    /\ phase = "parse"
    /\ \/ state = "kExpectRequestLine" /\ input.line = None
       \/ state = "kExpectHeaders" /\ input.headers = <<>> /\ ~input.ended
    /\ phase' = "answer"
    /\ UNCHANGED <<clients, connected, read, input, reply, requestVars, responseVars>>

-----------------------------------------------------------------------------
(* onRequest after parseRequest, whose result it does not look at.          *)

\* Connection: close, or HTTP/1.0 without Keep-Alive.
Closes ==
    \/ requestHeaders["Connection"] = "close"
    \/ version = "kHttp10" /\ requestHeaders["Connection"] # "Keep-Alive"

\* The body that a page is not found with is the body of an earlier answer.
Respond ==
    IF path \in Pages
      THEN /\ statusCode' = "k200Ok"
           /\ statusMessage' = "Ok"
           /\ body' = path
           /\ UNCHANGED closeConnection
      ELSE /\ statusCode' = "k404NotFound"
           /\ statusMessage' = "Not Found"
           /\ closeConnection' = TRUE
           /\ UNCHANGED body

\* appendToBuffer, send and shutdown: a connection that is being shut down
\* does neither.
Answer ==
    /\ phase = "answer" /\ statusCode = "kUnknownState"
    /\ Respond
    /\ reply' = [sent |-> connected,
                 status |-> statusCode', message |-> statusMessage',
                 body |-> body', close |-> closeConnection',
                 shutdown |-> connected /\ Closes]
    /\ connected' = (connected /\ ~Closes)
    /\ UNCHANGED <<clients, phase, read, input, requestVars>>

\* clearAllContent forgets the headers, and the state of the parser.
ClearAllContent_KeepsHeaders ==
    /\ closeConnection' = FALSE
    /\ method' = "kInvalid"
    /\ version' = "kUnknownVersion"
    /\ state' = "kExpectRequestLine"
    /\ statusCode' = "kUnknownState"
    /\ UNCHANGED <<path, statusMessage, body, requestHeaders>>
ClearAllContent_KeepsState ==
    /\ requestHeaders' = NoHeaders
    /\ closeConnection' = FALSE
    /\ method' = "kInvalid"
    /\ version' = "kUnknownVersion"
    /\ statusCode' = "kUnknownState"
    /\ UNCHANGED <<state, path, statusMessage, body>>

\* path_, statusMessage_ and body_ stay.
ClearAllContent ==
    /\ requestHeaders' = NoHeaders
    /\ closeConnection' = FALSE
    /\ method' = "kInvalid"
    /\ version' = "kUnknownVersion"
    /\ state' = "kExpectRequestLine"
    /\ statusCode' = "kUnknownState"
    /\ UNCHANGED <<path, statusMessage, body>>

\* input->retrieveAll() and clearAllContent().
Clear ==
    /\ phase = "answer" /\ statusCode # "kUnknownState"
    /\ ClearAllContent
    /\ input' = NoRead
    /\ phase' = "idle"
    /\ UNCHANGED <<clients, connected, read, reply>>

-----------------------------------------------------------------------------

HandlerStep ==
    \/ ParseRequestLine \/ ParseHeader \/ EndOfHeaders \/ NoMoreLines
    \/ Answer \/ Clear

HandlerNext ==
    \/ \E r \in Reads : Receive(r)
    \/ NextClient
    \/ HandlerStep

HandlerSafeSpec == HandlerInit /\ [][HandlerNext]_handlerVars

\* Fairness: the loop thread is inside onRequest, and nothing there blocks.
HandlerSpec == HandlerSafeSpec /\ WF_handlerVars(HandlerStep)

-----------------------------------------------------------------------------

\* A request that one read brings whole.
Complete(r) == r.line # None /\ WellFormed(r.line) /\ r.ended

\* The last Connection header of a read, as the client meant it.
Wish(r) ==
    LET at == {i \in DOMAIN r.headers : r.headers[i].field = "Connection"} IN
    IF at = {} THEN None
    ELSE r.headers[CHOOSE i \in at : \A j \in at : j <= i].value

WantsClose(r) ==
    Wish(r) = "close" \/ (r.line.version = "1.0" /\ Wish(r) # "Keep-Alive")

\* A request that arrives whole is answered as if it were the first: its own
\* page and status, and the connection ends exactly if this request asks for
\* it, whatever this and earlier clients of the object sent before, also
\* requests that were cut, malformed or for pages that do not exist.
AnswersItsRequest ==
    phase = "idle" /\ reply.sent /\ Complete(read) =>
        /\ (reply.status = "k200Ok") = (read.line.path \in Pages)
        /\ reply.status = "k200Ok" => reply.body = read.line.path
        /\ reply.shutdown = WantsClose(read)

\* onRequest returns whatever the read holds: parseRequest, whose loop does
\* nothing in the states kExpectBody and kGotAll, is never entered in them.
EveryReadIsHandled == phase = "parse" ~> phase = "idle"
===============================================================================
