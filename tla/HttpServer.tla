----------------------------- MODULE HttpServer -----------------------------
(***************************************************************************)
(* One connection of an HttpServer: what HttpServer::onMessage and         *)
(* HttpContext::parseRequest (http/HttpServer.cpp, http/HttpContext.cpp)   *)
(* make of a stream of requests that the network cuts into pieces, over    *)
(* the input buffer of the connection (Buffer).                            *)
(*                                                                         *)
(* The client sends requests: a request line, headers, an empty line and,  *)
(* at times, a body.  A piece may end anywhere between two tokens, between *)
(* CR and LF as well.  All of this is the io loop's thread, which is       *)
(*   poll      outside onMessage                                           *)
(*   parse     at the head of the loop of parseRequest                     *)
(*   request   back from it, with a request to answer                      *)
(* The connection is what TcpConnection shows of it: its state, and the    *)
(* messages that send() did not drop.                                      *)
(***************************************************************************)
EXTENDS Buffer, HttpRequest

CONSTANTS NumRequests,  \* a bound: how many requests the client sends
          Requests      \* what it may send

ASSUME NumRequestsAssumption == NumRequests \in Nat

Ids == 1 .. NumRequests
BadRequest == 0         \* the answer 400 is to no request

(* What goes through the buffer: a token, and the request it is of.        *)
Byte(kind, id) == [kind |-> kind, id |-> id]
Nothing == Byte("zero", 0)
HttpBytes == {Nothing} \cup [kind : Tokens, id : Ids]

ASSUME BytesAssumption == Bytes = HttpBytes /\ Zero = Nothing

(* What the client means: the method's and the version's text, a path, a   *)
(* query, the values of one Connection header after the other, and whether *)
(* there is a body.                                                        *)
ASSUME RequestsAssumption ==
    /\ \A req \in Requests :
          /\ {req.method} \cup {req.path} \subseteq Tokens
          /\ {req.version, req.query} \subseteq Texts
          /\ req.connection \in Seq(Tokens) /\ Len(req.connection) <= 2 /\ req.body \in BOOLEAN
    /\ {"space", "colon", "cr", "lf", "Connection", "body", "zero"} \subseteq Tokens

(* Nothing it says is mistaken for what the parser looks for behind it.    *)
ASSUME WordsAssumption == \A req \in Requests :
    /\ \A word \in {req.method, req.path} \cup Range(req.version) \cup Range(req.query)
                     \cup Range(req.connection) : word \notin {"space", "cr"}
    /\ req.path # "question" /\ (req.query = <<>> \/ req.query[1] = "question")

VARIABLES script,    \* the requests the client has sent
          wire,      \* what of them has not arrived yet
          buf,       \* TcpConnection::_inputBuffer
          pc,
          expect,    \* HttpContext::_state
          request,   \* its _request
          current,   \* history: the request whose line it has
          state,     \* TcpConnection::_state
          output,    \* the answers that send() took
          unread,    \* history: what arrived and was not retrieved
          whole      \* history: so far each piece was just one request

netVars == <<script, wire, whole>>
contextVars == <<expect, request, current>>
vars == <<script, wire, buf, pc, expect, request, current,
          state, output, unread, whole>>

Init ==
    /\ script = <<>> /\ wire = <<>>
    /\ buf = NewBuffer
    /\ pc = "poll" /\ expect = "kExpectRequestLine" /\ request = NewRequest
    /\ current = 0
    /\ state = "kConnected" /\ output = <<>>
    /\ unread = <<>> /\ whole = TRUE

-----------------------------------------------------------------------------
(* The text of a request, with spaces that the parser must strip.          *)
LineText(req) == <<req.method, "space", req.path>> \o req.query \o <<"space">> \o req.version
HeaderText(value) == <<"Connection", "colon", "space", value, "space">>
CrlfText == <<"cr", "lf">>

RequestText(req) ==
    LET header(i) == IF i \in DOMAIN req.connection
                     THEN HeaderText(req.connection[i]) \o CrlfText ELSE <<>>
    IN  LineText(req) \o CrlfText \o header(1) \o header(2) \o CrlfText
        \o (IF req.body THEN <<"body">> ELSE <<>>)

Text(n, req) == [i \in DOMAIN RequestText(req) |-> Byte(RequestText(req)[i], n)]

ClientSends(req) ==
    /\ Len(script) < NumRequests
    /\ script' = Append(script, req)
    /\ wire' = wire \o Text(Len(script'), req)
    /\ UNCHANGED <<buf, pc, contextVars, state, output, unread, whole>>

-----------------------------------------------------------------------------
(* Buffer::findCRLF; what comes before it. *)
Ends == {i \in 1 .. readableBytes(buf) - 1 :
            Readable(buf)[i].kind = "cr" /\ Readable(buf)[i + 1].kind = "lf"}
findCRLF == Ends # {}
Line == SubSeq(Readable(buf), 1, Min(Ends) - 1)

(* Fault: the LF stays in the buffer. *)
retrieveLineButLF ==
    /\ buf' = retrieve(buf, Len(Line) + 1)
    /\ unread' = SubSeq(unread, Len(Line) + 2, Len(unread))

retrieveLine ==
    /\ buf' = retrieve(buf, Len(Line) + 2)
    /\ unread' = SubSeq(unread, Len(Line) + 3, Len(unread))

(* TcpConnection::send drops what comes after a shutdown(). *)
sendAlways(answer) ==   \* fault: it does not
    output' = Append(output, answer)

send(answer) ==
    output' = IF state = "kConnected" THEN Append(output, answer) ELSE output

shutdown == state' = IF state = "kConnected" THEN "kDisconnecting" ELSE state

-----------------------------------------------------------------------------
(* TcpConnection::handleRead takes in what has arrived, and onMessage      *)
(* begins to parse it with a new context.                                  *)
OnMessage(piece) ==
    /\ pc = "poll" /\ state # "kDisconnected"
    /\ pc' = "parse"
    /\ buf' = readFd(buf, piece)
    /\ unread' = unread \o piece
    /\ wire' = SubSeq(wire, Len(piece) + 1, Len(wire))
    /\ whole' = (whole /\ \E id \in DOMAIN script :
                          piece = Text(id, script[id]) /\ ~script[id].body)
    /\ expect' = "kExpectRequestLine" /\ request' = NewRequest /\ current' = 0
    /\ UNCHANGED <<script, state, output>>

(* No whole line is left: parseRequest returns, and so does onMessage. *)
NoLine ==
    /\ pc = "parse" /\ ~findCRLF
    /\ pc' = "poll"
    /\ UNCHANGED <<netVars, buf, contextVars, state, output, unread>>

(* The text of the line, without the requests it came with.                *)
LineTokens == [i \in DOMAIN Line |-> Line[i].kind]

RequestLine ==
    /\ pc = "parse" /\ expect = "kExpectRequestLine"
    /\ findCRLF /\ IsRequestLine(LineTokens)
    /\ request' = processRequestLine(request, LineTokens)
    /\ current' = Line[1].id
    /\ expect' = "kExpectHeaders"
    /\ retrieveLine
    /\ UNCHANGED <<netVars, pc, state, output>>

(* An answer as appendToBuffer writes it: one that closes has no           *)
(* Content-Length, the end of the stream ends it.  The history "asked" is  *)
(* whether the request had asked to close.                                 *)
NoLength == -1
Answer(n, asked, close, body) ==
    [id |-> n, asked |-> asked, close |-> close, body |-> body,
     length |-> IF close THEN NoLength ELSE body]

(* The line stays in the buffer. *)
BadRequestLine ==
    /\ pc = "parse" /\ expect = "kExpectRequestLine"
    /\ findCRLF /\ ~IsRequestLine(LineTokens)
    /\ send(Answer(BadRequest, FALSE, TRUE, 0)) /\ shutdown
    /\ pc' = "poll"
    /\ UNCHANGED <<netVars, buf, contextVars, unread>>

Header ==
    /\ pc = "parse" /\ expect = "kExpectHeaders"
    /\ findCRLF /\ Has(LineTokens, "colon")
    /\ request' = addHeader(request, LineTokens)
    /\ retrieveLine
    /\ UNCHANGED <<netVars, pc, expect, current, state, output>>

(* A line without a colon is the last one. *)
LastLine ==
    /\ pc = "parse" /\ expect = "kExpectHeaders"
    /\ findCRLF /\ ~Has(LineTokens, "colon")
    /\ expect' = "kGotAll"
    /\ pc' = "request"
    /\ retrieveLine
    /\ UNCHANGED <<netVars, request, current, state, output>>

asksToCloseIfSaid(r) == getHeader(r, <<"Connection">>) = <<"close">>   \* fault: HTTP/1.1 only

asksToClose(r) ==
    \/ getHeader(r, <<"Connection">>) = <<"close">>
    \/ r.version = "kHttp10" /\ getHeader(r, <<"Connection">>) # <<"KeepAlive">>

(* The user's callback gives the response a body, and may change whether   *)
(* the connection is closed, as defaultHttpCallback does.                  *)
OnRequest(close, body) ==
    /\ pc = "request"
    /\ send(Answer(current, asksToClose(request), close, body))
    /\ IF close THEN shutdown ELSE UNCHANGED state
    /\ pc' = "poll"
    /\ UNCHANGED <<netVars, buf, contextVars, unread>>

PeerCloses ==
    /\ pc = "poll" /\ state # "kDisconnected"
    /\ state' = "kDisconnected"
    /\ UNCHANGED <<netVars, buf, pc, contextVars, output, unread>>

-----------------------------------------------------------------------------
Min2(a, b) == IF a < b THEN a ELSE b

Next ==
    \/ \E req \in Requests : ClientSends(req)
    \/ \E n \in 1 .. Min2(Len(wire), MaxRead(buf)) : OnMessage(SubSeq(wire, 1, n))
    \/ NoLine \/ RequestLine \/ BadRequestLine \/ Header \/ LastLine
    \/ \E close \in BOOLEAN, body \in 0 .. 1 : OnRequest(close, body)
    \/ PeerCloses

Spec == Init /\ [][Next]_vars

-----------------------------------------------------------------------------
(* Types; the indices of the buffer are in bounds and in order.            *)
TypeOK ==
    /\ script \in Seq(Requests) /\ Len(script) <= NumRequests
    /\ wire \in Seq(Bytes) /\ unread \in Seq(Bytes) /\ whole \in BOOLEAN
    /\ WellFormed(buf)
    /\ pc \in {"poll", "parse", "request"}
    /\ expect \in {"kExpectRequestLine", "kExpectHeaders", "kGotAll"}
    /\ IsRequest(request) /\ current \in Ids \cup {0}
    /\ state \in {"kConnected", "kDisconnecting", "kDisconnected"}
    /\ output \in Seq([id : Ids \cup {BadRequest}, asked : BOOLEAN, close : BOOLEAN,
                       body : Nat, length : Nat \cup {NoLength}])

(* The buffer is a FIFO of bytes, wherever readv's data ended up and       *)
(* however often it was moved or made longer: what can be read is what     *)
(* arrived and was not retrieved.                                          *)
StreamKept == Readable(buf) = unread

(* What the client meant by closing: its last Connection header says so,   *)
(* or it speaks HTTP/1.0 and its last one does not say Keep-Alive.         *)
LastOf(values) == IF values = <<>> THEN "" ELSE values[Len(values)]
WantsClose(req) ==
    \/ LastOf(req.connection) = "close"
    \/ req.version = <<"HTTP1", "0">> /\ LastOf(req.connection) # "KeepAlive"

(* Requests are answered in the order in which they came, each at most     *)
(* once, with its own wish to close and only when all of it was there,     *)
(* however the stream was cut.  A client can tell where each answer ends:  *)
(* by its length, or it is the last and the connection is being closed.  A *)
(* 400 is such one.                                                        *)
Arrived(n) ==
    /\ n <= Len(script)
    /\ \A i \in DOMAIN wire : wire[i].id = n => wire[i].kind = "body"
AnswersInOrder ==
    \A i \in DOMAIN output :
        /\ \/ output[i].id = BadRequest
           \/ output[i].id = i /\ Arrived(i) /\ output[i].asked = WantsClose(script[i])
        /\ \/ output[i].length = output[i].body
           \/ i = Len(output) /\ state # "kConnected"

(* A request that is answered was understood: the callback sees the path,  *)
(* the query and the header that the client meant, whatever else the       *)
(* stream and the buffer hold.                                             *)
Understood ==
    pc = "request" =>
        LET req == script[current] IN
        /\ <<req.method>> \in {<<m>> : m \in DOMAIN Methods}
        /\ request.method = Methods[req.method]
        /\ request.path = <<req.path>> /\ request.query = req.query
        /\ getHeader(request, <<"Connection">>) =
              IF req.connection = <<>> THEN <<>> ELSE <<LastOf(req.connection)>>

(* A client that sends its requests one in a piece, well-formed and        *)
(* without a body, gets each answered before the next is read, with        *)
(* nothing left over in the buffer.                                        *)
OneAtATime ==
    (whole /\ pc = "poll" /\ state = "kConnected") =>
        /\ unread = <<>>
        /\ IF wire = <<>> THEN Len(output) = Len(script)
           ELSE wire[1].id = Len(output) + 1 /\ wire[1].kind = script[wire[1].id].method
        /\ \A i \in DOMAIN output : output[i].id = i
=============================================================================
