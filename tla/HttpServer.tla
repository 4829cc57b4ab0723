----------------------------- MODULE HttpServer -----------------------------
(***************************************************************************)
(* The HTTP server on one connection (src/src/http/httpserver.cpp and      *)
(* httpparser.cpp): the bytes of the client's requests arrive in messages  *)
(* that are cut anywhere, the parser takes up where it stopped, and what   *)
(* it has got whole goes through the router to a handler.                  *)
(*                                                                         *)
(* OnMessage runs to its end before the next message: its steps are the    *)
(* turns of the loop in ParseRequest and the answer.  A request is a       *)
(* sequence of tokens: the text of a line, the end of a line (CRLF), a     *)
(* part of the body.  What the server sends fits into its socket here;     *)
(* Connection.tla has what happens when it does not.  The files it serves  *)
(* may come and go, also between the look at one and its reading.          *)
(***************************************************************************)
EXTENDS Integers, Router, HttpResponse

CONSTANTS Templates,     \* the requests clients send
          MaxRequests,   \* how many of them one client sends
          Uninitialised, \* what `ok' may hold when ParseRequest does not set it
          Files          \* what may be where a path of a FileHandler leads

ASSUME UninitialisedAssumption == Uninitialised \subseteq BOOLEAN /\ Uninitialised # {}
ASSUME TemplatesAssumption ==
    \A t \in Templates : /\ t.good \in BOOLEAN            \* the request line is one
                         /\ t.version \in {10, 11}
                         /\ t.connection \in {"", "close", "keep-alive"}
                         /\ t.length \in Nat \cup {-1}    \* -1: no Content-Length

ASSUME FilesAssumption ==
    /\ Files # {}
    /\ \A f \in Files : /\ f.kind \in {"file", "directory", "none"}
                       /\ f.size \in Nat
                       /\ f.readable \in BOOLEAN

VARIABLES client,     \* [waits, whole]: for each answer; sends requests in one piece
          requests,   \* what the client sends
          coming,     \* the tokens of it that have not arrived
          buf,        \* the connection's input buffer
          state_, request_, body_length_,  \* the connection's HttpParser
          pc,         \* "idle", in ParseRequest ("parse"), after it ("parsed")
          ok,         \* what ParseRequest will return
          sent,       \* the answers that went out
          wrShut,     \* this side of the connection is shut down
          served      \* what handlers were called with

parser == <<state_, request_, body_length_>>
input == <<client, requests, coming>>
output == <<sent, wrShut, served>>
vars == <<input, buf, parser, pc, ok, output>>

-----------------------------------------------------------------------------
(* The client's bytes.                                                     *)

Token(part, i) == [part |-> part, of |-> i]
CRLF(i) == Token("crlf", i)
Line(part, i) == <<Token(part, i), CRLF(i)>>

BodyOf(r, i) == [b \in 1..r.length |-> Token("body", i)]

\* What stands for request r, the i-th.
TokensOf(r, i) ==
    Line("line", i)
    \o (IF r.connection # "" THEN Line("connection", i) ELSE <<>>)
    \o (IF r.length >= 0 THEN Line("length", i) ELSE <<>>)
    \o <<CRLF(i)>> \o BodyOf(r, i)

Stream(rs) == FoldLeft(LAMBDA s, i : s \o TokensOf(rs[i], i), <<>>, [i \in DOMAIN rs |-> i])

-----------------------------------------------------------------------------
(* The parser.                                                             *)

NoLine == 0
NoRequest == [line |-> NoLine, headers |-> {}, body |-> <<>>]

\* Where the first CRLF of the input is, or 0.
FindCRLF == SelectInSeq(buf, LAMBDA t : t.part = "crlf")

Retrieve(n) == buf' = SubSeq(buf, n + 1, Len(buf))

\* has_more = false
Stop == pc' = "parsed"
Continue == UNCHANGED pc

\* There is no line yet.
NoLineYet ==
    /\ state_ \in {"requestline", "header"}
    /\ FindCRLF = 0
    /\ Stop
    /\ UNCHANGED <<buf, parser, ok>>

\* What is before the first CRLF is a request line and nothing else.
ParseRequestLine ==
    FindCRLF = 2 /\ buf[1].part = "line" /\ requests[buf[1].of].good

RequestLine ==
    /\ state_ = "requestline"
    /\ ParseRequestLine
    /\ ok' = TRUE
    /\ state_' = "header"
    /\ request_' = [request_ EXCEPT !.line = buf[1].of]
    /\ Retrieve(2)
    /\ Continue
    /\ UNCHANGED body_length_

\* A line that is refused stays in the buffer.
BadRequestLine ==
    /\ state_ = "requestline"
    /\ FindCRLF # 0 /\ ~ParseRequestLine
    /\ ok' = FALSE
    /\ Stop
    /\ UNCHANGED <<buf, parser>>

\* A line with a colon.
Header ==
    /\ state_ = "header"
    /\ FindCRLF = 2
    /\ request_' = [request_ EXCEPT !.headers = @ \cup {buf[1]}]
    /\ Retrieve(2)
    /\ Continue
    /\ UNCHANGED <<state_, body_length_, ok>>

HasHeader(part) == \E t \in request_.headers : t.part = part
GetHeader(part) == CHOOSE t \in request_.headers : t.part = part

AfterHeaders ==
    IF HasHeader("length")
    THEN /\ state_' = "body"
         /\ body_length_' = requests[GetHeader("length").of].length
         /\ Continue
    ELSE state_' = "gotall" /\ Stop /\ UNCHANGED body_length_

\* Mutant: the empty line stays in the buffer.
EndOfHeadersKeepsLine ==
    /\ state_ = "header"
    /\ FindCRLF = 1
    /\ AfterHeaders
    /\ UNCHANGED <<buf, request_, ok>>

\* The empty line.
EndOfHeaders ==
    /\ state_ = "header"
    /\ FindCRLF = 1
    /\ AfterHeaders
    /\ Retrieve(1)
    /\ UNCHANGED <<request_, ok>>

\* The body is read where it is: it is not retrieved from the buffer.
Body ==
    /\ state_ = "body"
    /\ Stop
    /\ IF Len(buf) >= body_length_
       THEN /\ state_' = "gotall"
            /\ request_' = [request_ EXCEPT !.body = SubSeq(buf, 1, body_length_)]
       ELSE UNCHANGED <<state_, request_>>
    /\ UNCHANGED <<buf, body_length_, ok>>

\* One turn of the loop in ParseRequest.
ParseRequest ==
    /\ pc = "parse"
    /\ NoLineYet \/ RequestLine \/ BadRequestLine \/ Header \/ EndOfHeaders \/ Body
    /\ UNCHANGED <<input, output>>

-----------------------------------------------------------------------------
(* The server.                                                             *)

\* An answer as the client reads it: says is what its header says of closing.
Answer(to, response) ==
    [to |-> to, status |-> response.header.status, says |-> response.header.close,
     closes |-> response.close_connection_, length |-> response.header.length,
     body |-> response.body]

\* What goes out of what is sent one after the other: nothing after a Shutdown,
\* which follows every answer that closes.
GoOut(answers) ==
    LET closing == SelectInSeq(answers, LAMBDA a : a.closes)
        out == IF closing = 0 THEN answers ELSE SubSeq(answers, 1, closing)
    IN  IF wrShut THEN UNCHANGED <<sent, wrShut>>
        ELSE sent' = sent \o out /\ wrShut' = (closing # 0)

\* Whether the request asks for the connection to be closed.
AsksToClose ==
    LET connection == IF HasHeader("connection")
                      THEN requests[GetHeader("connection").of].connection ELSE ""
    IN  \/ connection = "close"
        \/ requests[request_.line].version = 10 /\ connection # "keep-alive"

\* The route that is taken; one without a handler leaves the request to the
\* default handler, with its parameters.
HandlerOf(match) ==
    IF match.route # NoRoute /\ Routes[match.route].handler # "none" THEN match.route ELSE NoRoute

Served(match) ==
    [request |-> request_, route |-> HandlerOf(match), match_map |-> match.match_map]

\* What the handler of the route makes of a new response, with a file it may find.
Handled(route, file) ==
    LET response == HttpResponseOf(AsksToClose) IN
    CASE route = NoRoute -> PageNotFoundHandler(response)
      [] route # NoRoute /\ Routes[route].handler = "page" -> OnHttpCallback(response)
      [] route # NoRoute /\ Routes[route].handler = "files" -> FileHandler(response, file)

\* Mutant: only the request is reset.
ResetRequest == request_' = NoRequest /\ UNCHANGED state_

Reset == state_' = "requestline" /\ request_' = NoRequest

\* Mutant: a bad request is answered and the connection left open.
RefusalOpen == [to |-> 0, status |-> 400, says |-> FALSE, closes |-> FALSE, length |-> 0, body |-> 0]

\* The answer to what ParseRequest has refused: a status line, and a Shutdown.
Refusal == [to |-> 0, status |-> 400, says |-> FALSE, closes |-> TRUE, length |-> 0, body |-> 0]

Refusals(refused) == IF refused THEN <<Refusal>> ELSE <<>>

\* The request is whole: it is served whatever ParseRequest has returned.
OnRequest ==
    /\ state_ = "gotall"
    /\ \E match \in {RouterMatch(requests[request_.line])}, file \in Files :
          /\ served' = Append(served, Served(match))
          /\ GoOut(Refusals(~ok)
                   \o <<Answer(request_.line, Handled(HandlerOf(match), file))>>)
    /\ Reset

\* The request goes on with the next message.
NoRequestYet ==
    /\ state_ # "gotall"
    /\ GoOut(Refusals(~ok))
    /\ UNCHANGED <<state_, request_, served>>

\* The rest of OnMessage.
MessageDone ==
    /\ pc = "parsed"
    /\ OnRequest \/ NoRequestYet
    /\ pc' = "idle"
    /\ UNCHANGED <<input, buf, body_length_, ok>>

\* All of the body that was announced has come.
IsWhole(a) == a.body >= a.length

\* A client that waits sends no more than the request after those that are answered
\* whole, and nothing once the server has shut down.
MaySend(k) ==
    /\ client.waits => /\ ~wrShut
                       /\ \A a \in ToSet(sent) : IsWhole(a)
                       /\ coming[k].of <= Len(sent) + 1
    /\ client.whole => \A j \in DOMAIN coming : j > k => coming[j].of > coming[k].of

\* A message with the next k tokens; ok is not initialised.
OnMessage ==
    /\ pc = "idle"
    /\ \E k \in DOMAIN coming :
          /\ MaySend(k)
          /\ coming' = SubSeq(coming, k + 1, Len(coming))
          /\ buf' = buf \o SubSeq(coming, 1, k)
    /\ ok' \in Uninitialised
    /\ pc' = "parse"
    /\ UNCHANGED <<client, requests, parser, output>>

Init ==
    /\ client \in [waits : BOOLEAN, whole : BOOLEAN]
    /\ requests \in UNION {[1..n -> Templates] : n \in 1..MaxRequests}
    /\ coming = Stream(requests) /\ buf = <<>>
    /\ state_ = "requestline" /\ request_ = NoRequest /\ body_length_ = 0
    /\ pc = "idle" /\ ok = TRUE
    /\ sent = <<>> /\ wrShut = FALSE /\ served = <<>>

Next == OnMessage \/ ParseRequest \/ MessageDone

Spec == Init /\ [][Next]_vars

\* What a client sends arrives, and the loop runs its callbacks.
FairSpec == Spec /\ WF_vars(OnMessage) /\ WF_vars(ParseRequest \/ MessageDone)

-----------------------------------------------------------------------------
(* What the server promises.                                               *)

Tokens == [part : {"line", "crlf", "connection", "length", "body"}, of : DOMAIN requests]
HeaderTokens == {Token(p, i) : p \in {"connection", "length"}, i \in DOMAIN requests}

\* Between messages the parser is never at the end of a request.
TypeOK ==
    /\ ToSet(buf) \cup ToSet(coming) \subseteq Tokens
    /\ state_ \in {"requestline", "header", "body", "gotall"}
    /\ state_ = "gotall" => pc = "parsed"
    /\ pc \in {"idle", "parse", "parsed"} /\ ok \in BOOLEAN
    /\ request_.line \in DOMAIN requests \cup {NoLine}
    /\ request_.headers \subseteq HeaderTokens
    /\ body_length_ \in Nat
    /\ ToSet(sent) \subseteq [to : {0} \cup DOMAIN requests, status : {200, 400, 404},
                              says : BOOLEAN, closes : BOOLEAN, length : Nat, body : Nat]
    /\ wrShut \in BOOLEAN
    /\ DOMAIN served \subseteq DOMAIN requests

\* Request i as the client means it, and what its handler should get.
Whole(i) == [line    |-> i,
             headers |-> ToSet(TokensOf(requests[i], i)) \cap HeaderTokens,
             body    |-> BodyOf(requests[i], i)]

Meant(i) ==
    LET route == FirstRoute(requests[i]) IN
    [request |-> Whole(i),
     route |-> IF route # NoRoute /\ Routes[route].handler # "none" THEN route ELSE NoRoute,
     match_map |-> Params(route, requests[i])]

\* However the input is cut and whatever `ok' holds, handlers are called with the
\* client's requests: in order, each once and not before all of it has come, with
\* no part of another one, by the first route that accepts it and with the
\* parameters of that route alone.
HandlersGetTheirRequests ==
    \A i \in DOMAIN served : /\ served[i] = Meant(i)
                            /\ \A t \in ToSet(coming) : t.of > i

IsRefusal(a) == a.status = 400
Refused == \E a \in ToSet(sent) : IsRefusal(a)

\* The file of request i may be one that cannot be read when it is looked for again.
MayBeUnread(i) ==
    LET route == Meant(i).route
    IN  /\ route # NoRoute
        /\ Routes[route].handler = "files"
        /\ \E f \in Files : ~f.readable

\* What the client reads are the answers to its requests in their order, each as
\* long as its header announces so that the next begins where the client looks for
\* it, files that cannot be read apart; the connection is shut down after the first
\* that closes it, as its header says unless it is a 400, and nothing follows.
AnswersInOrder ==
    /\ \A j \in DOMAIN sent :
          /\ (sent[j].to = j /\ j \in DOMAIN served) \/ IsRefusal(sent[j])
          /\ sent[j].closes <=> (wrShut /\ j = Len(sent))
          /\ IsRefusal(sent[j]) \/ sent[j].says = sent[j].closes
          /\ sent[j].body = sent[j].length \/ (MayBeUnread(j) /\ ~IsWhole(sent[j]))
    /\ wrShut => sent # <<>>

\* A valid request without a body.
Plain(i) == requests[i].good /\ requests[i].length <= 0

\* A client that sends requests without a body in one piece each and waits for
\* the answers gets all of them, up to the first that closes or breaks off before
\* the length it announced.
PlainRequestsAnswered ==
    client.waits /\ client.whole /\ (\A i \in DOMAIN requests : Plain(i))
        ~> /\ ~Refused
           /\ \/ Len(sent) = Len(requests)
              \/ wrShut
              \/ \E a \in ToSet(sent) : ~IsWhole(a)

\* README.md:16 says that keep-alive connections are supported: a client that sends
\* valid requests in one piece each and waits for the answers is never told that
\* one of them is invalid.
KeepAliveKept ==
    client.waits /\ client.whole /\ (\A i \in DOMAIN requests : requests[i].good)
        => ~Refused
=============================================================================
