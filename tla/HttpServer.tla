------------------------------ MODULE HttpServer ------------------------------
(***************************************************************************)
(* The web server of bilalcast/phew/server.py: one coroutine per connection. *)
(* Awaits separate the reading of a request, its handling, each chunk of    *)
(* the response and the closing.  A handler and the status line and headers *)
(* that follow run without an await.  What a response says is left out.     *)
(***************************************************************************)
EXTENDS Naturals, Sequences

CONSTANTS
  Clients,   \* connections at a time
  NonAscii   \* texts with characters outside ASCII

VARIABLE conn   \* each connection: [pc, request, left], left: chunks of its response

NoRequest == [method |-> "none", path |-> "", form |-> <<>>]
Free == [pc |-> "free", request |-> NoRequest, left |-> 0]

ServerInit == conn = [c \in Clients |-> Free]
-----------------------------------------------------------------------------
(* urldecode: each %XX becomes a character, so that the bytes of a character
   outside ASCII become several. *)
UrlDecode(text) == IF text \in NonAscii THEN "mojibake" ELSE text

(* A form is a sequence of fields, each with a key and a value. *)
Position(form, k) == CHOOSE i \in DOMAIN form : form[i].key = k

(* _parse_query_string of the first n fields, in which the value of the last
   may be cut: reader.read returns what has arrived of the body.  A field that
   is missing reads as an empty one. *)
ReadForm(form, n, cut) ==
  [k \in {form[i].key : i \in DOMAIN form} |->
     LET i == Position(form, k)
     IN  CASE i > n -> ""
           [] i = n /\ cut -> "cut"
           [] OTHER -> UrlDecode(form[i].value)]

(* Route.matches; no route of this program has parameters. *)
Matches(routes, request) == <<request.method, request.path>> \in routes
-----------------------------------------------------------------------------
(* A client connects and sends its request.  The collection at its beginning
   closes the sockets that were returned from without an answer. *)
Connect(c, request) ==
  /\ conn[c].pc = "free"
  /\ conn' = [d \in Clients |->
                IF d = c THEN [pc |-> "reading", request |-> request, left |-> 0]
                ELSE IF conn[d].pc = "silent" THEN Free ELSE conn[d]]

(* The client breaks off: _handle_request returns at an empty request line, or
   raises in _parse_headers. *)
BreakOff(c) ==
  /\ conn[c].pc = "reading"
  /\ conn' = [conn EXCEPT ![c].pc = "silent"]

(* What a handler returned is sent in chunks; a string is one. *)
Respond(c, chunks) ==
  conn' = [conn EXCEPT ![c].pc = "draining", ![c].left = chunks]

(* The handler returned None, there is no route, or it raised: no answer, and
   the connection stays open. *)
NoResponse(c) == conn' = [conn EXCEPT ![c].pc = "silent"]

(* A chunk is drained; after the last one the connection is closed. *)
Drain(c) ==
  /\ conn[c].pc = "draining"
  /\ IF conn[c].left > 1
     THEN conn' = [conn EXCEPT ![c].left = @ - 1]
     ELSE conn' = [conn EXCEPT ![c] = Free]

ServerDown == conn' = [c \in Clients |-> Free]
=============================================================================
