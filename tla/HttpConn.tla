----------------------------- MODULE HttpConn ------------------------------
(***************************************************************************)
(* src/src/http/http_conn.cpp: the bytes of one connection on their way    *)
(* through read(), process() and write(), as the sub-reactor and the pool  *)
(* call them (main.cpp 90-143).  Reactor knows of a request only whether   *)
(* it is whole; here are the buffer, the lines, the pointers into the      *)
(* buffer, bodies, pipelined requests and the limits.                      *)
(*                                                                         *)
(* The stream is a sequence of marks, each of the request it is part of: a *)
(* line with its CRLF ("start", "keep-alive", "auth", "length", "other",   *)
(* "blank") or a unit of a body, which has no CRLF and no blank in it.  A  *)
(* "nul" is a mark whose first byte process() has overwritten.  A line cut *)
(* in two waits in the buffer as one that has not come, so none is cut.    *)
(***************************************************************************)
EXTENDS Integers, SequencesExt, FiniteSetsExt

CONSTANTS
  Requests,           \* [post, url, keep, auth, other, body]: see Lines
  READ_BUFFER_SIZE,   \* in marks
  MaxRequests         \* bound: requests of the client

ASSUME HttpAssumption ==
  /\ READ_BUFFER_SIZE \in Nat \ {0} /\ MaxRequests \in Nat
  /\ Requests \subseteq
       [post : BOOLEAN, url : {"root", "page", "login", "hello"},
        keep : BOOLEAN, auth : BOOLEAN, other : Nat, body : Nat]

VARIABLES
  asked,     \* the requests the client has begun to send
  unsent,    \* what it still has to send of the last one
  net,       \* sent and not received
  buf,       \* m_read_buf up to m_read_idx
  start,     \* start_index of process()
  conn,      \* m_check_state, m_url, m_is_post, m_content_length, m_jwt_token, m_is_keep_alive
  out,       \* the response in m_write_buf, NoReply when bytes_to_send = 0
  at,        \* armed for "in" or "out", in the "pool", in "parse", "closed"; or "crashed"
  replies,   \* what the client has received
  piped,     \* history: the client did not wait for a reply before it went on
  cut,       \* history: a request that does not bear it came in pieces
  unopened   \* history: a file that is there could not be opened

vars == <<asked, unsent, net, buf, start, conn, out, at, replies, piped, cut, unopened>>
client == <<asked, unsent, piped, cut>>

Mark(k, r) == [kind |-> k, of |-> r]
Times(n, k, r) == [i \in 1 .. n |-> Mark(k, r)]
If(b) == IF b THEN 1 ELSE 0

Body(r) == Times(r.body, "body", r)

Lines(r) ==
  <<Mark("start", r)>> \o Times(r.other, "other", r) \o Times(If(r.keep), "keep-alive", r)
  \o Times(If(r.auth), "auth", r) \o Times(If(r.body > 0), "length", r)
  \o <<Mark("blank", r)>> \o Body(r)

NoReply == [page |-> "none"]

\* The response of do_request, when it leaves one: to the login, to token
\* holders, or a file, 404 included.
Answer(post, url, data, token, keep) ==
  CASE post /\ url = "login" -> [page |-> "login", data |-> data, keep |-> keep]
    [] url = "hello"         -> [page |-> "hello", token |-> token, keep |-> keep]
    [] OTHER                 -> [page |-> "file", url |-> url, keep |-> keep]

\* The parser of http_conn::init(); "lost" marks a pointer whose bytes moved.
Fresh ==
  [state |-> "REQUESTLINE", url |-> "null", post |-> FALSE, length |-> 0,
   token |-> "null", keep |-> FALSE]

Init ==
  /\ asked = <<>> /\ unsent = <<>> /\ net = <<>>
  /\ buf = <<>> /\ start = 0 /\ conn = Fresh /\ out = NoReply
  /\ at = "in" /\ replies = <<>>
  /\ piped = FALSE /\ cut = FALSE /\ unopened = FALSE

-----------------------------------------------------------------------------
(* The client: well-formed requests, in pieces, whether answered or not.   *)

BearsCut(r) == r.url = "root" /\ ~r.auth /\ r.body = 0

Ask(r) ==
  /\ unsent = <<>> /\ Len(asked) < MaxRequests /\ at \notin {"closed", "crashed"}
  /\ asked' = Append(asked, r)
  /\ unsent' = Lines(r)
  /\ piped' = (piped \/ Len(replies) # Len(asked))
  /\ UNCHANGED <<net, buf, start, conn, out, at, replies, cut, unopened>>

Send(n) ==
  /\ n \in DOMAIN unsent /\ at \notin {"closed", "crashed"}
  /\ net' = net \o SubSeq(unsent, 1, n)
  /\ unsent' = SubSeq(unsent, n + 1, Len(unsent))
  /\ cut' = (cut \/ (n < Len(unsent) /\ ~BearsCut(Last(asked))))
  /\ UNCHANGED <<asked, buf, start, conn, out, at, replies, piped, unopened>>

-----------------------------------------------------------------------------
(* read() in the sub-reactor, and the first half of process() in a worker. *)

\* Seeded bugs: recv is told the size of the whole buffer, or one too few.
RoomOfAll == READ_BUFFER_SIZE
RoomForNul == READ_BUFFER_SIZE - 1 - Len(buf)

Room == READ_BUFFER_SIZE - Len(buf)

\* A recv of length 0 returns 0 if bytes wait, and -1 (EAGAIN) if none do:
\* a buffer filled exactly is no error, one filled too early is.
ReadFails == Room <= 0 \/ Len(net) > Room

OnReadable ==
  /\ at = "in" /\ net # <<>>
  /\ net' = <<>>
  /\ IF ReadFails THEN at' = "closed" /\ buf' = <<>>
                  ELSE at' = "pool" /\ buf' = buf \o net
  /\ UNCHANGED <<client, start, conn, out, replies, unopened>>

\* The worker takes what has come since; with no room it gives up at once.
Drain ==
  /\ at = "pool"
  /\ IF Room <= 0 /\ net # <<>>
     THEN at' = "in" /\ UNCHANGED <<net, buf>>
     ELSE LET n == Min({Room, Len(net)}) IN
          /\ buf' = buf \o SubSeq(net, 1, n)
          /\ net' = SubSeq(net, n + 1, Len(net))
          /\ at' = "parse"
  /\ UNCHANGED <<client, start, conn, out, replies, unopened>>

-----------------------------------------------------------------------------
(* The loop of process() over the lines of the buffer.                     *)

\* Where get_line_from_buf ends the next line, if it finds one.
Ends == {i \in start + 1 .. Len(buf) : buf[i].kind # "body"}
HasLine == Ends # {} /\ buf[Min(Ends)].kind # "nul"
Line == buf[Min(Ends)]
Glued == Min(Ends) > start + 1       \* left-over body before the line

NextLine(state) ==
  /\ at = "parse" /\ HasLine /\ conn.state = state
  /\ start' = Min(Ends)
  /\ UNCHANGED <<client, net, replies>>

\* Any line at all is taken for a request line; one without a blank has no url.
ParseRequestLine ==
  /\ NextLine("REQUESTLINE")
  /\ conn' = [conn EXCEPT
       !.state = "HEADER",
       !.post = @ \/ (Line.kind = "start" /\ ~Glued /\ Line.of.post),
       !.url = CASE Line.kind = "start" -> Line.of.url
                 [] Line.kind = "blank" -> "null"
                 [] OTHER               -> "lost"]
  /\ UNCHANGED <<buf, out, at, unopened>>

IsBlank == Line.kind = "blank" /\ ~Glued

ParseHeaders ==
  /\ NextLine("HEADER") /\ ~IsBlank
  /\ conn' = IF Glued THEN conn ELSE [conn EXCEPT
       !.length = IF Line.kind = "length" THEN Line.of.body ELSE @,
       !.keep = @ \/ Line.kind = "keep-alive",
       !.token = IF Line.kind = "auth" THEN "held" ELSE @]
  /\ UNCHANGED <<buf, out, at, unopened>>

\* The body as far as it is there; the byte behind it becomes a NUL, which
\* may be the first of the next request.  (Behind the buffer: left out.)
Data == SubSeq(buf, start' + 1, Min({start' + conn.length, Len(buf)}))

Terminated ==
  [i \in DOMAIN buf |-> IF conn.length # 0 /\ i = start' + conn.length + 1
                        THEN Mark("nul", buf[i].of) ELSE buf[i]]

AsksFile == ~(conn.post /\ conn.url = "login") /\ conn.url # "hello"

\* What becomes of a file that waits to be sent when the next open fails: its
\* descriptor is overwritten, and only the header goes out.
Spoilt == IF out.page = "file" THEN {[page |-> "broken"]} ELSE {}

\* A file that stat finds and open does not leaves no response (360-361), or
\* the one before: the worst is assumed, that it happens to any.
NotOpened == AsksFile /\ out' \in {out} \cup Spoilt /\ unopened' = TRUE

\* The length is forgotten before the body is skipped (146, 152): it stays.
DoRequest ==
  /\ NextLine("HEADER") /\ IsBlank
  /\ buf' = Terminated
  /\ IF conn.url = "null"
     THEN at' = "crashed" /\ UNCHANGED <<conn, out, unopened>>
     ELSE /\ \/ /\ out' = Answer(conn.post, conn.url, Data, conn.token, conn.keep)
                /\ UNCHANGED unopened
             \/ NotOpened
          /\ conn' = [Fresh EXCEPT !.token = conn.token, !.keep = conn.keep]
          /\ at' = at

\* What was not parsed moves to the front of the buffer, whatever points into
\* it; "/index.html" is a literal.
Moved(p) == IF start = 0 \/ p \in {"null", "root"} THEN p ELSE "lost"

ParseDone ==
  /\ at = "parse" /\ ~HasLine
  /\ buf' = SubSeq(buf, start + 1, Len(buf))
  /\ start' = 0
  /\ conn' = [conn EXCEPT !.url = Moved(@), !.token = Moved(@)]
  /\ at' = IF out = NoReply THEN "in" ELSE "out"
  /\ UNCHANGED <<client, net, out, replies, unopened>>

-----------------------------------------------------------------------------
(* write(), and the init() that follows it on a connection to be kept.     *)

\* Seeded bug: the buffer is left as it is.
Unwiped(b) == b

Wiped(b) == <<>>

\* Seeded bug: init() runs before write()'s answer, keep-alive or not, is read.
OnWritableInitFirst ==
  /\ at = "out"
  /\ replies' = Append(replies, out)
  /\ out' = NoReply
  /\ conn' = Fresh
  /\ buf' = Wiped(buf)
  /\ at' = IF conn'.keep /\ out.page # "broken" THEN "in" ELSE "closed"
  /\ UNCHANGED <<client, net, start, unopened>>

OnWritable ==
  /\ at = "out"
  /\ replies' = Append(replies, out)
  /\ out' = NoReply
  /\ conn' = Fresh
  /\ buf' = Wiped(buf)
  /\ at' = IF conn.keep /\ out.page # "broken" THEN "in" ELSE "closed"
  /\ UNCHANGED <<client, net, start, unopened>>

ServerStep ==
  \/ OnReadable \/ Drain
  \/ ParseRequestLine \/ ParseHeaders \/ DoRequest \/ ParseDone
  \/ OnWritable

ClientStep ==
  \/ \E r \in Requests : Ask(r)
  \/ \E n \in 1 .. READ_BUFFER_SIZE + 1 : Send(n)

Next == ServerStep \/ ClientStep

\* The sub-reactor and the pool go on; the client need not.
Spec == Init /\ [][Next]_vars /\ WF_vars(ServerStep)

-----------------------------------------------------------------------------
TypeOK ==
  /\ \A r \in ToSet(asked) : r \in Requests
  /\ Len(buf) <= READ_BUFFER_SIZE /\ start \in 0 .. Len(buf)
  /\ conn.state \in {"REQUESTLINE", "HEADER"}
  /\ conn.url \in {"null", "lost", "root", "page", "login", "hello"}
  /\ conn.token \in {"null", "lost", "held"}
  /\ at \in {"in", "pool", "parse", "out", "closed", "crashed"}
  /\ at = "out" => out # NoReply
  /\ unopened \in BOOLEAN

Expected(r) == Answer(r.post, r.url, Body(r), IF r.auth THEN "held" ELSE "null", r.keep)

AsAsked ==
  /\ at # "crashed"
  /\ \A i \in DOMAIN replies : i <= Len(asked) /\ replies[i] = Expected(asked[i])

(* A client that waits for each reply, and whose requests come in one piece *)
(* if anything of them is kept in the buffer between two calls, is answered *)
(* as it asked: no body, flag, token or line of one request is left to be   *)
(* taken for part of the next (http_conn.cpp 28-55, 117-177).               *)
AnsweredAsAsked == ~piped /\ ~cut => AsAsked

(* And it is answered: no limit, no half-read request, no recv of length 0 *)
(* stands between such a request and its reply, up to one that fills the   *)
(* buffer exactly (http_conn.cpp 98-117, 419-451; main.cpp 98-112, 132).   *)
(* Except for a file that stat finds and open does not: do_request returns *)
(* without a response, the connection is armed for EPOLLIN again and its   *)
(* client waits in vain (http_conn.cpp 360-361, main.cpp 132-140).         *)
RequestServed ==
  (/\ ~piped /\ ~cut /\ unsent = <<>>
   /\ Len(replies) < Len(asked)
   /\ Len(Lines(Last(asked))) <= READ_BUFFER_SIZE)
  ~> (Len(replies) = Len(asked) \/ piped \/ unopened)

(* What Exchange promises.  In particular the connection of such a client  *)
(* is closed after the reply to a request without keep-alive, and never    *)
(* otherwise, except for a request larger than the buffer (http_conn.cpp   *)
(* 410-415, 419-451; main.cpp 98-118, 129-142).                            *)
E == INSTANCE Exchange WITH
       ReplyTo <- [r \in Requests |-> Expected(r)],
       Kept <- {r \in Requests : r.keep},
       Fitting <- {r \in Requests : Len(Lines(r)) <= READ_BUFFER_SIZE},
       open <- at \notin {"closed", "crashed"},
       loose <- piped \/ cut
ImplementsExchange == E!Spec

(* README.md:16, "TCP 半包/粘包截断防线": a client that waits for its replies *)
(* is answered as it asked in however many segments a request comes.        *)
PiecesDoNotMatter == ~piped => AsAsked
=============================================================================
