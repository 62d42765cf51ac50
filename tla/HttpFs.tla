------------------------------- MODULE HttpFs -------------------------------
(***************************************************************************)
(* httpfs2: one file of a web server, read through a socket that is kept   *)
(* alive (httpfs2.c, without USE_THREAD, USE_SSL and USE_AUTH, as the      *)
(* makefiles define none of them for it).  A request may time out, lose    *)
(* its connection or be answered with an error; the code retries some of   *)
(* these on a new connection.  The server is the environment: it answers   *)
(* in order, may close a connection at any time, and its file may grow or  *)
(* shrink at the end.  A byte is known by its offset.                      *)
(***************************************************************************)
EXTENDS Integers, Sequences, SequencesExt

CONSTANTS
  Lengths,        \* of the server's file
  Page,           \* how many bytes the kernel asks for
  MaxRequests     \* bound on the requests of the kernel

ASSUME HttpAssumption ==
  /\ Lengths \subseteq Nat \ {0} /\ Page \in Nat \ {0} /\ MaxRequests \in Nat

VARIABLES
  length,                     \* of the server's file, now
  up, owed, wire, arrived,    \* the connection: the requests the server has, what it sent
  sock_type, file_size, req_buf,   \* struct url
  at, want, filled, left,     \* where httpfs_read or httpfs_stat is
  answer, spoilt, requests

serverVars == <<length, up, owed, wire, arrived>>
clientVars == <<sock_type, file_size, req_buf, at, want, filled, left, answer, spoilt, requests>>
httpVars == <<serverVars, clientVars>>

Junk == -1
NoWant == [method |-> "none", off |-> 0, size |-> 0]
NoAnswer == [off |-> 0, data |-> << >>, whole |-> FALSE]
Least(a, b) == IF a < b THEN a ELSE b

\* A reply is a header, then its body: a GET's bytes, or a page about an error.
Header(status, len, close) == [status |-> status, length |-> len, close |-> close]
Byte(i) == [byte |-> i]
IsHeader(item) == "status" \in DOMAIN item
Bytes(items) == [i \in DOMAIN items |-> IF IsHeader(items[i]) THEN Junk ELSE items[i].byte]

HttpInit ==
  /\ length \in Lengths
  /\ up = FALSE /\ owed = << >> /\ wire = << >> /\ arrived = 0
  /\ sock_type = "closed" /\ file_size = -1 /\ req_buf = << >>
  /\ at = "idle" /\ want = NoWant /\ filled = 0 /\ left = 0
  /\ answer = NoAnswer /\ spoilt = FALSE /\ requests = 0
-----------------------------------------------------------------------------
(* The server *)

\* exchange asks for a range only if its end is not 0.
Ranged(w) == w.method = "GET" /\ w.off + w.size - 1 > 0

Reply(w, close) ==
  IF w.method = "HEAD" THEN <<Header(200, length, close)>>
  ELSE LET first == IF Ranged(w) THEN w.off ELSE 0
           last == IF Ranged(w) THEN Least(w.off + w.size, length) - 1 ELSE length - 1
       IN  IF first > last THEN <<Header(416, 1, close), Byte(Junk)>>
           ELSE <<Header(IF Ranged(w) THEN 206 ELSE 200, last - first + 1, close)>>
                  \o [i \in 1 .. last - first + 1 |-> Byte(first + i - 1)]

Respond ==
  /\ up /\ owed # << >>
  /\ \E close \in BOOLEAN :
       /\ \/ wire' = wire \o Reply(Head(owed), close)
          \/ wire' = wire \o <<Header(500, 1, close)>>
                          \o IF Head(owed).method = "GET" THEN <<Byte(Junk)>> ELSE << >>
       /\ up' = ~close
  /\ owed' = IF up' THEN Tail(owed) ELSE << >>
  /\ UNCHANGED <<length, arrived, clientVars>>

Arrive ==
  /\ arrived < Len(wire) /\ arrived' = arrived + 1
  /\ UNCHANGED <<length, up, owed, wire, clientVars>>

\* What has not arrived may be lost.
ServerCloses ==
  /\ up /\ up' = FALSE /\ owed' = << >>
  /\ \E n \in arrived .. Len(wire) : wire' = SubSeq(wire, 1, n)
  /\ UNCHANGED <<length, arrived, clientVars>>

Resize ==
  /\ length' \in Lengths /\ length' # length /\ at = "idle" /\ requests > 0
  /\ UNCHANGED <<up, owed, wire, arrived, clientVars>>
-----------------------------------------------------------------------------
(* The handlers *)

\* httpfs_lookup of the file's name, and httpfs_getattr of inode 2.
StartStat ==
  /\ at = "idle" /\ requests < MaxRequests
  /\ at' = "send" /\ want' = [NoWant EXCEPT !.method = "HEAD"]
  /\ requests' = requests + 1
  /\ UNCHANGED <<serverVars, sock_type, file_size, req_buf, filled, left, answer, spoilt>>

\* httpfs_read asserts that it knows of the offset, and does not ask beyond
\* the size it knows.  The buffer stays if it is large enough.
StartRead(off) ==
  /\ at = "idle" /\ requests < MaxRequests /\ file_size >= 0
  /\ requests' = requests + 1 /\ answer' = NoAnswer
  /\ LET size == Least(Page, file_size - off) IN
       \/ /\ size < 0 /\ at' = "aborted" /\ UNCHANGED <<want, req_buf>>
       \/ /\ size = 0 /\ UNCHANGED <<at, want, req_buf>>
       \/ /\ size > 0 /\ at' = "send"
          /\ want' = [method |-> "GET", off |-> off, size |-> size]
          /\ req_buf' = IF Len(req_buf) < size THEN [i \in 1 .. size |-> Junk] ELSE req_buf
  /\ UNCHANGED <<serverVars, sock_type, file_size, filled, left, spoilt>>
-----------------------------------------------------------------------------
(* exchange *)

Disconnected == up' = FALSE /\ owed' = << >> /\ wire' = << >> /\ arrived' = 0

\* close_client_force
CloseForce == sock_type' = "closed" /\ Disconnected /\ spoilt' = FALSE

\* close_client_socket
CloseSocket ==
  IF sock_type = "keepalive" THEN UNCHANGED <<sock_type, up, owed, wire, arrived, spoilt>>
  ELSE CloseForce

\* The handler replies with an error; the connection stays as it is, with all
\* that is still to come on it.
Fails ==
  /\ at' = "idle" /\ answer' = NoAnswer
  /\ spoilt' = (spoilt \/ want.method = "GET")
  /\ UNCHANGED <<sock_type, file_size, req_buf, filled, left>>

\* open_client_socket, which leaves a kept socket alone, and write.
Connect ==
  /\ at = "send" /\ sock_type # "keepalive"
  /\ sock_type' = "open" /\ up' = TRUE /\ owed' = <<want>>
  /\ wire' = << >> /\ arrived' = 0 /\ spoilt' = FALSE
  /\ at' = "reply"
  /\ UNCHANGED <<length, file_size, req_buf, want, filled, left, answer, requests>>

ConnectFails ==
  /\ at = "send" /\ sock_type # "keepalive"
  /\ CloseForce
  /\ at' = "idle" /\ answer' = NoAnswer
  /\ UNCHANGED <<length, file_size, req_buf, want, filled, left, requests>>

\* A write to a connection the server has closed may still succeed.
WriteKept ==
  /\ at = "send" /\ sock_type = "keepalive"
  /\ owed' = IF up THEN Append(owed, want) ELSE owed
  /\ at' = "reply"
  /\ UNCHANGED <<length, up, wire, arrived, sock_type, file_size, req_buf, want, filled, left, answer, spoilt, requests>>

\* write_client_socket closes the socket and, whatever its loop is for, gives
\* up; exchange tries again after EPIPE but not after ECONNRESET.
WriteBroken ==
  /\ at = "send" /\ sock_type = "keepalive" /\ ~up
  /\ CloseForce
  /\ \/ at' = "send" /\ UNCHANGED answer
     \/ at' = "idle" /\ answer' = NoAnswer
  /\ UNCHANGED <<length, file_size, req_buf, want, filled, left, requests>>

\* Mutant: the request is sent again without a new connection.
RetrySame ==
  /\ at = "reply" /\ arrived = 0
  /\ at' = "send"
  /\ UNCHANGED <<serverVars, sock_type, file_size, req_buf, want, filled, left, answer, spoilt, requests>>

\* No reply in time, or the end of the connection: close it and try again.
Retry ==
  /\ at = "reply" /\ arrived = 0
  /\ CloseForce /\ at' = "send"
  /\ UNCHANGED <<length, file_size, req_buf, want, filled, left, answer, requests>>

\* ECONNRESET.
ReplyReset ==
  /\ at = "reply" /\ ~up /\ arrived = 0 /\ wire = << >>
  /\ Fails
  /\ UNCHANGED <<serverVars, want, requests>>

Take(n) ==
  /\ wire' = SubSeq(wire, n + 1, Len(wire)) /\ arrived' = arrived - n
  /\ UNCHANGED <<length, up, owed>>

\* parse_header wants a header with the expected status.
Expected == IF Ranged(want) THEN 206 ELSE 200
Accepts(item) == IsHeader(item) /\ item.status = Expected

ReadRefused(n) ==
  /\ at = "reply" /\ ~Accepts(wire[1])
  /\ Take(n)
  /\ Fails
  /\ UNCHANGED <<want, requests>>

\* The socket's type after a header that was accepted.
Kept(header) == IF header.close THEN "open" ELSE "keepalive"

\* get_stat.  A socket that is not kept is closed.
ReadStat(n) ==
  /\ at = "reply" /\ want.method = "HEAD" /\ Accepts(wire[1])
  /\ file_size' = wire[1].length
  /\ IF wire[1].close THEN CloseForce /\ UNCHANGED length
     ELSE sock_type' = "keepalive" /\ Take(n) /\ UNCHANGED spoilt
  /\ at' = "idle" /\ answer' = NoAnswer
  /\ UNCHANGED <<req_buf, want, filled, left, requests>>
-----------------------------------------------------------------------------
(* get_data *)

Fill(from, data) ==
  [i \in DOMAIN req_buf |-> IF i - from \in DOMAIN data THEN data[i - from] ELSE req_buf[i]]

\* The first read holds the header and as much of the body as came with it; a
\* body that is longer than what was asked for is copied all the same.
ReadHeader(n) ==
  /\ at = "reply" /\ want.method = "GET" /\ Accepts(wire[1])
  /\ LET size == Least(wire[1].length, want.size)
         body == Bytes(SubSeq(wire, 2, n))
     IN  \/ /\ Len(body) > size /\ at' = "overrun"
            /\ UNCHANGED <<req_buf, filled, left>>
         \/ /\ Len(body) <= size /\ at' = "body"
            /\ req_buf' = Fill(0, body) /\ filled' = Len(body) /\ left' = size - Len(body)
  /\ answer' = [NoAnswer EXCEPT !.whole = (wire[1].length = want.size /\ ~spoilt)]
  /\ spoilt' = (spoilt \/ wire[1].length > want.size)
  /\ sock_type' = Kept(wire[1]) /\ Take(n)
  /\ UNCHANGED <<file_size, want, requests>>

ReadBody(n) ==
  /\ at = "body" /\ n <= left
  /\ req_buf' = Fill(filled, Bytes(SubSeq(wire, 1, n)))
  /\ filled' = filled + n /\ left' = left - n
  /\ Take(n)
  /\ UNCHANGED <<sock_type, file_size, at, want, answer, spoilt, requests>>

\* A timeout or a reset within the body.
BodyFails ==
  /\ at = "body" /\ left > 0 /\ arrived = 0
  /\ Fails
  /\ UNCHANGED <<serverVars, want, requests>>

\* All there, or the connection ended: the length of what was asked, less what is left.
BodyEnds ==
  /\ at = "body"
  /\ left = 0 \/ (~up /\ wire = << >>)
  /\ answer' = [answer EXCEPT !.off = want.off, !.data = SubSeq(req_buf, 1, want.size - left)]
  /\ at' = "idle"
  /\ CloseSocket
  /\ UNCHANGED <<length, file_size, req_buf, want, filled, left, requests>>
-----------------------------------------------------------------------------
HttpNext ==
  \/ Respond \/ Arrive \/ ServerCloses \/ Resize
  \/ StartStat \/ \E off \in {0, Page} : StartRead(off)
  \/ Connect \/ ConnectFails \/ WriteKept \/ WriteBroken \/ Retry \/ ReplyReset
  \/ \E n \in 1 .. arrived : ReadRefused(n) \/ ReadStat(n) \/ ReadHeader(n) \/ ReadBody(n)
  \/ BodyFails \/ BodyEnds

HttpSpec == HttpInit /\ [][HttpNext]_httpVars
-----------------------------------------------------------------------------
\* What a read returns are the bytes of the file at the offset it asked for,
\* and never those of an earlier request, through every loss, timeout and retry
\* (httpfs2.c:1064-1113).  Not so on a connection that a failed read left with
\* more to come, nor when the server's answer is shorter than what was asked.
RightBytes ==
  answer.whole =>
    \A i \in DOMAIN answer.data : answer.data[i] = answer.off + i - 1
=============================================================================
