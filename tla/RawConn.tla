------------------------------ MODULE RawConn -------------------------------
(***************************************************************************)
(* handleRawConn of internal/api/rawhttp.go: the hand-written HTTP/1.1     *)
(* loop that reads requests of a keep-alive connection into one growing    *)
(* buffer, addressed by the offsets pos, headEnd, bodyEnd and used, and    *)
(* recycles the buffer through a pool.  The goroutine's steps are the      *)
(* stretches between two blocking calls (Read, RouteRaw, Write); the       *)
(* client and the kernel's socket queue run beside it.  Connections follow *)
(* one another, so that a pooled buffer comes back with the previous       *)
(* connection's cells in it.                                               *)
(***************************************************************************)
EXTENDS HttpRequests

CONSTANTS
  ReadBufSize,      \* readBufSize, in cells
  MaxRequestSize,   \* maxRequestSize, in cells
  Workloads,        \* what clients may send
  Pipelining,       \* may a client send a request before the last answer?
  MaxConns          \* bound on the number of connections

ASSUME RawConnAssumption ==
  /\ ReadBufSize \in Nat \ {0}
  /\ MaxRequestSize = 2 * ReadBufSize
  /\ MaxConns \in Nat
  /\ Pipelining \in BOOLEAN
  /\ \A w \in Workloads : WellFormed(w)

VARIABLES
  conn,       \* number of the current connection, 0 before the first
  work,       \* the workload its client sends
  client,     \* "open" | "closed": the client's end of the socket
  sent,       \* cells the client has written
  rcvd,       \* cells the server has read
  buf,        \* [len, at]: the slice the goroutine reads into
  used, pos, headEnd, bodyEnd,
  path,       \* the slice parseRequestLine returned, an alias of a buffer
  resp,       \* what RouteRaw was called with, its response being that
  answers,    \* responses written on this connection
  pool,       \* rawReadBufPool
  pc

vars == <<conn, work, client, sent, rcvd, buf, used, pos, headEnd, bodyEnd,
          path, resp, answers, pool, pc>>

peer == <<conn, work, client, sent>>
offsets == <<used, pos, headEnd, bodyEnd>>

Cells == (0 .. MaxConns) \X Nat
Zero == <<0, 0>>                                 \* a byte make() cleared
NewBuffer == [len |-> ReadBufSize, at |-> [i \in 0 .. ReadBufSize - 1 |-> Zero]]
NoPath == [live |-> FALSE, at |-> 0, cell |-> Zero]
NoResp == [path |-> Zero, body |-> <<>>]

\* The request being received, answered or awaited.
next == Len(answers) + 1
-----------------------------------------------------------------------------
(* Slices of the buffer.                                                   *)

\* indexHeaderEnd over buf[pos:used], as the offsets just after an empty line.
HeaderEnds ==
  {i \in pos + 1 .. used :
     \E k \in 1 .. work.n : buf.at[i - 1] = <<conn, HeadLast(work, k)>>}

FirstHeaderEnd(i) == i \in HeaderEnds /\ \A j \in HeaderEnds : i <= j

\* findContentLength over buf[lo:hi]: the first Content-Length field, else 0.
Declaring(lo, hi) ==
  {k \in 1 .. work.n :
     \E i \in lo .. hi - 1 : buf.at[i] = <<conn, work.start[k] + LengthAt>>}

ContentLength(lo, hi) ==
  IF Declaring(lo, hi) = {} THEN 0
  ELSE work.body[CHOOSE k \in Declaring(lo, hi) : \A j \in Declaring(lo, hi) : k <= j]

\* Mutant: the length doubles and the array behind it does not.
GrownLengthOnly(b, n) == [len |-> 2 * b.len, at |-> b.at]

\* make([]byte, len(buf)*2) and the copy of buf[:used] into it.
Grown(b, n) ==
  [len |-> 2 * b.len,
   at  |-> [i \in 0 .. 2 * b.len - 1 |-> IF i < n THEN b.at[i] ELSE Zero]]

\* copy(buf, buf[pos:used]) within one array.
Compacted(b, lo, hi) ==
  [len |-> b.len,
   at  |-> [i \in 0 .. b.len - 1 |-> IF i < hi - lo THEN b.at[lo + i] ELSE b.at[i]]]

\* n cells of the stream read into buf[lo:].
Filled(b, lo, n) ==
  [len |-> b.len,
   at  |-> [i \in 0 .. b.len - 1 |->
              IF lo <= i /\ i < lo + n THEN <<conn, rcvd + i - lo>> ELSE b.at[i]]]

\* What the path slice shows now: the live buffer or the array it outlived.
PathCell == IF path.live THEN buf.at[path.at] ELSE path.cell
-----------------------------------------------------------------------------
(* The client and the kernel.                                              *)

MaySend == IF Pipelining THEN work.start[work.n + 1]
           ELSE IF next <= work.n THEN work.start[next + 1]
           ELSE work.start[work.n + 1]

ClientSend ==
  /\ pc # "idle" /\ client = "open"
  /\ sent' \in sent + 1 .. MaySend
  /\ UNCHANGED <<conn, work, client, rcvd, buf, offsets, path, resp, answers, pool, pc>>

ClientClose ==
  /\ pc # "idle" /\ client = "open"
  /\ client' = "closed"
  /\ UNCHANGED <<conn, work, sent, rcvd, buf, offsets, path, resp, answers, pool, pc>>

\* Accept and the head of handleRawConn.  sync.Pool hands out a pooled buffer
\* or, when empty or swept by the collector, a new one.
Accept ==
  /\ pc = "idle" /\ conn < MaxConns
  /\ conn' = conn + 1
  /\ work' \in Workloads
  /\ client' = "open" /\ sent' = 0 /\ rcvd' = 0 /\ answers' = <<>>
  /\ buf' \in pool \cup {NewBuffer}
  /\ pool' = pool \ {buf'}
  /\ pc' = "header"
  /\ UNCHANGED <<offsets, path, resp>>
-----------------------------------------------------------------------------
(* The connection goroutine.                                               *)

\* return: the deferred functions pool the buffer and close the socket.
Return ==
  /\ pool' = IF buf.len <= MaxRequestSize THEN pool \cup {buf} ELSE pool
  /\ pc' = "idle"
  /\ used' = 0 /\ pos' = 0 /\ headEnd' = 0 /\ bodyEnd' = 0
  /\ path' = NoPath /\ resp' = NoResp
  /\ UNCHANGED <<peer, rcvd, buf, answers>>

\* Mutant: a full buffer goes to Read as it is.
HasRoomUnchecked == UNCHANGED <<buf, offsets, path>>

HasRoom ==
  /\ used < buf.len
  /\ UNCHANGED <<buf, offsets, path>>

\* In the header loop headEnd, bodyEnd and path hold nothing yet.
HeaderCompact ==
  /\ used = buf.len /\ pos > 0
  /\ buf' = Compacted(buf, pos, used)
  /\ used' = used - pos /\ pos' = 0
  /\ UNCHANGED <<headEnd, bodyEnd, path>>

HeaderGrow ==
  /\ used = buf.len /\ pos = 0 /\ used < MaxRequestSize
  /\ buf' = Grown(buf, used)
  /\ UNCHANGED <<offsets, path>>

MoreHeader ==
  /\ pc = "header" /\ HeaderEnds = {}
  /\ HasRoom \/ HeaderCompact \/ HeaderGrow
  /\ pc' = "readHeader"
  /\ UNCHANGED <<peer, rcvd, resp, answers, pool>>

HeaderTooLong ==
  /\ pc = "header" /\ HeaderEnds = {}
  /\ used = buf.len /\ pos = 0 /\ used >= MaxRequestSize
  /\ Return

\* Mutant: a request of exactly maxRequestSize is refused.
TooBigOrEqual(end) == ContentLength(pos, end) >= MaxRequestSize - (end - pos)

TooBig(end) == ContentLength(pos, end) > MaxRequestSize - (end - pos)

\* Mutant: the blank after the method is not skipped.
HeaderDoneAtMethod(end) ==
  /\ pc = "header" /\ FirstHeaderEnd(end) /\ ~TooBig(end)
  /\ headEnd' = end
  /\ bodyEnd' = end + ContentLength(pos, end)
  /\ path' = [live |-> TRUE, at |-> pos + PathAt - 1, cell |-> Zero]
  /\ pc' = "body"
  /\ UNCHANGED <<peer, rcvd, buf, used, pos, resp, answers, pool>>

HeaderDone(end) ==
  /\ pc = "header" /\ FirstHeaderEnd(end) /\ ~TooBig(end)
  /\ headEnd' = end
  /\ bodyEnd' = end + ContentLength(pos, end)
  /\ path' = [live |-> TRUE, at |-> pos + PathAt, cell |-> Zero]
  /\ pc' = "body"
  /\ UNCHANGED <<peer, rcvd, buf, used, pos, resp, answers, pool>>

BodyTooLong(end) ==
  /\ pc = "header" /\ FirstHeaderEnd(end) /\ TooBig(end)
  /\ Return

\* Compaction moves the data under path, which keeps its offset.
BodyCompact ==
  /\ used = buf.len /\ pos > 0
  /\ buf' = Compacted(buf, pos, used)
  /\ used' = used - pos /\ pos' = 0
  /\ headEnd' = headEnd - pos /\ bodyEnd' = bodyEnd - pos
  /\ UNCHANGED path

\* Growth leaves path with the old array, which nobody writes again.
BodyGrow ==
  /\ used = buf.len /\ pos = 0
  /\ buf' = Grown(buf, used)
  /\ path' = [live |-> FALSE, at |-> path.at, cell |-> PathCell]
  /\ UNCHANGED offsets

MoreBody ==
  /\ pc = "body" /\ used < bodyEnd
  /\ HasRoom \/ BodyCompact \/ BodyGrow
  /\ pc' = "readBody"
  /\ UNCHANGED <<peer, rcvd, resp, answers, pool>>

\* conn.Read(buf[used:]) returns what the kernel has, at most what fits.
Read(n) ==
  /\ pc \in {"readHeader", "readBody"}
  /\ n <= buf.len - used /\ n <= sent - rcvd
  /\ buf' = Filled(buf, used, n)
  /\ used' = used + n
  /\ rcvd' = rcvd + n
  /\ pc' = IF pc = "readHeader" THEN "header" ELSE "body"
  /\ UNCHANGED <<peer, pos, headEnd, bodyEnd, path, resp, answers, pool>>

\* The peer has gone: end of file once the queue is drained, or a reset.
ReadFails ==
  /\ pc \in {"readHeader", "readBody"} /\ client = "closed"
  /\ Return

\* Mutant: waits for one cell more than the body.
RouteLate ==
  /\ pc = "body" /\ used > bodyEnd
  /\ resp' = [path |-> PathCell,
              body |-> [i \in 1 .. bodyEnd - headEnd |-> buf.at[headEnd + i - 1]]]
  /\ pc' = "write"
  /\ UNCHANGED <<peer, rcvd, buf, offsets, path, answers, pool>>

Route ==
  /\ pc = "body" /\ used >= bodyEnd
  /\ resp' = [path |-> PathCell,
              body |-> [i \in 1 .. bodyEnd - headEnd |-> buf.at[headEnd + i - 1]]]
  /\ pc' = "write"
  /\ UNCHANGED <<peer, rcvd, buf, offsets, path, answers, pool>>

\* Mutant: requests already received behind this one are dropped.
WriteDropsRest ==
  /\ pc = "write"
  /\ answers' = Append(answers, resp)
  /\ pos' = 0 /\ used' = 0
  /\ headEnd' = 0 /\ bodyEnd' = 0 /\ path' = NoPath /\ resp' = NoResp
  /\ pc' = "header"
  /\ UNCHANGED <<peer, rcvd, buf, pool>>

\* Write succeeds; pos advances, and both offsets restart once drained.
Write ==
  /\ pc = "write"
  /\ answers' = Append(answers, resp)
  /\ IF bodyEnd = used THEN pos' = 0 /\ used' = 0
                       ELSE pos' = bodyEnd /\ used' = used
  /\ headEnd' = 0 /\ bodyEnd' = 0 /\ path' = NoPath /\ resp' = NoResp
  /\ pc' = "header"
  /\ UNCHANGED <<peer, rcvd, buf, pool>>

WriteFails ==
  /\ pc = "write" /\ client = "closed"
  /\ Return
-----------------------------------------------------------------------------
Init ==
  /\ conn = 0 /\ work \in Workloads /\ client = "closed"
  /\ sent = 0 /\ rcvd = 0
  /\ buf = NewBuffer /\ pool = {}
  /\ used = 0 /\ pos = 0 /\ headEnd = 0 /\ bodyEnd = 0
  /\ path = NoPath /\ resp = NoResp /\ answers = <<>>
  /\ pc = "idle"

Server ==
  \/ MoreHeader \/ HeaderTooLong
  \/ \E end \in HeaderEnds : HeaderDone(end)
  \/ \E end \in HeaderEnds : BodyTooLong(end)
  \/ MoreBody
  \/ \E n \in 1 .. MaxRequestSize : Read(n)
  \/ ReadFails \/ Route \/ Write \/ WriteFails

Next == ClientSend \/ ClientClose \/ Accept \/ Server

Spec == Init /\ [][Next]_vars

\* The runtime keeps scheduling a runnable goroutine; a Read with data waiting
\* returns.  A client that stays sends the rest of its workload.
FairSpec == Spec /\ WF_vars(Server) /\ WF_vars(ClientSend)
-----------------------------------------------------------------------------
(* Properties.                                                             *)

\* Every variable keeps the shape the code gives it.
TypeOK ==
  /\ conn \in 0 .. MaxConns
  /\ work \in Workloads
  /\ client \in {"open", "closed"}
  /\ sent \in Nat /\ rcvd \in Nat
  /\ buf.len \in Nat
  /\ buf.at \in [0 .. buf.len - 1 -> Cells]
  /\ used \in Nat /\ pos \in Nat /\ headEnd \in Nat /\ bodyEnd \in Nat
  /\ path \in [live : BOOLEAN, at : Nat, cell : Cells]
  /\ resp \in [path : Cells, body : Seq(Cells)]
  /\ answers \in Seq([path : Cells, body : Seq(Cells)])
  /\ \A b \in pool : b.len \in Nat /\ b.at \in [0 .. b.len - 1 -> Cells]
  /\ pc \in {"idle", "header", "readHeader", "body", "readBody", "write"}

\* conn.Read is never given an empty slice: Go's Read would return 0 with no
\* error at once, and both read loops would spin.
ReadHasRoom == pc \in {"readHeader", "readBody"} => used < buf.len

\* The buffer doubles but never beyond maxRequestSize, and so every buffer
\* passes the cap test of the deferred function and goes back to the pool.
BufferBounded ==
  /\ buf.len <= MaxRequestSize
  /\ pc = "idle" /\ conn > 0 => buf \in pool

\* Whatever the chunks Read returns, however often the buffer was compacted,
\* grown or recycled, the body of the k-th answer is the body of the k-th
\* request of this connection: no cell lost, repeated or left over.
BodiesMatch ==
  \A k \in 1 .. Len(answers) :
    k <= work.n /\ answers[k].body = Expected(conn, work, k).body

\* The same for the path: the k-th request is routed by its own path.
PathsMatch ==
  \A k \in 1 .. Len(answers) : answers[k].path = Expected(conn, work, k).path

\* A request may be refused, by closing, only when head and body exceed
\* maxRequestSize; a connection whose client stays is closed for nothing else.
Oversized(k) == work.head[k] + work.body[k] > MaxRequestSize
ClosedForCause ==
  pc = "idle" /\ client = "open" => next <= work.n /\ Oversized(next)

\* As long as its client stays, a workload of requests that fit is answered to
\* the last: no chunking leaves a loop waiting for cells it already has.
FittingAnswered ==
  \A c \in 1 .. MaxConns :
    (conn = c /\ \A k \in 1 .. work.n : ~Oversized(k))
      ~> (conn = c => client = "closed" \/ Len(answers) = work.n)
-----------------------------------------------------------------------------
(* What a connection promises, as a specification of its own.              *)

Http == INSTANCE HttpConn WITH open <- pc # "idle"
HttpSpec == Http!FairSpec

=============================================================================
